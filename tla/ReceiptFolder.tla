----------------------------- MODULE ReceiptFolder -----------------------------
(***************************************************************************)
(* Which file of the Drive folder is whose receipt: the months of          *)
(* config.py, the names of domain/naming.py and domain/periods.py, the     *)
(* match of workflows/drive_status.py and the archive of one-off receipts  *)
(* (workflows/receipt_archive.py).                                         *)
(*                                                                         *)
(* A receipt is asked for by the month of use; its name carries a date of  *)
(* the month in which it was paid, before or after it for some services.   *)
(* A file is what can be read from its name and its size, and a file of    *)
(* the folder has its place in the order of modification: of several for   *)
(* one service and month, the page shows the newest.                       *)
(***************************************************************************)
EXTENDS Integers

CONSTANTS
    Months,         \* bound: the months in which today may lie, Start the first
    MaxChanges      \* bound: how often the folder changes

\* config.SERVICES: how many months after its use a receipt is paid.
Offset == [epos |-> -1, commufa |-> 1, tokuten |-> 1, mobile |-> 0]
Services == DOMAIN Offset

\* shift_month
ShiftMonth(month, delta) ==
    LET index == month.year * 12 + (month.month - 1) + delta
    IN  [year |-> index \div 12, month |-> (index % 12) + 1]

ExpectedTransactionMonth(s, usage) == ShiftMonth(usage, Offset[s])

UsageMonthFor(s, transaction) == ShiftMonth(transaction, -Offset[s])

\* Dates, by their month: no day of a month but the first is told from another.
NoDate == [year |-> 0, month |-> 0, day |-> "none"]
OnDay(month, day) == [year |-> month.year, month |-> month.month, day |-> day]
MonthOf(date) == [year |-> date.year, month |-> date.month]
Around(n) == {ShiftMonth(m, delta) : m \in Months, delta \in -n .. n}
Dates == {OnDay(m, day) : m \in Around(1), day \in {"first", "later"}}

\* A file whose name has the parts of a receipt's: the partner is one of a
\* service's (an alias of it), or somebody else; amounts are yen, what only the
\* archive reads (other currencies, commas, refunds), or nothing that either does.
\* Of any other file nothing is read, if it is a PDF or not.
Files == [kind: {"pdf", "empty"}, date: Dates,
          partner: Services \cup {"other"}, amount: {"yen", "zero", "foreign"}]
           \cup [kind: {"pdf", "empty", "other"}, date: {NoDate},
                 partner: {"other"}, amount: {"zero"}]

VARIABLES
    folder,     \* the files, each with the change that made it what it is
    changes,    \* how often the folder was changed: its time of modification
    today,      \* the month of the clock
    receipts    \* history: what was saved for whom

vars == <<folder, changes, today, receipts>>

\* TARGET_MONTH_START and selectable_months: the months that have a page.
Start == [year |-> 2026, month |-> 1]
Index(month) == month.year * 12 + (month.month - 1)
SelectableMonths == {ShiftMonth(Start, n) : n \in 0 .. Index(today) - Index(Start)}

Init == folder = {} /\ changes = 0 /\ today = Start /\ receipts = {}

-------------------------------------------------------------------------------
(* A month's receipt.                                                      *)

\* The date found in the document is taken as it is.
MutantDateInTargetMonth(month, candidate) ==
    IF candidate # NoDate THEN candidate ELSE OnDay(month, "first")

\* date_in_target_month
DateInTargetMonth(month, candidate) ==
    IF candidate # NoDate /\ MonthOf(candidate) = month THEN candidate ELSE OnDay(month, "first")

\* What find_receipt asks of one file.
Matches(file, s, usage) ==
    /\ file.kind = "pdf"
    /\ file.date # NoDate /\ MonthOf(file.date) = ExpectedTransactionMonth(s, usage)
    /\ file.partner = s /\ file.amount = "yen"

Found(s, usage) == {f \in folder : Matches(f.file, s, usage)}

\* Of several it takes the oldest.
MutantShown(s, usage) == {f \in Found(s, usage) : \A g \in Found(s, usage) : f.at <= g.at}

\* find_receipt and receipts_for_month: the newest one, or none.
Shown(s, usage) == {f \in Found(s, usage) : \A g \in Found(s, usage) : g.at <= f.at}

\* _receipt_metadata and build_receipt_filename.
Named(s, usage, candidate, amount) ==
    [kind |-> "pdf", partner |-> s, amount |-> amount,
     date |-> DateInTargetMonth(ExpectedTransactionMonth(s, usage), candidate)]

\* Names that may be the same: amounts, aliases and days are not all told apart.
SameName(file, other) ==
    /\ file.date = other.date /\ file.partner = other.partner /\ file.amount = other.amount

\* What is written last was modified last.
Write(file, replaced) ==
    /\ folder' = (folder \ replaced) \cup {[file |-> file, at |-> changes + 1]}
    /\ changes' = changes + 1
    /\ UNCHANGED today

\* run_auto_acquisition, of a document with this date and amount: upsert_bytes
\* replaces a file of the same name, or makes one.  (One that has the same content
\* too is left alone, and nothing changes.)
Acquire(s, usage, candidate, amount) ==
    LET file == Named(s, usage, candidate, amount)
    IN  /\ usage \in SelectableMonths /\ Found(s, usage) = {}
        /\ \/ Write(file, {})
           \/ \E f \in folder : SameName(f.file, file) /\ Write(file, {f})
        /\ receipts' = receipts \cup
             {[service |-> s, month |-> usage, saved |-> [file |-> file, at |-> changes + 1]]}

\* The owner puts a file into the folder: bound: dated, if at all, the first of a
\* month, as a day matters to nothing but equal names.
PutFile(file) ==
    /\ file.date.day # "later"
    /\ Write(file, {})
    /\ UNCHANGED receipts

\* The first of the next month.
NextMonth ==
    /\ today' = ShiftMonth(today, 1) /\ today' \in Months
    /\ UNCHANGED <<folder, changes, receipts>>

Next ==
    \/ /\ changes < MaxChanges
       /\ \/ \E file \in Files : PutFile(file)
          \/ \E s \in Services, usage \in Months, candidate \in Dates \cup {NoDate},
                amount \in {"yen", "zero"} :
               Acquire(s, usage, candidate, amount)
    \/ NextMonth

Spec == Init /\ [][Next]_vars

-------------------------------------------------------------------------------
(* The archive of one-off receipts.                                        *)

\* _matching_recurring_service_id: the file, alone, would be found for a month,
\* whether that has a page or not.
Recurring(file) ==
    /\ file.date # NoDate
    /\ \E s \in Services : Matches(file, s, UsageMonthFor(s, MonthOf(file.date)))

\* _parse_filename and _parse_amount: the name has the parts of a receipt's.
Parsed(file) ==
    file.date # NoDate /\ file.amount \in {"yen", "foreign"}

\* _known_service_id: the file might be a month's, and does not fit.
Known(file) == file.partner \in Services

\* build_receipt_archive: how it lists a file.
Listing(file) ==
    IF file.kind = "other" THEN "ignored"
    ELSE IF file.kind = "empty" THEN "review"
    ELSE IF Recurring(file) THEN "month"
    ELSE IF Parsed(file) /\ ~Known(file) THEN "one-off"
    ELSE "review"

-------------------------------------------------------------------------------
(* What the owner may rely on.                                             *)

\* The folder holds files, no two of them of one modification.
TypeOK ==
    /\ changes \in 0 .. MaxChanges /\ today \in Months
    /\ \A f \in folder :
         /\ f \in [file: Files, at: 1 .. changes]
         /\ \A g \in folder : f.at = g.at => f = g
    /\ receipts \subseteq [service: Services, month: Months,
                           saved: [file: Files, at: 1 .. changes]]

\* A receipt saved for a service and month of use counts for these only, across the
\* end of a year too, and the page of that month, which can be chosen, shows it or
\* one put there later; one of zero yen is left for the owner to see.
SavedIsFound ==
    \A r \in receipts :
        /\ r.month \in SelectableMonths
        /\ IF r.saved.file.amount = "zero"
           THEN /\ Listing(r.saved.file) = "review"
                /\ \E f \in folder : f.file = r.saved.file
           ELSE /\ \A s \in Services, usage \in Around(2) :
                     Matches(r.saved.file, s, usage) <=> s = r.service /\ usage = r.month
                /\ \E f \in Shown(r.service, r.month) : f.at >= r.saved.at

OnAPage == UNION {Shown(s, usage) : s \in Services, usage \in SelectableMonths}

\* A file on the page of a month is not in the archive as well.  One that is in
\* neither is a service's, and either the page of its month shows a newer one, or
\* its month has no page: it is still to come, or it lies before the first of all.
OnlyOlderAreLeftOut ==
    /\ \A f \in OnAPage : Listing(f.file) = "month"
    /\ \A f \in folder \ OnAPage :
         Listing(f.file) = "month" =>
            /\ f.file.partner \in Services
            /\ \A usage \in SelectableMonths :
                 ExpectedTransactionMonth(f.file.partner, usage) = MonthOf(f.file.date)
                   => \E g \in Shown(f.file.partner, usage) : g.at > f.at
===============================================================================
