----------------------------- MODULE ReportLink -----------------------------
(***************************************************************************)
(* What the report pipeline promises: a mailbox for one report between the *)
(* keyboard and the host.  A new report replaces one the host has not      *)
(* taken.  What the host takes is a report that was posted, unless it      *)
(* takes an earlier one while the next is posted, or a bus event falls     *)
(* into the posting; then anything may be in the box until the next        *)
(* posting.  Only a withdrawal by the host loses a report.                 *)
(***************************************************************************)
CONSTANTS
    Reports,        \* reports of the keyboard
    EmptyReport,    \* the one without a key
    Anything,       \* what a packet may be when things go wrong
    NoMail,         \* the box is empty
    Torn            \* it holds a packet that is being replaced

VARIABLES
    current,        \* the keyboard's report
    mail,           \* the box
    seen,           \* what the host took last
    posting,        \* `current' is on its way into the box
    disturbed,      \* the posting was disturbed
    withdrawn       \* a report was withdrawn and no posting followed

vars == <<current, mail, seen, posting, disturbed, withdrawn>>

Init ==
    /\ current = EmptyReport /\ mail = NoMail /\ seen = EmptyReport
    /\ posting = FALSE /\ disturbed = FALSE /\ withdrawn = FALSE

Build(report) ==
    /\ ~posting
    /\ current' = report
    /\ UNCHANGED <<mail, seen, posting, disturbed, withdrawn>>

Begin ==
    /\ ~posting
    /\ posting' = TRUE
    /\ disturbed' = FALSE /\ withdrawn' = FALSE
    /\ UNCHANGED <<current, mail, seen>>

\* The report in the box is being replaced.
Tear ==
    /\ posting /\ mail # NoMail
    /\ mail' = Torn
    /\ UNCHANGED <<current, seen, posting, disturbed, withdrawn>>

\* The report is in the box.  It may get there twice, even when the host has
\* taken it already.
Post ==
    /\ posting' \in {posting, FALSE}
    /\ mail' = current \/ (disturbed /\ mail' \in Anything \union {Torn})
    /\ UNCHANGED <<current, seen, disturbed, withdrawn>>

\* A posting ends without a report put into the box only when it is there
\* already, or the host has it, or the host has withdrawn it.
End ==
    /\ posting
    /\ posting' = FALSE
    /\ disturbed \/ withdrawn \/ mail = current \/ (mail = NoMail /\ seen = current)
    /\ UNCHANGED <<current, mail, seen, disturbed, withdrawn>>

\* An event of the bus falls into the posting.
Disturb ==
    /\ posting
    /\ disturbed' = TRUE
    /\ mail' \in Anything \union {NoMail, Torn}
    /\ UNCHANGED <<current, seen, posting, withdrawn>>

Take ==
    /\ mail # NoMail
    /\ mail' = NoMail
    /\ IF mail = Torn THEN seen' \in Anything ELSE seen' = mail
    /\ UNCHANGED <<current, posting, disturbed, withdrawn>>

Withdraw ==
    /\ mail' = NoMail /\ seen' = EmptyReport
    /\ withdrawn' \in {withdrawn, TRUE}
    /\ withdrawn' \/ current = EmptyReport
    /\ disturbed' \in {disturbed, disturbed \/ posting}
    /\ UNCHANGED <<current, posting>>

Next ==
    \/ \E report \in Reports : Build(report)
    \/ Begin \/ Tear \/ Post \/ End \/ Disturb \/ Take \/ Withdraw

Spec == Init /\ [][Next]_vars
=============================================================================
