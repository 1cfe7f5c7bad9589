---------------------------- MODULE EmailConsent ----------------------------
(***************************************************************************)
(* EmailQueue with history variables that tell, for every open pass, which *)
(* leads have been opted out, or suppressed, ever since the pass began.    *)
(* The history adds no behaviour: it only lets the promise about opting    *)
(* out be stated, for it relates a mail to a moment in the past.           *)
(***************************************************************************)
EXTENDS EmailQueue

VARIABLES
  optedOut,  \* optedOut[p]: leads without consent since p's pass began
  barred     \* barred[p]: leads suppressed since p's pass began

history == <<optedOut, barred>>

CInit ==
  /\ Init
  /\ optedOut = [p \in Processors |-> Leads \ consented]
  /\ barred = [p \in Processors |-> suppressed]

\* An idle processor has all of the present to look back on.
Since(p, S, S1) == IF sess[p].pc = "idle" THEN S1 ELSE S \cap S1

Remember ==
  /\ optedOut' = [p \in Processors |-> Since(p, optedOut[p], Leads \ consented')]
  /\ barred' = [p \in Processors |-> Since(p, barred[p], suppressed')]

CNext == Next /\ Remember

CSpec == CInit /\ [][CNext]_<<vars, history>>

\* The unsubscribe link and the suppression list bind every pass that begins
\* after them, though a pass keeps the leads it loaded: no alert or digest is
\* handed over for a lead that has been opted out since before the pass began,
\* and no mail at all for one that has been suppressed since then
\* (email_queue.py:86-95; README.md:86, "every email contains an unsubscribe
\* link").
OptOutHolds ==
  \A p \in Processors, m \in Messages :
    Sending(p, m) =>
      /\ LeadOf[m] \notin barred[p]
      /\ Priority[m] > 0 => LeadOf[m] \notin optedOut[p]
=============================================================================
