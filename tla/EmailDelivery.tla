--------------------------- MODULE EmailDelivery ---------------------------
(***************************************************************************)
(* What the e-mail queue promises about each message, without processors,  *)
(* passes or transactions.  A message waits until it is settled, once and  *)
(* for all, as mailed, withheld or failed.  It may reach its recipient     *)
(* several times while it waits, but every mail except the one that        *)
(* settles it went unrecorded, and nothing is mailed after it is settled.  *)
(***************************************************************************)
EXTENDS Naturals

CONSTANT Messages

VARIABLES
  outcome,     \* what the table says
  handed,      \* mails handed to the provider
  unrecorded   \* those that no row will ever record

vars == <<outcome, handed, unrecorded>>

Outcomes == {"absent", "waiting", "mailed", "withheld", "failed"}

Init ==
  /\ outcome = [m \in Messages |-> "absent"]
  /\ handed = [m \in Messages |-> 0]
  /\ unrecorded = [m \in Messages |-> 0]

\* At most one mail of a waiting message is neither recorded nor given up.
InDoubt(m) == handed[m] = unrecorded[m] + 1
Clear(m) == handed[m] = unrecorded[m]

SameMails(m) == handed'[m] = handed[m] /\ unrecorded'[m] = unrecorded[m]

Submit(m) ==
  outcome[m] = "absent" /\ outcome'[m] = "waiting" /\ SameMails(m)

Hand(m) ==
  /\ outcome[m] = "waiting" /\ outcome'[m] = "waiting"
  /\ Clear(m)
  /\ handed'[m] = handed[m] + 1
  /\ unrecorded'[m] \in {unrecorded[m], unrecorded[m] + 1}

Forget(m) ==
  /\ outcome[m] = "waiting" /\ outcome'[m] = "waiting"
  /\ InDoubt(m)
  /\ handed'[m] = handed[m]
  /\ unrecorded'[m] = unrecorded[m] + 1

Record(m) ==
  /\ outcome[m] = "waiting" /\ outcome'[m] = "mailed"
  /\ InDoubt(m)
  /\ SameMails(m)

GiveUp(m) ==
  /\ outcome[m] = "waiting" /\ outcome'[m] \in {"withheld", "failed"}
  /\ Clear(m)
  /\ SameMails(m)

Same(m) == outcome'[m] = outcome[m] /\ SameMails(m)

\* One transaction settles many messages at once.
Next ==
  /\ outcome' \in [Messages -> Outcomes]
  /\ handed' \in [Messages -> Nat]
  /\ unrecorded' \in [Messages -> Nat]
  /\ \A m \in Messages :
       Submit(m) \/ Hand(m) \/ Forget(m) \/ Record(m) \/ GiveUp(m) \/ Same(m)

Spec == Init /\ [][Next]_vars
=============================================================================
