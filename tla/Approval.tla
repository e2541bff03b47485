------------------------------- MODULE Approval -------------------------------
(***************************************************************************)
(* What an approval queue promises the operator who decides: a command     *)
(* starts only under a grant, a grant starts it at most once and is not    *)
(* given back, a request that has to be decided again needs a new grant,   *)
(* and a request that is closed stays closed.  Who decides, who executes,  *)
(* how an execution is claimed and what a restart does to it is left to    *)
(* the implementation.                                                     *)
(***************************************************************************)
EXTENDS Naturals, TLAPS

CONSTANT Request

VARIABLES state,   \* [Request -> where its decision stands]
          grants,  \* [Request -> decisions to let it run]
          starts   \* [Request -> times its command was started]

vars == <<state, grants, starts>>

(* granted: the latest grant can still start the command; spent: it cannot.*)
State == {"waiting", "granted", "spent", "closed"}

Init ==
    /\ state = [r \in Request |-> "waiting"]
    /\ grants = [r \in Request |-> 0]
    /\ starts = [r \in Request |-> 0]

Move(r, from, to) == state[r] \in from /\ state' = [state EXCEPT ![r] = to]

Grant(r) ==
    /\ Move(r, {"waiting"}, "granted")
    /\ grants' = [grants EXCEPT ![r] = @ + 1]
    /\ UNCHANGED starts

Start(r) ==
    /\ Move(r, {"granted"}, "spent")
    /\ starts' = [starts EXCEPT ![r] = @ + 1]
    /\ UNCHANGED grants

(* The command was refused, or whoever was to start it stopped.            *)
Forfeit(r) == Move(r, {"granted"}, "spent") /\ UNCHANGED <<grants, starts>>

AskAgain(r) ==
    Move(r, {"granted", "spent"}, "waiting") /\ UNCHANGED <<grants, starts>>

Close(R) ==
    /\ state' = [r \in Request |-> IF r \in R THEN "closed" ELSE state[r]]
    /\ UNCHANGED <<grants, starts>>

Next ==
    \/ \E r \in Request : Grant(r) \/ Start(r) \/ Forfeit(r) \/ AskAgain(r)
    \/ \E R \in SUBSET Request : Close(R)

Spec == Init /\ [][Next]_vars

-----------------------------------------------------------------------------
(* No command starts more often than it was granted: a run of a request's  *)
(* command can be laid to a decision of its own.                           *)
OneStartPerGrant == \A r \in Request : starts[r] <= grants[r]

(* A grant that can still start the command has not been counted yet.      *)
Counted ==
    /\ state \in [Request -> State]
    /\ grants \in [Request -> Nat]
    /\ starts \in [Request -> Nat]
    /\ \A r \in Request :
         /\ starts[r] <= grants[r]
         /\ state[r] = "granted" => starts[r] < grants[r]

(* The queue's bargain is enough: closing, forfeiting and asking again, in *)
(* any order and any number of times, give no grant a second start.        *)
THEOREM GrantStartsOnce == Spec => []OneStartPerGrant
<1>1. Init => Counted
  BY DEF Init, Counted, State
<1>2. Counted /\ [Next]_vars => Counted'
  <2> SUFFICES ASSUME Counted, [Next]_vars PROVE Counted'
    OBVIOUS
  <2> USE DEF Counted, State, Move
  <2>1. ASSUME NEW r \in Request, Grant(r) PROVE Counted'
    BY <2>1 DEF Grant
  <2>2. ASSUME NEW r \in Request, Start(r) PROVE Counted'
    BY <2>2 DEF Start
  <2>3. ASSUME NEW r \in Request, Forfeit(r) \/ AskAgain(r) PROVE Counted'
    BY <2>3 DEF Forfeit, AskAgain
  <2>4. ASSUME NEW R \in SUBSET Request, Close(R) PROVE Counted'
    BY <2>4 DEF Close
  <2>5. CASE UNCHANGED vars
    BY <2>5 DEF vars
  <2> QED
    BY <2>1, <2>2, <2>3, <2>4, <2>5 DEF Next
<1>3. Counted => OneStartPerGrant
  BY DEF Counted, OneStartPerGrant
<1> QED
  BY <1>1, <1>2, <1>3, PTL DEF Spec
=============================================================================
