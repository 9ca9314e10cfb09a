----------------------------- MODULE AccessProofs -----------------------------
(***************************************************************************)
(* What the proofs about a part need to know of the composition, and the   *)
(* proofs about the smallest part, ConfigResolution.                       *)
(***************************************************************************)
EXTENDS Access, TLAPS

-----------------------------------------------------------------------------
(* The composition: each part behaves as its own module says *)

\* A step of the program is, for each part, a step of that part or none.
LEMMA StepOfParts ==
    ASSUME [Next]_vars
    PROVE  /\ [S!Next]_S!vars
           /\ [R!Next]_R!vars
           /\ [L!Next]_L!vars
           /\ [C!Next]_C!vars
BY DEF Next, vars, sVars, rVars, lVars, cVars, S!vars, R!vars, L!vars, C!vars

\* Every behaviour of Access is one of each part: what is proved of a part holds
\* in the composition.
LEMMA PartsAreImplemented == Spec => S!Spec /\ R!Spec /\ L!Spec /\ C!Spec
<1>1. Init => S!Init /\ R!Init /\ L!Init /\ C!Init
  BY DEF Init
<1>2. [Next]_vars => [S!Next]_S!vars /\ [R!Next]_R!vars /\ [L!Next]_L!vars /\ [C!Next]_C!vars
  BY StepOfParts
<1> QED
  BY <1>1, <1>2, PTL DEF Spec, S!Spec, R!Spec, L!Spec, C!Spec

-----------------------------------------------------------------------------
(* ConfigResolution *)

\* .env has not been loaded when the program begins nor when there is a
\* config.yaml, and the result is what the sources say at the end.
ConfigInv ==
    /\ env \in [C!Variable -> {"unset", "process", ".env"}]
    /\ (stage = "begin" \/ file # Absent) => \A v \in C!Variable : env[v] # ".env"
    /\ stage # "done" => config = <<"none", "none">>
    /\ stage = "done" => config = C!Resolved

LEMMA ConfigInvHolds == C!Spec => []ConfigInv
<1>1. C!Init => ConfigInv
  BY DEF C!Init, ConfigInv, C!Variable
<1>2. ConfigInv /\ [C!Next]_C!vars => ConfigInv'
  <2> SUFFICES ASSUME ConfigInv, [C!Next]_C!vars PROVE ConfigInv'
    OBVIOUS
  <2>1. CASE C!ReadInConfig
    BY <2>1 DEF C!ReadInConfig, ConfigInv
  <2>2. CASE C!Resolve
    BY <2>2 DEF C!Resolve, ConfigInv, C!Resolved, C!Url, C!Host, C!Own
  <2>3. CASE UNCHANGED C!vars
    BY <2>3 DEF C!vars, ConfigInv, C!Resolved, C!Url, C!Host, C!Own
  <2> QED
    BY <2>1, <2>2, <2>3 DEF C!Next
<1> QED
  BY <1>1, <1>2, PTL DEF C!Spec

\* A URL in the environment of the process is what the program connects to,
\* whatever the files say.
THEOREM EnvironmentAlwaysWins == Spec => []EnvironmentWins
<1>1. ConfigInv => EnvironmentWins
  BY DEF ConfigInv, EnvironmentWins, C!EnvironmentWins, C!Resolved, C!Url, C!Variable
<1> QED
  BY <1>1, ConfigInvHolds, PartsAreImplemented, PTL
===============================================================================
