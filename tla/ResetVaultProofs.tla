------------------------- MODULE ResetVaultProofs -------------------------
(***************************************************************************)
(* What holds of deploys and resets for any namespaces, objects, vaults    *)
(* and commands cut off, when the node answers and no command ends         *)
(* between a vault's init and the storing of its key.                      *)
(***************************************************************************)
EXTENDS ResetVault, TLAPS

USE DEF places, volumes, openbao, bounds, vars, Goto, Gone

Activating == {"activate", "script", "store", "outway", "attempt", "update", "revoke"}
AfterEmptied == {"volumes", "data", "cluster", "forget", "reset"}

\* The namespaces are there while openbao is activated, and gone once a reset has emptied them.
Places ==
  /\ pc \in Activating => \A n \in Namespace : ns[n] = "there"
  /\ pc = "emptying" => \A n \in polled : Gone(n)
  /\ pc \in AfterEmptied => \A n \in Namespace : Gone(n)

\* A vault's key is kept until its data is gone.
Keys ==
  /\ KeyKept
  /\ pc \in {"store", "outway", "attempt", "update", "revoke"} => vault # 0
  /\ pc \in {"cluster", "forget", "reset"} => vault = 0

\* A token and an attempt are there only where the code has them in its hands.
Tokens ==
  /\ attempt => ns["podiumd"] # "gone"
  /\ ~cut => /\ root => pc = "revoke"
             /\ attempt => pc = "update"

\* What a reset has deleted stays away, and what is no release's stays.
Clean ==
  /\ Others \subseteq cluster
  /\ pc \in {"data", "cluster", "forget", "reset"} => bound = {}
  /\ pc \in {"cluster", "forget", "reset"} => data = {}
  /\ pc \in {"forget", "reset"} => cluster = Others

ResetInv == Places /\ Keys /\ Tokens /\ Clean

\* The releases' objects, and only those, carry the annotation, or the label and are no CRD.
Marked == \A c \in ClusterObject : c.release <=> ((c.byLabel /\ ~c.crd) \/ c.byAnnotation)

-----------------------------------------------------------------------------
LEMMA Zeros == 0 \in 0 .. MaxVaults /\ 0 \in 0 .. Placeholder /\ 0 \in 0 .. MaxCuts
BY ResetAssumption, SMT DEF Placeholder

LEMMA TypeInit == Init => TypeOK
BY Zeros, Zenon DEF Init, TypeOK, Others, NoItem

LEMMA TypeDeploy == TypeOK /\ (DeployStep \/ Cut) => TypeOK'
<1> SUFFICES ASSUME TypeOK, DeployStep \/ Cut PROVE TypeOK'
  OBVIOUS
<1> USE ResetAssumption DEF TypeOK, NoItem, Placeholder
<1>1. CASE Deploy
  BY <1>1 DEF Deploy
<1>2. CASE Activate
  BY <1>2 DEF Activate
<1>3. CASE StartAttempt
  BY <1>3 DEF StartAttempt
<1>4. CASE Update
  BY <1>4 DEF Update
<1>5. CASE Revoke
  BY <1>5 DEF Revoke
<1>6. CASE Cancel
  BY <1>6 DEF Cancel
<1>7. CASE Cut
  BY <1>7 DEF Cut
<1>8. CASE Script
  BY <1>8 DEF Script
<1>9. CASE StoreKey \/ Outway
  BY <1>9 DEF StoreKey, Outway
<1>. QED BY <1>1, <1>2, <1>3, <1>4, <1>5, <1>6, <1>7, <1>8, <1>9 DEF DeployStep

LEMMA TypeReset == TypeOK /\ (ResetStep \/ Empty \/ Teardown) => TypeOK'
<1> SUFFICES ASSUME TypeOK, ResetStep \/ Empty \/ Teardown PROVE TypeOK'
  OBVIOUS
<1> USE ResetAssumption DEF TypeOK, NoItem, Placeholder
<1>1. CASE Empty
  BY <1>1 DEF Empty
<1>2. CASE Emptied
  BY <1>2 DEF Emptied
<1>3. CASE DeleteVolumes
  BY <1>3 DEF DeleteVolumes
<1>4. CASE ClearData
  BY <1>4, Zeros, Zenon DEF ClearData
<1>5. CASE DeleteCluster
  BY <1>5 DEF DeleteCluster
<1>6. CASE ForgetVault
  BY <1>6 DEF ForgetVault
<1>7. CASE ResetEnds
  BY <1>7 DEF ResetEnds
<1>8. CASE Teardown
  BY <1>8, Zeros, Zenon DEF Teardown, Others
<1>9. ASSUME NEW n \in Namespace, Poll(n) PROVE TypeOK'
  BY <1>9 DEF Poll
<1>. QED BY <1>1, <1>2, <1>3, <1>4, <1>5, <1>6, <1>7, <1>8, <1>9 DEF ResetStep

LEMMA TypeOutside ==
  ASSUME TypeOK, NEW n \in Namespace,
         \/ Kubernetes(n) \/ Vanish(n) \/ OperatorEnds(n)
         \/ \E o \in Object : PutBack(n, o)
  PROVE  TypeOK'
<1> USE ResetAssumption DEF TypeOK, NoItem, Placeholder
<1>1. CASE Kubernetes(n)
  BY <1>1 DEF Kubernetes, Collect
<1>2. CASE Vanish(n)
  <2>1. vault' \in 0 .. MaxVaults /\ root' \in BOOLEAN /\ attempt' \in BOOLEAN
    BY <1>2, Zeros, Zenon DEF Vanish
  <2>2. bound' \subseteq Namespace /\ data' \subseteq Namespace
    BY <1>2 DEF Vanish
  <2>. QED BY <1>2, <2>1, <2>2, Zenon DEF Vanish
<1>3. CASE OperatorEnds(n)
  BY <1>3 DEF OperatorEnds
<1>4. ASSUME NEW o \in Object, PutBack(n, o) PROVE TypeOK'
  BY <1>4 DEF PutBack
<1>. QED BY <1>1, <1>2, <1>3, <1>4

LEMMA TypeStep == TypeOK /\ [Next]_vars => TypeOK'
<1>1. TypeOK /\ UNCHANGED vars => TypeOK'
  BY DEF TypeOK
<1>. QED BY <1>1, TypeDeploy, TypeReset, TypeOutside DEF Next

\* Every reachable state is well typed, whatever the node answers.
THEOREM TypeCorrect == Spec => []TypeOK
BY TypeInit, TypeStep, PTL DEF Spec

-----------------------------------------------------------------------------
LEMMA InitInv == Init => ResetInv
BY ResetAssumption
   DEF Init, ResetInv, Places, Keys, KeyKept, Tokens, Clean, Activating, AfterEmptied, Others

LEMMA DeployInv == TypeOK /\ ResetInv /\ DeployStep => ResetInv'
<1> SUFFICES ASSUME TypeOK, ResetInv, DeployStep PROVE ResetInv'
  OBVIOUS
<1> USE ResetAssumption DEF ResetInv
<1>1. CASE Deploy
  BY <1>1 DEF Deploy, TypeOK, Places, Keys, KeyKept, Tokens, Clean, Activating, AfterEmptied, Others
<1>2. CASE Activate
  <2>1. Places' /\ Tokens' /\ Clean'
    BY <1>2 DEF Activate, TypeOK, Places, Tokens, Clean, Activating, AfterEmptied, Others
  <2>2. Keys'
    BY <1>2 DEF Activate, TypeOK, Keys, KeyKept, NoItem, Placeholder
  <2>. QED BY <2>1, <2>2
<1>3. CASE StartAttempt
  BY <1>3 DEF StartAttempt, TypeOK, Places, Keys, KeyKept, Tokens, Clean, Activating, AfterEmptied, Others
<1>4. CASE Update
  BY <1>4 DEF Update, TypeOK, Places, Keys, KeyKept, Tokens, Clean, Activating, AfterEmptied, Others
<1>5. CASE Revoke
  BY <1>5 DEF Revoke, TypeOK, Places, Keys, KeyKept, Tokens, Clean, Activating, AfterEmptied, Others
<1>6. CASE Cancel
  BY <1>6 DEF Cancel, TypeOK, Places, Keys, KeyKept, Tokens, Clean, Activating, AfterEmptied, Others
<1>7. CASE Script
  <2>1. Places' /\ Tokens' /\ Clean'
    BY <1>7 DEF Script, TypeOK, Places, Tokens, Clean, Activating, AfterEmptied, Others
  <2>2. Keys'
    BY <1>7 DEF Script, TypeOK, Keys, KeyKept, NoItem, Placeholder
  <2>. QED BY <2>1, <2>2
<1>8. CASE StoreKey \/ Outway
  BY <1>8 DEF StoreKey, Outway, TypeOK, Places, Keys, KeyKept, Tokens, Clean, Activating, AfterEmptied, Others
<1>. QED BY <1>1, <1>2, <1>3, <1>4, <1>5, <1>6, <1>7, <1>8 DEF DeployStep

LEMMA ResetsInv == NodeAnswers /\ Marked /\ TypeOK /\ ResetInv /\ (ResetStep \/ Empty) => ResetInv'
<1> SUFFICES ASSUME NodeAnswers, Marked, TypeOK, ResetInv, ResetStep \/ Empty PROVE ResetInv'
  OBVIOUS
<1> USE ResetAssumption DEF ResetInv
<1>1. CASE Empty
  BY <1>1 DEF Empty, TypeOK, Places, Keys, KeyKept, Tokens, Clean, Activating, AfterEmptied, Others
<1>2. CASE Emptied
  BY <1>2 DEF Emptied, TypeOK, Places, Keys, KeyKept, Tokens, Clean, Activating, AfterEmptied, Others
<1>3. CASE DeleteVolumes
  BY <1>3 DEF DeleteVolumes, TypeOK, Places, Keys, KeyKept, Tokens, Clean, Activating, AfterEmptied, Others
<1>4. CASE ClearData
  BY <1>4 DEF ClearData, TypeOK, Places, Keys, KeyKept, Tokens, Clean, Activating, AfterEmptied, Others
<1>5. CASE DeleteCluster
  <2>1. cluster \ Leftovers(cluster) = Others
    BY DEF Marked, Leftovers, Others, TypeOK, Clean
  <2>. QED BY <1>5, <2>1 DEF DeleteCluster, TypeOK, Places, Keys, KeyKept, Tokens, Clean, Activating, AfterEmptied, Others
<1>6. CASE ForgetVault
  BY <1>6 DEF ForgetVault, TypeOK, Places, Keys, KeyKept, Tokens, Clean, Activating, AfterEmptied, Others
<1>7. CASE ResetEnds
  BY <1>7 DEF ResetEnds, TypeOK, Places, Keys, KeyKept, Tokens, Clean, Activating, AfterEmptied, Others
<1>8. ASSUME NEW n \in Namespace, Poll(n) PROVE ResetInv'
  BY <1>8 DEF Poll, TypeOK, Places, Keys, KeyKept, Tokens, Clean, Activating, AfterEmptied, Others
<1>. QED BY <1>1, <1>2, <1>3, <1>4, <1>5, <1>6, <1>7, <1>8 DEF ResetStep

LEMMA OutsideInv ==
  ASSUME TypeOK, ResetInv, NEW n \in Namespace,
         \/ Kubernetes(n) \/ Vanish(n) \/ OperatorEnds(n)
         \/ \E o \in Object : PutBack(n, o)
  PROVE  ResetInv'
<1> USE ResetAssumption DEF ResetInv
<1>1. CASE Kubernetes(n)
  BY <1>1 DEF Kubernetes, Collect, TypeOK, Places, Keys, KeyKept, Tokens, Clean, Activating, AfterEmptied, Others
<1>2. CASE Vanish(n)
  <2>1. ns' = [ns EXCEPT ![n] = "gone"] /\ ns[n] = "terminating" /\ UNCHANGED <<cluster, item, pc, polled, bounds>>
    BY <1>2 DEF Vanish
  <2>2. pc \notin Activating /\ pc \notin AfterEmptied
    BY <2>1 DEF Places
  <2>3. /\ vault' = vault \/ vault' = 0
        /\ root' = root \/ root' = FALSE
        /\ attempt' = attempt \/ attempt' = FALSE
        /\ n = "podiumd" => attempt' = FALSE
    BY <1>2 DEF Vanish
  <2>5. Places'
    BY <2>1, <2>2 DEF Places, TypeOK
  <2>6. Keys' /\ Clean'
    BY <1>2, <2>1, <2>2, <2>3 DEF Vanish, Keys, KeyKept, Clean, Activating, AfterEmptied
  <2>7. Tokens'
    BY <2>1, <2>2, <2>3 DEF Tokens, TypeOK, Activating
  <2>. QED BY <2>5, <2>6, <2>7
<1>3. CASE OperatorEnds(n)
  BY <1>3 DEF OperatorEnds, TypeOK, Places, Keys, KeyKept, Tokens, Clean, Activating, AfterEmptied, Others
<1>4. ASSUME NEW o \in Object, PutBack(n, o) PROVE ResetInv'
  BY <1>4 DEF PutBack, TypeOK, Places, Keys, KeyKept, Tokens, Clean, Activating, AfterEmptied, Others
<1>. QED BY <1>1, <1>2, <1>3, <1>4

LEMMA NextInv == NodeAnswers /\ ~ScriptCut /\ Marked /\ TypeOK /\ ResetInv /\ [Next]_vars => ResetInv'
<1> SUFFICES ASSUME NodeAnswers, ~ScriptCut, Marked, TypeOK, ResetInv, [Next]_vars PROVE ResetInv'
  OBVIOUS
<1>1. CASE Cut
  BY <1>1 DEF ResetInv, Cut, TypeOK, Places, Keys, KeyKept, Tokens, Clean, Activating, AfterEmptied, Others
<1>2. CASE Teardown
  BY <1>2, ResetAssumption
     DEF ResetInv, Teardown, TypeOK, Places, Keys, KeyKept, Tokens, Clean, Activating, AfterEmptied, Others
<1>3. CASE UNCHANGED vars
  BY <1>3 DEF ResetInv, TypeOK, Places, Keys, KeyKept, Tokens, Clean
<1>. QED BY <1>1, <1>2, <1>3, DeployInv, ResetsInv, OutsideInv DEF Next

LEMMA InvHolds == NodeAnswers /\ ~ScriptCut /\ Marked => (Spec => []ResetInv)
<1> SUFFICES ASSUME NodeAnswers, ~ScriptCut, Marked PROVE Spec => []ResetInv
  OBVIOUS
<1>. QED BY InitInv, NextInv, TypeInit, TypeStep, PTL DEF Spec

-----------------------------------------------------------------------------
\* The laptop has the recovery key of the vault that is there, however many deploys and resets
\* fail or are cut off, anywhere but between the script's init of a vault and its storing of the key.
THEOREM KeyIsKept == NodeAnswers /\ ~ScriptCut /\ Marked => (Spec => []KeyKept)
<1>1. ResetInv => KeyKept
  BY DEF ResetInv, Keys
<1>. QED BY <1>1, InvHolds, PTL

\* A reset that ends has left nothing of the releases, whatever earlier ones failed at.
THEOREM ResetLeavesNothing == NodeAnswers /\ ~ScriptCut /\ Marked => (Spec => []ResetClean)
<1>1. ResetInv => ResetClean
  BY DEF ResetInv, ResetClean, Places, Clean, AfterEmptied
<1>. QED BY <1>1, InvHolds, PTL

\* No root token and no attempt outlive _write_outway_keys, unless it was cut off.
THEOREM NoTokenIsLeft == NodeAnswers /\ ~ScriptCut /\ Marked => (Spec => []NoTokenLeft)
<1>1. ResetInv => NoTokenLeft
  BY DEF ResetInv, NoTokenLeft, Tokens
<1>. QED BY <1>1, InvHolds, PTL
=============================================================================
