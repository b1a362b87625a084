-------------------------- MODULE RuleStoreProofs --------------------------
(***************************************************************************)
(* Proofs about RuleStore for any sets of rules, clients and imports and   *)
(* any bounds.                                                             *)
(***************************************************************************)
EXTENDS RuleStore, TLAPS

(* An empty configuration and an empty runner map are well typed.          *)
LEMMA EmptyTyped ==
    /\ Empty \in [Ids -> Rule \cup {NoRule}]
    /\ NoRunners \in [Ids -> Runner \cup {NoRunner}]
BY DEF Empty, NoRunners

(* A file written by Save from well-typed memory is a configuration.       *)
LEMMA SaveTyped ==
    ASSUME NEW rs \in [Ids -> Rule \cup {NoRule}], NEW cls \in SUBSET ClientNames
    PROVE  [rules |-> rs, clients |-> cls] \in Config
BY DEF Config

(* Begin counts the operation within its bound and does not stop the server. *)
LEMMA BeginCounts ==
    ASSUME TypeOK, Begin
    PROVE  ops' \in 0 .. MaxOps /\ up /\ phase = "idle"
BY BoundsAssumption DEF TypeOK, Begin

(* The apply loop only has configured rules ahead of it.                   *)
TodoKnown == (phase = "idle" => todo = {}) /\ todo \subseteq Present(rules)

(***************************************************************************)
(* Type correctness of the configuration store: every panel operation,     *)
(* with or without a failed save, the apply loop, crash, restart and       *)
(* shutdown keep every variable in its type.                               *)
(***************************************************************************)
THEOREM StoreTypeCorrect == Spec => []TypeOK
<1>1. Init => TypeOK /\ TodoKnown
  <2> SUFFICES ASSUME Init PROVE TypeOK /\ TodoKnown
    OBVIOUS
  <2>1. disk \in Config
    BY EmptyTyped, SaveTyped, ConfigAssumption DEF Init
  <2>2. up \in BOOLEAN /\ stopping \in BOOLEAN
    BY DEF Init
  <2>3. ops \in 0 .. MaxOps /\ stops \in 0 .. MaxStops
    BY BoundsAssumption DEF Init
  <2>4. TypeOK
    BY <2>1, <2>2, <2>3, EmptyTyped DEF Init, TypeOK
  <2> QED BY <2>4 DEF Init, TodoKnown
<1>2. TypeOK /\ TodoKnown /\ [Next]_vars => TodoKnown'
  <2> SUFFICES ASSUME TypeOK, TodoKnown, [Next]_vars PROVE TodoKnown'
    OBVIOUS
  <2> USE DEF TodoKnown, Present, Desired
  <2>1. CASE PanelOp
    <3>1. ASSUME NEW rs, NEW cls, NEW saved \in BOOLEAN, Begin, SaveAndApply(rs, cls, saved)
          PROVE  TodoKnown'
      BY <3>1 DEF Begin, SaveAndApply, StartApply
    <3>2. ASSUME NEW saved \in BOOLEAN, NEW id \in Ids, DeleteRule(id, saved) PROVE TodoKnown'
      BY <3>2 DEF DeleteRule, Begin
    <3>3. ASSUME NEW saved \in BOOLEAN, NEW n \in ClientNames \cup {NoClient},
                 AddClient(n, saved) \/ DeleteClient(n, saved)
          PROVE  TodoKnown'
      BY <3>3 DEF AddClient, DeleteClient
    <3> QED BY <2>1, <3>1, <3>2, <3>3 DEF PanelOp, AddRule, UpdateRule, SetRuleEnabled, ImportConfig
  <2>2. CASE Apply \/ Halt \/ Crash \/ Restart \/ FirstApply \/ Shutdown
    BY <2>2 DEF Apply, ApplyOne, ApplyPrune, ApplyFrame, Halt, HaltRunner, Exit, Die, Crash, Restart,
                FirstApply, Shutdown, StartApply
  <2> QED BY <2>1, <2>2 DEF Next, vars
<1>3. TypeOK /\ TodoKnown /\ [Next]_vars => TypeOK'
  <2> SUFFICES ASSUME TypeOK, TodoKnown, [Next]_vars PROVE TypeOK'
    OBVIOUS
  <2> USE DEF TypeOK
  <2>1. ASSUME NEW rs \in [Ids -> Rule \cup {NoRule}], NEW cls \in SUBSET ClientNames,
               NEW saved \in BOOLEAN, Begin, Quiet, SaveAndApply(rs, cls, saved), imported' \in BOOLEAN
        PROVE  TypeOK'
    BY <2>1, BeginCounts, SaveTyped DEF Quiet, SaveAndApply, Save, StartApply, Desired, Present
  <2>2. ASSUME NEW saved \in BOOLEAN, NEW id \in Ids, NEW f \in Forms, AddRule(id, f, saved) PROVE TypeOK'
    <3>1. [rules EXCEPT ![id] = [form |-> f, enabled |-> TRUE]] \in [Ids -> Rule \cup {NoRule}]
      BY DEF Rule
    <3>2. imported' \in BOOLEAN
      BY <2>2 DEF AddRule
    <3> QED BY <2>1, <2>2, <3>1, <3>2 DEF AddRule
  <2>3. ASSUME NEW saved \in BOOLEAN, NEW id \in Ids, NEW f \in Forms, UpdateRule(id, f, saved) PROVE TypeOK'
    <3>1. [rules EXCEPT ![id] = [form |-> f, enabled |-> rules[id].enabled]] \in [Ids -> Rule \cup {NoRule}]
      BY <2>3 DEF Rule, UpdateRule
    <3>2. imported' \in BOOLEAN
      BY <2>3 DEF UpdateRule
    <3> QED BY <2>1, <2>3, <3>1, <3>2 DEF UpdateRule
  <2>4. ASSUME NEW saved \in BOOLEAN, NEW id \in Ids, NEW on \in BOOLEAN, SetRuleEnabled(id, on, saved) PROVE TypeOK'
    <3>1. [rules EXCEPT ![id] = [form |-> rules[id].form, enabled |-> on]] \in [Ids -> Rule \cup {NoRule}]
      BY <2>4 DEF Rule, SetRuleEnabled
    <3>2. imported' \in BOOLEAN
      BY <2>4 DEF SetRuleEnabled
    <3> QED BY <2>1, <2>4, <3>1, <3>2 DEF SetRuleEnabled
  <2>5. ASSUME NEW saved \in BOOLEAN, NEW c \in Imports, ImportConfig(c, saved) PROVE TypeOK'
    <3>1. c.rules \in [Ids -> Rule \cup {NoRule}] /\ c.clients \in SUBSET ClientNames
      BY ConfigAssumption DEF Config
    <3>2. imported' \in BOOLEAN
      BY <2>5 DEF ImportConfig
    <3> QED BY <2>1, <2>5, <3>1, <3>2 DEF ImportConfig
  <2>6. ASSUME NEW saved \in BOOLEAN, NEW id \in Ids, DeleteRule(id, saved) PROVE TypeOK'
    <3>1. /\ rules' \in [Ids -> Rule \cup {NoRule}] /\ runners' \in [Ids -> Runner \cup {NoRunner}]
          /\ clients' \in SUBSET ClientNames /\ phase' \in {"idle", "apply", "stuck"} /\ todo' \in SUBSET Ids
      BY <2>6 DEF DeleteRule
    <3>2. disk' \in Config
      BY <2>6, <3>1, SaveTyped DEF DeleteRule, Save
    <3> QED BY <2>6, <3>1, <3>2, BeginCounts DEF DeleteRule, Quiet
  <2>7. ASSUME NEW saved \in BOOLEAN, NEW n \in ClientNames \cup {NoClient}, AddClient(n, saved) PROVE TypeOK'
    <3>1. clients' \in SUBSET ClientNames
      BY <2>7 DEF AddClient
    <3>2. disk' \in Config
      BY <2>7, <3>1, SaveTyped DEF AddClient, Save
    <3> QED BY <2>7, <3>1, <3>2, BeginCounts DEF AddClient, Quiet
  <2>8. ASSUME NEW saved \in BOOLEAN, NEW n \in ClientNames, DeleteClient(n, saved) PROVE TypeOK'
    <3>1. clients' \in SUBSET ClientNames
      BY <2>8 DEF DeleteClient
    <3>2. disk' \in Config
      BY <2>8, <3>1, SaveTyped DEF DeleteClient, Save
    <3> QED BY <2>8, <3>1, <3>2, BeginCounts DEF DeleteClient, Quiet
  <2>9. ASSUME NEW id \in Ids, ApplyOne(id) PROVE TypeOK'
    <3>1. rules[id] \in Rule
      BY <2>9 DEF ApplyOne, TodoKnown, Present
    <3>2. startRule(id, [runners EXCEPT ![id] = NoRunner]) \in [Ids -> Runner \cup {NoRunner}]
      BY <3>1 DEF startRule, Runner, Rule
    <3> QED BY <2>9, <3>2 DEF ApplyOne, ApplyFrame
  <2>10. CASE ApplyPrune
    <3>1. \A ids : Without(ids) \in [Ids -> Runner \cup {NoRunner}]
      BY DEF Without
    <3>2. \E ids : runners' = Without(ids)
      BY <2>10 DEF ApplyPrune
    <3>3. runners' \in [Ids -> Runner \cup {NoRunner}]
      BY <3>1, <3>2
    <3> QED BY <2>10, <3>3 DEF ApplyPrune, ApplyFrame
  <2>11. CASE Crash
    <3>1. stops' \in 0 .. MaxStops
      BY <2>11, BoundsAssumption DEF Crash
    <3> QED BY <2>11, <3>1, EmptyTyped DEF Crash, Die
  <2>12. CASE Restart
    BY <2>12, EmptyTyped DEF Restart, Config
  <2>13. CASE Shutdown
    BY <2>13, BoundsAssumption DEF Shutdown
  <2>14. ASSUME NEW id \in Ids, HaltRunner(id) PROVE TypeOK'
    BY <2>14 DEF HaltRunner, Runner
  <2>15. CASE Exit
    BY <2>15, EmptyTyped DEF Exit, Die
  <2>16. CASE FirstApply
    BY <2>16 DEF FirstApply, StartApply, Desired, Present
  <2>17. CASE UNCHANGED vars
    BY <2>17 DEF vars
  <2> QED
    BY <2>2, <2>3, <2>4, <2>5, <2>6, <2>7, <2>8, <2>9, <2>10, <2>11, <2>12, <2>13, <2>14, <2>15, <2>16, <2>17
       DEF Next, PanelOp, Apply, Halt
<1> QED
  BY <1>1, <1>2, <1>3, PTL DEF Spec

(* validateRule does not look at whether a rule is enabled.                *)
LEMMA ImportedRefs ==
    ASSUME NEW c \in Imports, NEW saved \in BOOLEAN, ImportConfig(c, saved)
    PROVE  RefsIn(c.rules, c.clients)
BY DEF ImportConfig, RefsIn

(***************************************************************************)
(* No rule, in memory or in the file, refers to a client that is not       *)
(* there, for any import and whatever saves fail.                          *)
(***************************************************************************)
THEOREM StoreRefsValid == Spec => []RefsValid
<1>1. Init => RefsValid
  BY DEF Init, RefsValid, RefsIn, Present, Empty
<1>2. TypeOK /\ RefsValid /\ [Next]_vars => RefsValid'
  <2> SUFFICES ASSUME TypeOK, RefsValid, [Next]_vars PROVE RefsValid'
    OBVIOUS
  <2>1. ASSUME NEW rs, NEW cls, NEW saved \in BOOLEAN, SaveAndApply(rs, cls, saved), RefsIn(rs, cls)
        PROVE  RefsValid'
    BY <2>1 DEF SaveAndApply, Save, RefsValid, RefsIn, Present, validateRule
  <2>2. ASSUME NEW saved \in BOOLEAN, NEW id \in Ids, NEW f \in Forms, AddRule(id, f, saved) PROVE RefsValid'
    <3>1. RefsIn([rules EXCEPT ![id] = [form |-> f, enabled |-> TRUE]], clients)
      BY <2>2 DEF AddRule, RefsValid, RefsIn, Present, TypeOK
    <3> QED BY <2>1, <2>2, <3>1 DEF AddRule
  <2>3. ASSUME NEW saved \in BOOLEAN, NEW id \in Ids, NEW f \in Forms, UpdateRule(id, f, saved) PROVE RefsValid'
    <3>1. RefsIn([rules EXCEPT ![id] = [form |-> f, enabled |-> rules[id].enabled]], clients)
      BY <2>3 DEF UpdateRule, RefsValid, RefsIn, Present, TypeOK
    <3> QED BY <2>1, <2>3, <3>1 DEF UpdateRule
  <2>4. ASSUME NEW saved \in BOOLEAN, NEW id \in Ids, NEW on \in BOOLEAN, SetRuleEnabled(id, on, saved) PROVE RefsValid'
    <3>1. RefsIn([rules EXCEPT ![id] = [form |-> rules[id].form, enabled |-> on]], clients)
      BY <2>4 DEF SetRuleEnabled, RefsValid, RefsIn, Present, TypeOK
    <3> QED BY <2>1, <2>4, <3>1 DEF SetRuleEnabled
  <2>5. ASSUME NEW saved \in BOOLEAN, NEW c \in Imports, ImportConfig(c, saved) PROVE RefsValid'
    BY <2>1, <2>5, ImportedRefs DEF ImportConfig
  <2>6. ASSUME NEW saved \in BOOLEAN, NEW id \in Ids, DeleteRule(id, saved) PROVE RefsValid'
    <3>1. RefsIn(rules', clients)
      BY <2>6 DEF DeleteRule, RefsValid, RefsIn, Present, TypeOK
    <3>2. clients' = clients /\ (disk' = disk \/ disk' = [rules |-> rules', clients |-> clients])
      BY <2>6 DEF DeleteRule, Save
    <3> QED BY <3>1, <3>2 DEF RefsValid, RefsIn, Present, validateRule
  <2>7. ASSUME NEW saved \in BOOLEAN, NEW n \in ClientNames \cup {NoClient}, AddClient(n, saved) PROVE RefsValid'
    <3>1. RefsIn(rules, clients')
      BY <2>7 DEF AddClient, RefsValid, RefsIn, validateRule
    <3> QED BY <2>7, <3>1 DEF AddClient, Save, RefsValid
  <2>8. ASSUME NEW saved \in BOOLEAN, NEW n \in ClientNames, DeleteClient(n, saved) PROVE RefsValid'
    <3>1. RefsIn(rules, clients')
      BY <2>8 DEF DeleteClient, RefsValid, RefsIn, validateRule
    <3> QED BY <2>8, <3>1 DEF DeleteClient, Save, RefsValid
  <2>9. CASE Apply
    BY <2>9 DEF Apply, ApplyOne, ApplyPrune, ApplyFrame, RefsValid, RefsIn, Present, validateRule
  <2>10. CASE Crash \/ Exit
    BY <2>10 DEF Crash, Exit, Die, RefsValid, RefsIn, Present, validateRule, Empty
  <2>11. CASE Restart \/ FirstApply \/ Shutdown \/ UNCHANGED vars
    BY <2>11 DEF Restart, FirstApply, Shutdown, vars, RefsValid, RefsIn, Present, validateRule
  <2>12. ASSUME NEW id \in Ids, HaltRunner(id) PROVE RefsValid'
    BY <2>12 DEF HaltRunner, RefsValid, RefsIn, Present, validateRule
  <2> QED
    BY <2>2, <2>3, <2>4, <2>5, <2>6, <2>7, <2>8, <2>9, <2>10, <2>11, <2>12 DEF Next, PanelOp, Halt
<1> QED
  BY <1>1, <1>2, StoreTypeCorrect, PTL DEF Spec

(***************************************************************************)
(* Every rule in force is in the file, unchanged: the only way out of step *)
(* is a deletion whose save failed.                                        *)
(***************************************************************************)
THEOREM StoreLiveRulesDurable == Spec => []LiveRulesDurable
<1>1. Init => LiveRulesDurable
  BY DEF Init, LiveRulesDurable, Present, Empty
<1>2. TypeOK /\ LiveRulesDurable /\ [Next]_vars => LiveRulesDurable'
  <2> SUFFICES ASSUME TypeOK, LiveRulesDurable, [Next]_vars PROVE LiveRulesDurable'
    OBVIOUS
  <2> USE DEF LiveRulesDurable, Present
  <2>1. ASSUME NEW rs, NEW cls, NEW saved \in BOOLEAN, SaveAndApply(rs, cls, saved)
        PROVE  LiveRulesDurable'
    BY <2>1 DEF SaveAndApply, Save
  <2>2. ASSUME NEW saved \in BOOLEAN, NEW id \in Ids, DeleteRule(id, saved) PROVE LiveRulesDurable'
    BY <2>2 DEF DeleteRule, Save, TypeOK
  <2>3. ASSUME NEW saved \in BOOLEAN, NEW n, AddClient(n, saved) \/ DeleteClient(n, saved)
        PROVE  LiveRulesDurable'
    BY <2>3 DEF AddClient, DeleteClient, Save
  <2>4. CASE Apply
    BY <2>4 DEF Apply, ApplyOne, ApplyPrune, ApplyFrame
  <2>5. CASE Crash \/ Exit
    BY <2>5 DEF Crash, Exit, Die, Empty
  <2>6. CASE Restart \/ FirstApply \/ Shutdown \/ UNCHANGED vars
    BY <2>6 DEF Restart, FirstApply, Shutdown, vars
  <2>7. ASSUME NEW id \in Ids, HaltRunner(id) PROVE LiveRulesDurable'
    BY <2>7 DEF HaltRunner
  <2> QED
    BY <2>1, <2>2, <2>3, <2>4, <2>5, <2>6, <2>7
       DEF Next, PanelOp, Halt, AddRule, UpdateRule, SetRuleEnabled, ImportConfig
<1> QED
  BY <1>1, <1>2, StoreTypeCorrect, PTL DEF Spec

(* Competing for a port is symmetric.                                      *)
LEMMA CompeteSymmetric ==
    ASSUME NEW f, NEW g
    PROVE  Compete(f, g) <=> Compete(g, f)
BY DEF Compete

(* What portConflict does not object to keeps ports unique.                *)
LEMMA NoConflictUnique ==
    ASSUME NEW rs \in [Ids -> Rule \cup {NoRule}], NEW id \in Ids, NEW f \in Forms, NEW on \in BOOLEAN,
           Unique(rs), ~portConflict(rs, f, id)
    PROVE  Unique([rs EXCEPT ![id] = [form |-> f, enabled |-> on]])
<1> DEFINE ns == [rs EXCEPT ![id] = [form |-> f, enabled |-> on]]
<1> SUFFICES ASSUME NEW i \in Present(ns), NEW j \in Present(ns), i # j
             PROVE  ~Compete(ns[i].form, ns[j].form)
  BY DEF Unique
<1>1. \A k \in Present(ns) \ {id} : k \in Present(rs) /\ ns[k] = rs[k]
  BY DEF Present
<1>2. ns[id].form = f
  OBVIOUS
<1>3. \A k \in Present(ns) \ {id} : ~Compete(f, ns[k].form)
  BY <1>1 DEF portConflict
<1>4. CASE i = id
  <2>1. ~Compete(f, ns[j].form)
    BY <1>3, <1>4
  <2> QED BY <1>2, <1>4, <2>1
<1>5. CASE j = id
  <2>1. ~Compete(f, ns[i].form)
    BY <1>3, <1>5
  <2>2. ~Compete(ns[i].form, f)
    BY <2>1, CompeteSymmetric
  <2> QED BY <1>2, <1>5, <2>2
<1>6. CASE i # id /\ j # id
  <2>1. i \in Present(rs) /\ ns[i] = rs[i] /\ j \in Present(rs) /\ ns[j] = rs[j]
    BY <1>1, <1>6
  <2>2. ~Compete(rs[i].form, rs[j].form)
    BY <2>1 DEF Unique
  <2> QED BY <2>1, <2>2
<1> QED BY <1>4, <1>5, <1>6

(* Every configuration that may be imported has unique ports.              *)
ImportsUnique == \A c \in Imports : Unique(c.rules)

(***************************************************************************)
(* portConflict in AddRule and UpdateRule keeps ports unique, in memory    *)
(* and in the file, provided that every import does: ImportConfig does not *)
(* check it.                                                               *)
(***************************************************************************)
THEOREM StorePortsUnique ==
    ASSUME ImportsUnique
    PROVE  Spec => []PortsUnique
<1>1. Init => PortsUnique
  BY DEF Init, PortsUnique, Unique, Present, Empty
<1>2. TypeOK /\ PortsUnique /\ [Next]_vars => PortsUnique'
  <2> SUFFICES ASSUME TypeOK, PortsUnique, [Next]_vars PROVE PortsUnique'
    OBVIOUS
  <2>0. Unique(rules) /\ Unique(disk.rules)
    BY DEF PortsUnique
  <2>1. ASSUME NEW rs, Unique(rs), rules' = rs \/ rules' = rules,
               disk'.rules = rs \/ disk' = disk
        PROVE  PortsUnique'
    BY <2>0, <2>1 DEF PortsUnique, Unique, Present, Compete
  <2>2. ASSUME NEW rs, NEW cls, NEW saved \in BOOLEAN, SaveAndApply(rs, cls, saved), Unique(rs)
        PROVE  PortsUnique'
    BY <2>1, <2>2 DEF SaveAndApply, Save
  <2>3. ASSUME NEW saved \in BOOLEAN, NEW id \in Ids, NEW f \in Forms, AddRule(id, f, saved) PROVE PortsUnique'
    <3>1. rules \in [Ids -> Rule \cup {NoRule}] /\ ~portConflict(rules, f, id)
      BY <2>3 DEF AddRule, TypeOK
    <3>2. Unique([rules EXCEPT ![id] = [form |-> f, enabled |-> TRUE]])
      BY <2>0, <3>1, NoConflictUnique
    <3> QED BY <2>2, <2>3, <3>2 DEF AddRule
  <2>4. ASSUME NEW saved \in BOOLEAN, NEW id \in Ids, NEW f \in Forms, UpdateRule(id, f, saved) PROVE PortsUnique'
    <3>1. rules[id].enabled \in BOOLEAN
      BY <2>4 DEF UpdateRule, TypeOK, Rule
    <3>2. rules \in [Ids -> Rule \cup {NoRule}] /\ ~portConflict(rules, f, id)
      BY <2>4 DEF UpdateRule, TypeOK
    <3>3. Unique([rules EXCEPT ![id] = [form |-> f, enabled |-> rules[id].enabled]])
      BY <2>0, <3>1, <3>2, NoConflictUnique
    <3> QED BY <2>2, <2>4, <3>3 DEF UpdateRule
  <2>5. ASSUME NEW saved \in BOOLEAN, NEW id \in Ids, NEW on \in BOOLEAN, SetRuleEnabled(id, on, saved) PROVE PortsUnique'
    <3>1. Unique([rules EXCEPT ![id] = [form |-> rules[id].form, enabled |-> on]])
      BY <2>0, <2>5 DEF SetRuleEnabled, TypeOK, Unique, Present
    <3> QED BY <2>2, <2>5, <3>1 DEF SetRuleEnabled
  <2>6. ASSUME NEW saved \in BOOLEAN, NEW c \in Imports, ImportConfig(c, saved) PROVE PortsUnique'
    BY <2>2, <2>6 DEF ImportConfig, ImportsUnique
  <2>7. ASSUME NEW saved \in BOOLEAN, NEW id \in Ids, DeleteRule(id, saved) PROVE PortsUnique'
    <3>1. Unique([rules EXCEPT ![id] = NoRule])
      BY <2>0 DEF TypeOK, Unique, Present
    <3>2. rules' = [rules EXCEPT ![id] = NoRule]
      BY <2>7 DEF DeleteRule
    <3>3. disk' = disk \/ disk' = [rules |-> rules', clients |-> clients]
      BY <2>7, Zenon DEF DeleteRule, Save
    <3>4. disk' = disk \/ disk'.rules = rules'
      BY <3>3
    <3> QED BY <2>1, <3>1, <3>2, <3>4
  <2>8. ASSUME NEW saved \in BOOLEAN, NEW n, AddClient(n, saved) \/ DeleteClient(n, saved)
        PROVE  PortsUnique'
    BY <2>0, <2>1, <2>8 DEF AddClient, DeleteClient, Save
  <2>9. CASE Apply
    BY <2>0, <2>1, <2>9 DEF Apply, ApplyOne, ApplyPrune, ApplyFrame
  <2>10. CASE Crash \/ Exit
    <3>1. Unique(Empty)
      BY DEF Unique, Present, Empty
    <3> QED BY <2>1, <2>10, <3>1 DEF Crash, Exit, Die
  <2>11. CASE Restart \/ FirstApply \/ Shutdown \/ UNCHANGED vars
    BY <2>0, <2>1, <2>11 DEF Restart, FirstApply, Shutdown, vars
  <2>12. ASSUME NEW id \in Ids, HaltRunner(id) PROVE PortsUnique'
    BY <2>0, <2>1, <2>12 DEF HaltRunner
  <2> QED
    BY <2>3, <2>4, <2>5, <2>6, <2>7, <2>8, <2>9, <2>10, <2>11, <2>12 DEF Next, PanelOp, Halt
<1> QED
  BY <1>1, <1>2, StoreTypeCorrect, PTL DEF Spec

-----------------------------------------------------------------------------
(***************************************************************************)
(* The strengthening of RunnersMatchConfig.  Outside a shutdown no runner  *)
(* in the map has been stopped, so no second stop() and no lost lock; and  *)
(* in the middle of an apply the rules already visited match, which the    *)
(* bare invariant says nothing about.                                      *)
(***************************************************************************)
Visited ==
    phase = "apply" =>
        \A id \in Desired(rules) \ todo : runners[id] # NoRunner => sameAs(runners[id].form, rules[id].form)

RunnersInv ==
    ~stopping =>
        /\ phase # "stuck"
        /\ \A id \in Ids : runners[id] # NoRunner => ~runners[id].stopped
        /\ Visited
        /\ phase = "idle" => \A id \in Ids : runners[id] # NoRunner =>
                                /\ id \in Desired(rules)
                                /\ sameAs(runners[id].form, rules[id].form)

LEMMA RunnersInvariant == Spec => []RunnersInv
<1>1. Init => RunnersInv
  BY DEF Init, RunnersInv, Visited, NoRunners
<1>2. TypeOK /\ RunnersInv /\ [Next]_vars => RunnersInv'
  <2> SUFFICES ASSUME TypeOK, RunnersInv, [Next]_vars, ~stopping' PROVE RunnersInv'
    BY DEF RunnersInv
  <2> USE DEF RunnersInv, Visited
  <2>1. ASSUME NEW rs, NEW cls, NEW saved \in BOOLEAN, Begin, Quiet, SaveAndApply(rs, cls, saved)
        PROVE  RunnersInv'
    BY <2>1 DEF Begin, Quiet, SaveAndApply, StartApply
  <2>2. ASSUME NEW saved \in BOOLEAN, NEW id \in Ids, DeleteRule(id, saved) PROVE RunnersInv'
    <3>1. ~StopPanics(id) /\ phase = "idle"
      BY <2>2 DEF DeleteRule, Begin, Quiet, StopPanics
    <3>2. runners' = [runners EXCEPT ![id] = NoRunner] /\ rules' = [rules EXCEPT ![id] = NoRule] /\ phase' = "idle"
      BY <2>2, <3>1 DEF DeleteRule
    <3> QED BY <2>2, <3>1, <3>2 DEF DeleteRule, Quiet, TypeOK, Desired, Present
  <2>3. ASSUME NEW saved \in BOOLEAN, NEW n, AddClient(n, saved) \/ DeleteClient(n, saved)
        PROVE  RunnersInv'
    BY <2>3 DEF AddClient, DeleteClient, Quiet, Desired, Present
  <2>4. ASSUME NEW id \in Ids, ApplyOne(id) PROVE RunnersInv'
    <3>1. ~StopPanics(id) /\ ~stopping /\ phase = "apply" /\ phase' = "apply" /\ todo' = todo \ {id} /\ rules' = rules
      BY <2>4 DEF ApplyOne, ApplyFrame, StopPanics
    <3>2. \/ runners' = runners /\ runners[id] # NoRunner /\ sameAs(runners[id].form, rules[id].form)
          \/ runners' = startRule(id, [runners EXCEPT ![id] = NoRunner])
      BY <2>4, <3>1 DEF ApplyOne
    <3>3. CASE runners' = runners /\ runners[id] # NoRunner /\ sameAs(runners[id].form, rules[id].form)
      BY <3>1, <3>3 DEF Desired, Present
    <3>4. CASE runners' = startRule(id, [runners EXCEPT ![id] = NoRunner])
      <4>1. \A k \in Ids \ {id} : runners'[k] = runners[k]
        BY <3>4 DEF startRule, TypeOK
      <4>2. runners'[id] # NoRunner => runners'[id] = [form |-> rules[id].form, stopped |-> FALSE]
        BY <3>4 DEF startRule, TypeOK
      <4>3. runners'[id] # NoRunner => ~runners'[id].stopped /\ sameAs(runners'[id].form, rules[id].form)
        BY <4>2 DEF sameAs
      <4> QED BY <3>1, <4>1, <4>3 DEF Desired, Present
    <3> QED BY <3>2, <3>3, <3>4
  <2>5. CASE ApplyPrune
    <3>0. {id \in Ids \ Desired(rules) : StopPanics(id)} = {}
      BY <2>5 DEF ApplyPrune, ApplyFrame, StopPanics
    <3>1. ~stopping /\ phase = "apply" /\ todo = {} /\ rules' = rules /\ phase' = "idle"
          /\ runners' = Without(Ids \ Desired(rules))
      BY <2>5, <3>0 DEF ApplyPrune, ApplyFrame
    <3> QED BY <3>1 DEF Without, Desired, Present
  <2>6. CASE Crash \/ Exit
    BY <2>6 DEF Crash, Exit, Die, NoRunners
  <2>7. CASE Restart
    BY <2>7 DEF Restart, NoRunners
  <2>8. CASE Shutdown
    BY <2>8 DEF Shutdown
  <2>9. ASSUME NEW id \in Ids, HaltRunner(id) PROVE RunnersInv'
    BY <2>9 DEF HaltRunner
  <2>10. CASE FirstApply
    BY <2>10 DEF FirstApply, StartApply
  <2>11. CASE UNCHANGED vars
    BY <2>11 DEF vars, Desired, Present
  <2> QED
    BY <2>1, <2>2, <2>3, <2>4, <2>5, <2>6, <2>7, <2>8, <2>9, <2>10, <2>11
       DEF Next, PanelOp, Apply, Halt, AddRule, UpdateRule, SetRuleEnabled, ImportConfig
<1> QED
  BY <1>1, <1>2, StoreTypeCorrect, PTL DEF Spec

(***************************************************************************)
(* When no operation is under way the running listeners are those of       *)
(* configured, enabled server-side rules on the rule's own protocol, port, *)
(* target and client.                                                      *)
(***************************************************************************)
THEOREM StoreRunnersMatchConfig == Spec => []RunnersMatchConfig
<1>1. RunnersInv => RunnersMatchConfig
  BY DEF RunnersInv, RunnersMatchConfig, Settled
<1> QED
  BY <1>1, RunnersInvariant, PTL

(***************************************************************************)
(* Only a shutdown can leave s.mu locked.                                  *)
(***************************************************************************)
THEOREM StoreStuckOnlyInShutdown == Spec => []StuckOnlyInShutdown
<1>1. RunnersInv => StuckOnlyInShutdown
  BY DEF RunnersInv, StuckOnlyInShutdown
<1> QED
  BY <1>1, RunnersInvariant, PTL

-----------------------------------------------------------------------------
(***************************************************************************)
(* Why every enabled rule gets its port.  Runners and rules meet twice: as *)
(* the configuration the runners were started for and as the new one.  A   *)
(* panel operation changes one rule and keeps ports unique, so no runner   *)
(* holds the port of another rule of the new configuration, and the order  *)
(* in which the apply loop visits the rules does not matter.               *)
(***************************************************************************)
NoClash(rns, rs) ==
    \A k \in Ids, id \in Present(rs) :
        k # id /\ rns[k] # NoRunner /\ rs[id].form.side = "server" => rns[k].form.listen # rs[id].form.listen

Served(rns, ids) == \A id \in ids : Socket(rules[id].form) \notin Taken => rns[id] # NoRunner

ServedInv ==
    /\ phase = "apply" => todo \subseteq Desired(rules)
    /\ ~stopping /\ ~imported =>
        /\ phase = "apply" => NoClash(runners, rules) /\ Served(runners, Desired(rules) \ todo)
        /\ up /\ ~fresh /\ phase = "idle" => Served(runners, Desired(rules))

(* A change of one rule that keeps ports unique makes no runner of the     *)
(* configuration before stand in the way of a rule of the one after.       *)
LEMMA OneChangeNoClash ==
    ASSUME TypeOK, RunnersInv, ~stopping, phase = "idle", Unique(rules),
           NEW c \in Ids, NEW rs, Unique(rs), \A id \in Ids \ {c} : rs[id] = rules[id]
    PROVE  NoClash(runners, rs)
<1> SUFFICES ASSUME NEW k \in Ids, NEW id \in Present(rs), k # id, runners[k] # NoRunner,
                    rs[id].form.side = "server", runners[k].form.listen = rs[id].form.listen
             PROVE  FALSE
  BY DEF NoClash
<1>1. k \in Desired(rules) /\ rules[k].form.listen = rs[id].form.listen
  BY DEF RunnersInv, sameAs
<1>2. k \in Present(rules) /\ rules[k].form.side = "server"
  BY <1>1 DEF Desired
<1>3. Compete(rules[k].form, rs[id].form)
  BY <1>1, <1>2 DEF Compete
<1>4. CASE k = c
  <2>1. id \in Present(rules) /\ rs[id] = rules[id]
    BY <1>4 DEF Present
  <2> QED BY <1>2, <1>3, <2>1 DEF Unique
<1>5. CASE k # c
  <2>1. k \in Present(rs) /\ rs[k] = rules[k]
    BY <1>2, <1>5 DEF Present
  <2> QED BY <1>3, <2>1 DEF Unique
<1> QED BY <1>4, <1>5

(***************************************************************************)
(* When no operation is in flight every enabled server-side rule whose     *)
(* port no other process holds is listening, unless the last change was an *)
(* import; imports must not clash in themselves.                           *)
(***************************************************************************)
THEOREM StoreEnabledRulesRun ==
    ASSUME ImportsUnique
    PROVE  Spec => []EnabledRulesRun
<1>1. Init => ServedInv
  BY DEF Init, ServedInv
<1>2. TypeOK /\ TypeOK' /\ PortsUnique /\ PortsUnique' /\ RunnersInv /\ RunnersInv' /\ ServedInv /\ [Next]_vars => ServedInv'
  <2> SUFFICES ASSUME TypeOK, TypeOK', PortsUnique, PortsUnique', RunnersInv, RunnersInv', ServedInv, [Next]_vars
               PROVE  ServedInv'
    OBVIOUS
  <2>0. Unique(rules) /\ Unique(rules')
    BY DEF PortsUnique
  <2>1. ASSUME NEW c \in Ids, NEW rs, NEW cls, NEW saved \in BOOLEAN, Begin, Quiet,
               SaveAndApply(rs, cls, saved), imported' = (imported /\ ~saved),
               \A id \in Ids \ {c} : rs[id] = rules[id]
        PROVE  ServedInv'
    <3>1. phase = "idle" /\ up /\ UNCHANGED <<up, runners, stopping, fresh>>
      BY <2>1 DEF Begin, Quiet, SaveAndApply
    <3>2. CASE saved
      <4>1. rules' = rs /\ phase' = "apply" /\ todo' = Desired(rs)
        BY <2>1, <3>2 DEF SaveAndApply, StartApply
      <4>2. ~stopping => NoClash(runners, rs)
        BY <2>0, <2>1, <3>1, <4>1, OneChangeNoClash
      <4> QED BY <3>1, <4>1, <4>2 DEF ServedInv, Served, NoClash, Desired, Present
    <3>3. CASE ~saved
      BY <2>1, <3>1, <3>3 DEF SaveAndApply, ServedInv, Served, Desired, Present
    <3> QED BY <3>2, <3>3
  <2>2. ASSUME NEW saved \in BOOLEAN, NEW id \in Ids, NEW f \in Forms, AddRule(id, f, saved) PROVE ServedInv'
    <3>1. \A k \in Ids \ {id} : [rules EXCEPT ![id] = [form |-> f, enabled |-> TRUE]][k] = rules[k]
      BY DEF TypeOK
    <3> QED BY <2>1, <2>2, <3>1 DEF AddRule
  <2>3. ASSUME NEW saved \in BOOLEAN, NEW id \in Ids, NEW f \in Forms, UpdateRule(id, f, saved) PROVE ServedInv'
    <3>1. \A k \in Ids \ {id} : [rules EXCEPT ![id] = [form |-> f, enabled |-> rules[id].enabled]][k] = rules[k]
      BY DEF TypeOK
    <3> QED BY <2>1, <2>3, <3>1 DEF UpdateRule
  <2>4. ASSUME NEW saved \in BOOLEAN, NEW id \in Ids, NEW on \in BOOLEAN, SetRuleEnabled(id, on, saved) PROVE ServedInv'
    <3>1. \A k \in Ids \ {id} : [rules EXCEPT ![id] = [form |-> rules[id].form, enabled |-> on]][k] = rules[k]
      BY DEF TypeOK
    <3> QED BY <2>1, <2>4, <3>1 DEF SetRuleEnabled
  <2>5. ASSUME NEW saved \in BOOLEAN, NEW c \in Imports, ImportConfig(c, saved) PROVE ServedInv'
    <3>1. CASE saved
      BY <2>5, <3>1 DEF ImportConfig, SaveAndApply, StartApply, ServedInv, Desired, Present
    <3>2. CASE ~saved
      <4>1. UNCHANGED <<up, rules, runners, phase, todo, stopping, fresh>>
        BY <2>5, <3>2 DEF ImportConfig, SaveAndApply, Quiet
      <4>2. imported' = imported
        BY <2>5, <3>2 DEF ImportConfig, TypeOK
      <4> QED BY <4>1, <4>2 DEF ServedInv, Served, NoClash, Desired, Present
    <3> QED BY <3>1, <3>2
  <2>6. ASSUME NEW saved \in BOOLEAN, NEW id \in Ids, DeleteRule(id, saved) PROVE ServedInv'
    <3>1. phase = "idle" /\ up /\ up' /\ stopping' = stopping /\ fresh' = fresh /\ imported' = imported
          /\ rules' = [rules EXCEPT ![id] = NoRule]
      BY <2>6 DEF DeleteRule, Begin, Quiet
    <3>2. phase' = "stuck" \/ (phase' = "idle" /\ runners' = [runners EXCEPT ![id] = NoRunner])
      BY <2>6, <3>1, Zenon DEF DeleteRule
    <3>3. Desired(rules') = Desired(rules) \ {id} /\ \A k \in Ids \ {id} : rules'[k] = rules[k]
      BY <3>1 DEF Desired, Present, TypeOK
    <3> QED BY <3>1, <3>2, <3>3 DEF ServedInv, Served, TypeOK, Desired, Present
  <2>7. ASSUME NEW saved \in BOOLEAN, NEW n, AddClient(n, saved) \/ DeleteClient(n, saved)
        PROVE  ServedInv'
    <3>1. UNCHANGED <<up, rules, runners, phase, todo, stopping, fresh, imported>>
      BY <2>7 DEF AddClient, DeleteClient, Quiet
    <3> QED BY <3>1 DEF ServedInv, Served, NoClash, Desired, Present
  <2>8. ASSUME NEW id \in Ids, ApplyOne(id) PROVE ServedInv'
    <3>1. phase = "apply" /\ id \in todo /\ UNCHANGED <<up, rules, stopping, imported>> /\ id \in Desired(rules)
      BY <2>8 DEF ApplyOne, ApplyFrame, ServedInv
    <3>2. CASE phase' = "stuck"
      BY <3>2 DEF ServedInv, RunnersInv
    <3>3. CASE runners[id] # NoRunner /\ UNCHANGED <<runners, phase>> /\ todo' = todo \ {id}
      BY <3>1, <3>3 DEF ServedInv, Served, NoClash, Desired, Present
    <3>4. CASE runners' = startRule(id, [runners EXCEPT ![id] = NoRunner]) /\ todo' = todo \ {id} /\ UNCHANGED phase
      <4> SUFFICES ASSUME ~stopping, ~imported
                   PROVE  NoClash(runners', rules) /\ Served(runners', Desired(rules) \ todo')
        BY <3>1, <3>4 DEF ServedInv, Served, NoClash, Desired, Present
      <4>0. NoClash(runners, rules) /\ Served(runners, Desired(rules) \ todo)
        BY <3>1 DEF ServedInv
      <4>1. \A k \in Ids \ {id} : runners'[k] = runners[k]
        BY <3>4 DEF startRule, TypeOK
      <4>2. runners'[id] # NoRunner => runners'[id].form = rules[id].form
        BY <3>4 DEF startRule, TypeOK
      <4>3. id \in Present(rules) /\ rules[id].form.side = "server"
        BY <3>1 DEF Desired
      <4>4. NoClash(runners', rules)
        <5> SUFFICES ASSUME NEW k \in Ids, NEW j \in Present(rules), k # j, runners'[k] # NoRunner,
                            rules[j].form.side = "server"
                     PROVE  runners'[k].form.listen # rules[j].form.listen
          BY DEF NoClash
        <5>1. CASE k = id
          BY <2>0, <4>2, <4>3, <5>1 DEF Unique, Compete
        <5>2. CASE k # id
          BY <4>0, <4>1, <5>2 DEF NoClash
        <5> QED BY <5>1, <5>2
      <4>5. Socket(rules[id].form) \notin Taken => runners'[id] # NoRunner
        <5> SUFFICES ASSUME Socket(rules[id].form) \notin Taken PROVE runners'[id] # NoRunner
          OBVIOUS
        <5> DEFINE rns == [runners EXCEPT ![id] = NoRunner]
        <5>1. \A k \in Ids : rns[k] # NoRunner => k # id /\ rns[k] = runners[k]
          BY DEF TypeOK
        <5>2. \A k \in Ids : rns[k] # NoRunner => rns[k].form.listen # rules[id].form.listen
          BY <4>0, <4>3, <5>1 DEF NoClash
        <5>3. CanBind(rules[id].form, rns)
          BY <5>2 DEF CanBind, Socket
        <5>4. runners'[id] = [form |-> rules[id].form, stopped |-> FALSE]
          BY <3>4, <5>3 DEF startRule, TypeOK
        <5>5. rules[id].form \in Forms
          BY <4>3 DEF Present, TypeOK, Rule
        <5>6. [form |-> rules[id].form, stopped |-> FALSE] \in Runner
          BY <5>5 DEF Runner
        <5> QED BY <5>4, <5>6, SentinelsAssumption
      <4>6. \A k \in Desired(rules) \ todo' : Socket(rules[k].form) \notin Taken => runners'[k] # NoRunner
        BY <3>4, <4>0, <4>1, <4>5 DEF Served, Desired, Present
      <4> QED BY <4>4, <4>6 DEF Served
    <3> QED BY <2>8, <3>2, <3>3, <3>4 DEF ApplyOne
  <2>9. CASE ApplyPrune
    <3>1. CASE phase' = "stuck"
      BY <3>1 DEF ServedInv
    <3>2. CASE phase' = "idle" /\ runners' = Without(Ids \ Desired(rules))
      <4>1. phase = "apply" /\ todo = {} /\ UNCHANGED <<up, rules, stopping, imported>>
        BY <2>9 DEF ApplyPrune, ApplyFrame
      <4>2. \A id \in Desired(rules) : runners'[id] = runners[id]
        BY <3>2 DEF Without, Desired, Present
      <4> QED BY <3>2, <4>1, <4>2 DEF ServedInv, Served, Desired, Present
    <3> QED BY <2>9, <3>1, <3>2 DEF ApplyPrune
  <2>10. CASE Crash \/ Exit
    BY <2>10 DEF Crash, Exit, Die, ServedInv
  <2>11. CASE Restart
    BY <2>11 DEF Restart, ServedInv
  <2>12. CASE Shutdown
    BY <2>12 DEF Shutdown, ServedInv
  <2>13. ASSUME NEW id \in Ids, HaltRunner(id) PROVE ServedInv'
    <3>1. stopping /\ stopping' /\ UNCHANGED <<phase, todo, rules>>
      BY <2>13 DEF HaltRunner
    <3> QED BY <3>1 DEF ServedInv, Desired, Present
  <2>14. CASE FirstApply
    <3>1. phase = "idle" /\ UNCHANGED <<rules, runners, stopping>> /\ todo' = Desired(rules)
      BY <2>14 DEF FirstApply, StartApply
    <3>2. ASSUME ~stopping, NEW c \in Ids PROVE NoClash(runners, rules)
      BY <2>0, <3>1, <3>2, OneChangeNoClash
    <3>3. ~stopping => NoClash(runners, rules)
      BY <3>2 DEF NoClash
    <3>4. phase' = "apply"
      BY <2>14 DEF FirstApply, StartApply
    <3> QED BY <3>1, <3>3, <3>4 DEF ServedInv, Served, NoClash, Desired, Present
  <2>15. CASE UNCHANGED vars
    BY <2>15 DEF vars, ServedInv, Served, NoClash, Desired, Present
  <2> QED
    BY <2>2, <2>3, <2>4, <2>5, <2>6, <2>7, <2>8, <2>9, <2>10, <2>11, <2>12, <2>13, <2>14, <2>15
       DEF Next, PanelOp, Apply, Halt
<1>3. RunnersInv /\ ServedInv => EnabledRulesRun
  BY DEF RunnersInv, ServedInv, Served, EnabledRulesRun, Free, Settled, Live, Desired, Present
<1> QED
  BY <1>1, <1>2, <1>3, StoreTypeCorrect, StorePortsUnique, RunnersInvariant, PTL DEF Spec
=============================================================================
