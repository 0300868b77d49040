------------------------- MODULE KeyAssignmentProofs -------------------------
(***************************************************************************)
(* Proofs about KeyAssignment and ConsumerEquivocation, for any sets of    *)
(* keys and validators, any unbonding period and any block times: TypeOK   *)
(* and KeysInv are inductive, KeysInv gives the attribution of keys in use *)
(* and of replaced keys, and with it evidence of equivocation that comes   *)
(* in time finds who signed.                                               *)
(***************************************************************************)
EXTENDS ConsumerEquivocation, TLAPS

\* The types hold before the consumer is registered.
LEMMA InitTypeOK == Init => TypeOK
  BY KeysAssumption DEF Init, TypeOK, Times, Entries

\* Every step of the model keeps the types (AssignConsumerKey and the others).
LEMMA NextTypeOK == TypeOK /\ [Next]_vars => TypeOK'
<1> SUFFICES ASSUME TypeOK, [Next]_vars PROVE TypeOK'
  OBVIOUS
<1> USE KeysAssumption DEF TypeOK
<1>1. ASSUME NEW v \in Vals, NEW k \in Keys, AssignConsumerKey(v, k)
      PROVE TypeOK'
  <2> USE <1>1 DEF AssignConsumerKey
  <2>1. byAddr' \in [Keys -> Vals \cup {None}] /\ pubKey' \in [Vals -> Keys \cup {None}]
    BY DEF RetiredAddrs
  <2>2. CASE pubKey[v] # None /\ phase = "LAUNCHED" /\ now + UnbondingPeriod <= MaxTime
             /\ toPrune' = toPrune \cup {[time |-> PruneTime, key |-> pubKey[v]]}
             /\ replaced' = [replaced EXCEPT ![pubKey[v]] = [val |-> v, at |-> now]]
    <3>1. now + UnbondingPeriod \in Times
      BY <2>2 DEF Times
    <3>2. toPrune' \subseteq Entries
      BY <2>2, <3>1 DEF Entries, PruneTime
    <3>3. [val |-> v, at |-> now] \in [val : Vals, at : Times]
      OBVIOUS
    <3>4. replaced' \in [Keys -> {None} \cup [val : Vals, at : Times]]
      BY <2>2, <3>3
    <3> QED BY <2>1, <3>2, <3>4
  <2>3. CASE UNCHANGED <<toPrune, replaced>>
    BY <2>1, <2>3
  <2> QED BY <2>2, <2>3
<1>2. ASSUME NEW v \in Vals, CreateValidator(v) PROVE TypeOK'
  BY <1>2 DEF CreateValidator
<1>3. ASSUME NEW v \in Vals, RemoveValidator(v) PROVE TypeOK'
  BY <1>3 DEF RemoveValidator, AfterValidatorRemoved
<1>4. ASSUME NEW d \in BlockTimes, EndBlock(d) PROVE TypeOK'
  <2>1. now' \in Times
    BY <1>4 DEF EndBlock, Times
  <2>2. byAddr' \in [Keys -> Vals \cup {None}] /\ toPrune' \subseteq Entries
    BY <1>4 DEF EndBlock
  <2> QED BY <1>4, <2>1, <2>2 DEF EndBlock
<1>5. CASE Launch
  BY <1>5 DEF Launch
<1>6. CASE Stop
  BY <1>6 DEF Stop
<1>7. CASE Delete
  BY <1>7 DEF Delete
<1>8. CASE UNCHANGED vars
  BY <1>8 DEF vars
<1> QED BY <1>1, <1>2, <1>3, <1>4, <1>5, <1>6, <1>7, <1>8 DEF Next

\* Every variable keeps its type, whatever the order of messages, staking
\* hooks and blocks.
THEOREM TypeCorrect == Spec => []TypeOK
  BY InitTypeOK, NextTypeOK, PTL DEF Spec

-----------------------------------------------------------------------------
\* No key is assigned and none is to be pruned at the start.
LEMMA InitKeysInv == Init => KeysInv
  BY KeysAssumption DEF Init, KeysInv, KeysConsistent

\* AssignConsumerKey: the new key was in nobody's entry, and the old one moves
\* from the assigned keys to those to be pruned.
LEMMA AssignKeepsInv ==
    ASSUME TypeOK, KeysInv, NEW v \in Vals, NEW k \in Keys, AssignConsumerKey(v, k)
    PROVE  KeysInv'
<1> USE KeysAssumption
<1> USE DEF TypeOK, AssignConsumerKey, IsConsumerActive
<1>1. byAddr[k] = None /\ v \in validators /\ (k \in validators => k = v)
  BY DEF KeyFree, IsRegistered
<1>2. /\ \A u \in Vals : pubKey[u] # k
      /\ \A e \in toPrune : e.key # k
  BY <1>1 DEF KeysInv, KeysConsistent
<1>3. CASE pubKey[v] # None /\ phase = "LAUNCHED" /\ now + UnbondingPeriod <= MaxTime
           /\ toPrune' = toPrune \cup {[time |-> PruneTime, key |-> pubKey[v]]}
           /\ replaced' = [replaced EXCEPT ![pubKey[v]] = [val |-> v, at |-> now]]
  <2> DEFINE old == pubKey[v]
  <2>1. byAddr' = [byAddr EXCEPT ![k] = v] /\ old \in Keys /\ old # k
    BY <1>2, <1>3 DEF RetiredAddrs
  <2>2. \A u \in Vals : pubKey[u] = old => u = v
    BY <1>3 DEF KeysInv, KeysConsistent
  <2>3. byAddr[old] = v /\ \A e \in toPrune : e.key # old
    BY <1>3 DEF KeysInv, KeysConsistent
  <2>4. KeysConsistent'
    <3>1. (\A u \in Vals : pubKey[u] # None => byAddr[pubKey[u]] = u)'
      BY <1>2, <2>1 DEF KeysInv, KeysConsistent
    <3>2. (\A e \in toPrune : byAddr[e.key] # None /\ \A u \in Vals : pubKey[u] # e.key)'
      BY <1>2, <1>3, <2>1, <2>2, <2>3 DEF KeysInv, KeysConsistent, Entries
    <3>3. (\A c \in Keys : byAddr[c] # None =>
              (\E u \in Vals : pubKey[u] = c) \/ (\E e \in toPrune : e.key = c))'
      <4> SUFFICES ASSUME NEW c \in Keys, byAddr'[c] # None
                   PROVE (\E u \in Vals : pubKey'[u] = c) \/ (\E e \in toPrune' : e.key = c)
        OBVIOUS
      <4>1. CASE c = k
        BY <4>1
      <4>2. CASE c = old
        <5>1. [time |-> PruneTime, key |-> c] \in toPrune'
          BY <1>3, <4>2
        <5> QED BY <5>1
      <4>3. CASE c # k /\ c # old
        BY <1>3, <2>1, <4>3 DEF KeysInv, KeysConsistent
      <4> QED BY <4>1, <4>2, <4>3
    <3> QED BY <3>1, <3>2, <3>3 DEF KeysConsistent
  <2>5. (\A e, f \in toPrune : e.key = f.key => e = f)'
    BY <1>3, <2>3 DEF KeysInv
  <2>6. (\A c \in Keys :
            replaced[c] # None /\ now < replaced[c].at + UnbondingPeriod =>
                /\ byAddr[c] = replaced[c].val
                /\ [time |-> replaced[c].at + UnbondingPeriod, key |-> c] \in toPrune)'
    <3> SUFFICES ASSUME NEW c \in Keys, replaced'[c] # None,
                        now < replaced'[c].at + UnbondingPeriod
                 PROVE /\ byAddr'[c] = replaced'[c].val
                       /\ [time |-> replaced'[c].at + UnbondingPeriod, key |-> c] \in toPrune'
      OBVIOUS
    <3>1. CASE c = old
      BY <1>3, <2>1, <2>3, <3>1 DEF PruneTime
    <3>2. CASE c # old
      <4>1. replaced'[c] = replaced[c]
        BY <1>3, <3>2
      <4>2. /\ byAddr[c] = replaced[c].val
            /\ [time |-> replaced[c].at + UnbondingPeriod, key |-> c] \in toPrune
        BY <1>3, <4>1 DEF KeysInv
      <4>3. c # k
        BY <1>2, <4>2
      <4> QED BY <1>3, <2>1, <4>1, <4>2, <4>3
    <3> QED BY <3>1, <3>2
  <2>7. (\A u \in Vals : pubKey[u] # None => u \in validators)'
    BY <1>1 DEF KeysInv
  <2>8. (IsConsumerActive => \A u \in validators : byAddr[u] \in {None, u})'
    BY <1>1, <2>1 DEF KeysInv
  <2> QED BY <2>4, <2>5, <2>6, <2>7, <2>8 DEF KeysInv
<1>4. CASE (pubKey[v] = None \/ phase # "LAUNCHED") /\ UNCHANGED <<toPrune, replaced>>
  <2>1. /\ byAddr'[k] = v
        /\ \A c \in Keys \ {k} : byAddr'[c] = IF c = pubKey[v] THEN None ELSE byAddr[c]
    BY <1>4 DEF RetiredAddrs
  <2>2. \A u \in Vals \ {v} : pubKey[u] # None => pubKey[u] # pubKey[v]
    BY DEF KeysInv, KeysConsistent
  <2>3. \A e \in toPrune : e.key # pubKey[v] /\ e.key # k
    BY <1>2 DEF KeysInv, KeysConsistent
  <2>4. KeysConsistent'
    <3>1. (\A u \in Vals : pubKey[u] # None => byAddr[pubKey[u]] = u)'
      BY <1>2, <2>1, <2>2 DEF KeysInv, KeysConsistent
    <3>2. (\A e \in toPrune : byAddr[e.key] # None /\ \A u \in Vals : pubKey[u] # e.key)'
      BY <1>4, <2>1, <2>3 DEF KeysInv, KeysConsistent, Entries
    <3>3. (\A c \in Keys : byAddr[c] # None =>
              (\E u \in Vals : pubKey[u] = c) \/ (\E e \in toPrune : e.key = c))'
      <4> SUFFICES ASSUME NEW c \in Keys, byAddr'[c] # None
                   PROVE (\E u \in Vals : pubKey'[u] = c) \/ (\E e \in toPrune' : e.key = c)
        OBVIOUS
      <4>1. CASE c = k
        BY <4>1
      <4>2. CASE c # k
        <5>1. byAddr[c] # None /\ c # pubKey[v]
          BY <2>1, <4>2
        <5> QED BY <1>4, <5>1 DEF KeysInv, KeysConsistent
      <4> QED BY <4>1, <4>2
    <3> QED BY <3>1, <3>2, <3>3 DEF KeysConsistent
  <2>5. (phase # "DELETED" =>
          \A c \in Keys :
            replaced[c] # None /\ now < replaced[c].at + UnbondingPeriod =>
                /\ byAddr[c] = replaced[c].val
                /\ [time |-> replaced[c].at + UnbondingPeriod, key |-> c] \in toPrune)'
    BY <1>4, <2>1, <2>3 DEF KeysInv
  <2>6. (\A u \in Vals : pubKey[u] # None => u \in validators)'
    BY <1>1 DEF KeysInv
  <2>7. (IsConsumerActive => \A u \in validators : byAddr[u] \in {None, u})'
    BY <1>1, <2>1 DEF KeysInv
  <2>8. (\A e, f \in toPrune : e.key = f.key => e = f)'
    BY <1>4 DEF KeysInv
  <2> QED BY <2>4, <2>5, <2>6, <2>7, <2>8 DEF KeysInv
<1> QED BY <1>3, <1>4

\* AfterValidatorRemoved: only the key in use goes, the replaced ones stay.
LEMMA RemoveKeepsInv ==
    ASSUME TypeOK, KeysInv, NEW v \in Vals, RemoveValidator(v)
    PROVE  KeysInv'
<1> USE KeysAssumption
<1> USE DEF TypeOK, RemoveValidator, AfterValidatorRemoved, IsConsumerActive
<1>1. \A u \in Vals \ {v} : pubKey[u] # None => pubKey[u] # pubKey[v]
  BY DEF KeysInv, KeysConsistent
<1>2. \A e \in toPrune : e.key # pubKey[v]
  BY DEF KeysInv, KeysConsistent
<1>3. KeysConsistent'
  <2>1. (\A u \in Vals : pubKey[u] # None => byAddr[pubKey[u]] = u)'
    BY <1>1 DEF KeysInv, KeysConsistent
  <2>2. (\A e \in toPrune : byAddr[e.key] # None /\ \A u \in Vals : pubKey[u] # e.key)'
    BY <1>2 DEF KeysInv, KeysConsistent, Entries
  <2>3. (\A c \in Keys : byAddr[c] # None =>
            (\E u \in Vals : pubKey[u] = c) \/ (\E e \in toPrune : e.key = c))'
    BY DEF KeysInv, KeysConsistent
  <2> QED BY <2>1, <2>2, <2>3 DEF KeysConsistent
<1>4. (phase # "DELETED" =>
        \A c \in Keys :
          replaced[c] # None /\ now < replaced[c].at + UnbondingPeriod =>
              /\ byAddr[c] = replaced[c].val
              /\ [time |-> replaced[c].at + UnbondingPeriod, key |-> c] \in toPrune)'
  BY <1>2 DEF KeysInv
<1>5. (\A u \in Vals : pubKey[u] # None => u \in validators)'
  BY DEF KeysInv
<1>6. (IsConsumerActive => \A u \in validators : byAddr[u] \in {None, u})'
  BY DEF KeysInv
<1>7. (\A e, f \in toPrune : e.key = f.key => e = f)'
  BY DEF KeysInv
<1> QED BY <1>3, <1>4, <1>5, <1>6, <1>7 DEF KeysInv

\* PruneKeyAssignments: the addresses pruned are nobody's key, and the period
\* of a replaced key that is not pruned runs on.
LEMMA PruneKeepsInv ==
    ASSUME TypeOK, KeysInv, NEW d \in BlockTimes, EndBlock(d)
    PROVE  KeysInv'
<1> USE KeysAssumption
<1> USE DEF TypeOK, EndBlock, IsConsumerActive
<1>1. now' \in Times /\ now' >= now
  BY DEF Times
<1>2. CASE /\ phase \in {"LAUNCHED", "STOPPED"}
           /\ toPrune' = toPrune \ Prunable
           /\ byAddr' = [c \in Keys |-> IF \E e \in Prunable : e.key = c THEN None
                                        ELSE byAddr[c]]
  <2>1. Prunable \subseteq toPrune
    BY DEF Prunable
  <2>2. KeysConsistent'
    <3>1. (\A u \in Vals : pubKey[u] # None => byAddr[pubKey[u]] = u)'
      BY <1>2, <2>1 DEF KeysInv, KeysConsistent
    <3>2. (\A e \in toPrune : byAddr[e.key] # None /\ \A u \in Vals : pubKey[u] # e.key)'
      BY <1>2, <2>1 DEF KeysInv, KeysConsistent, Entries
    <3>3. (\A c \in Keys : byAddr[c] # None =>
              (\E u \in Vals : pubKey[u] = c) \/ (\E e \in toPrune : e.key = c))'
      BY <1>2, <2>1 DEF KeysInv, KeysConsistent
    <3> QED BY <3>1, <3>2, <3>3 DEF KeysConsistent
  <2>3. (phase # "DELETED" =>
          \A c \in Keys :
            replaced[c] # None /\ now < replaced[c].at + UnbondingPeriod =>
                /\ byAddr[c] = replaced[c].val
                /\ [time |-> replaced[c].at + UnbondingPeriod, key |-> c] \in toPrune)'
    <3> SUFFICES ASSUME NEW c \in Keys, replaced[c] # None,
                        now' < replaced[c].at + UnbondingPeriod
                 PROVE /\ byAddr'[c] = replaced[c].val
                       /\ [time |-> replaced[c].at + UnbondingPeriod, key |-> c] \in toPrune'
      OBVIOUS
    <3> DEFINE entry == [time |-> replaced[c].at + UnbondingPeriod, key |-> c]
    <3>1. replaced[c].at \in Times
      OBVIOUS
    <3>2. now < replaced[c].at + UnbondingPeriod
      BY <1>1, <3>1 DEF Times
    <3>3. byAddr[c] = replaced[c].val /\ entry \in toPrune
      BY <1>2, <3>2 DEF KeysInv
    <3>4. entry \notin Prunable
      BY <3>1, <3>2 DEF Prunable, Times
    <3>5. \A e \in Prunable : e.key # c
      BY <2>1, <3>3, <3>4 DEF KeysInv
    <3> QED BY <1>2, <3>3, <3>4, <3>5
  <2>4. (\A u \in Vals : pubKey[u] # None => u \in validators)'
    BY DEF KeysInv
  <2>5. (IsConsumerActive => \A u \in validators : byAddr[u] \in {None, u})'
    BY <1>2 DEF KeysInv
  <2>6. (\A e, f \in toPrune : e.key = f.key => e = f)'
    BY <1>2 DEF KeysInv
  <2> QED BY <2>2, <2>3, <2>4, <2>5, <2>6 DEF KeysInv
<1>3. CASE phase \notin {"LAUNCHED", "STOPPED"} /\ UNCHANGED <<toPrune, byAddr>>
  <2>1. KeysConsistent'
    BY <1>3 DEF KeysInv, KeysConsistent
  <2>2. \A c \in Keys : replaced[c] # None => replaced[c].at \in Times
    OBVIOUS
  <2>3. (phase # "DELETED" =>
          \A c \in Keys :
            replaced[c] # None /\ now < replaced[c].at + UnbondingPeriod =>
                /\ byAddr[c] = replaced[c].val
                /\ [time |-> replaced[c].at + UnbondingPeriod, key |-> c] \in toPrune)'
    BY <1>1, <1>3, <2>2 DEF KeysInv, Times
  <2> QED BY <1>3, <2>1, <2>3 DEF KeysInv
<1> QED BY <1>2, <1>3

\* The inductive step, one case per operation on the key-assignment state.
LEMMA NextKeysInv == TypeOK /\ KeysInv /\ [Next]_vars => KeysInv'
<1> SUFFICES ASSUME TypeOK, KeysInv, [Next]_vars PROVE KeysInv'
  OBVIOUS
<1>1. ASSUME NEW v \in Vals, NEW k \in Keys, AssignConsumerKey(v, k) PROVE KeysInv'
  BY <1>1, AssignKeepsInv
<1>2. ASSUME NEW v \in Vals, CreateValidator(v) PROVE KeysInv'
  BY <1>2, KeysAssumption
     DEF CreateValidator, KeysInv, KeysConsistent, TypeOK, IsConsumerActive
<1>3. ASSUME NEW v \in Vals, RemoveValidator(v) PROVE KeysInv'
  BY <1>3, RemoveKeepsInv
<1>4. ASSUME NEW d \in BlockTimes, EndBlock(d) PROVE KeysInv'
  BY <1>4, PruneKeepsInv
<1>5. CASE Launch
  BY <1>5 DEF Launch, KeysInv, KeysConsistent, IsConsumerActive
<1>6. CASE Stop
  BY <1>6 DEF Stop, KeysInv, KeysConsistent, IsConsumerActive
<1>7. CASE Delete
  BY <1>7, KeysAssumption DEF Delete, KeysInv, KeysConsistent, IsConsumerActive, TypeOK
<1>8. CASE UNCHANGED vars
  BY <1>8 DEF vars, KeysInv, KeysConsistent, IsConsumerActive
<1> QED BY <1>1, <1>2, <1>3, <1>4, <1>5, <1>6, <1>7, <1>8 DEF Next

\* The inductive invariant of the key-assignment state always holds.
THEOREM KeysInvCorrect == Spec => []KeysInv
<1>1. TypeOK /\ KeysInv /\ [Next]_vars => TypeOK' /\ KeysInv'
  BY NextTypeOK, NextKeysInv
<1> QED BY InitTypeOK, InitKeysInv, <1>1, PTL DEF Spec

\* The index holds exactly the assigned keys and the keys to be pruned, as the
\* comment above AppendConsumerAddrsToPrune asks; pruning never cuts off a key
\* in use.
THEOREM KeysConsistentCorrect == Spec => []KeysConsistent
<1>1. KeysInv => KeysConsistent
  BY DEF KeysInv
<1> QED BY <1>1, KeysInvCorrect, PTL

\* On an active consumer the key a validator uses leads back to it
\* (GetProviderAddrFromConsumerAddr), so two validators never share a key.
THEOREM KeyAttributedCorrect == Spec => []KeyAttributed
<1>1. TypeOK /\ KeysInv => KeyAttributed
  BY KeysAssumption
     DEF TypeOK, KeysInv, KeysConsistent, KeyAttributed, EffectiveKey,
         GetProviderAddrFromConsumerAddr, IsConsumerActive
<1> QED BY <1>1, TypeCorrect, KeysInvCorrect, PTL

\* An infraction with a key replaced less than an unbonding period ago is
\* attributed to the validator that replaced it.
THEOREM OldKeyAttributedCorrect == Spec => []OldKeyAttributed
<1>1. KeysInv => OldKeyAttributed
  BY DEF KeysInv, OldKeyAttributed
<1> QED BY <1>1, KeysInvCorrect, PTL

-----------------------------------------------------------------------------
(* Evidence of equivocation (ConsumerEquivocation) *)

\* The key of an offence still leads to the one that signed: it is its provider
\* key, which nobody else may take, or its key on the consumer, or a key it has
\* replaced, and the address is pruned too late to matter.
TiedTo(o) ==
    \/ o.key = o.val /\ byAddr[o.key] \in {None, o.val}
    \/ pubKey[o.val] = o.key
    \/ /\ byAddr[o.key] = o.val
       /\ \E e \in toPrune : e.key = o.key /\ e.time + UpdateDelay >= o.at + UnbondingPeriod

\* The one that signed is still a validator, and if it has begun to unbond, it was
\* not long before the offence.
StillBound(o) ==
    /\ o.val \in validators
    /\ left[o.val] # None => left[o.val] + UpdateDelay >= o.at

\* The inductive invariant behind OffenderPunishable.
OffenceInv(o) ==
    /\ phase # "REGISTERED" /\ o.val \in Vals /\ minHeight <= o.at /\ o.at <= now
    /\ InTime(o) => StillBound(o) /\ TiedTo(o)

OffencesInv ==
    /\ minHeight <= now
    /\ phase # "DELETED" => \A o \in offences : o.val # None => OffenceInv(o)

\* Who was slashed is tombstoned, and was slashed once.
TombstonedInv ==
    Tombstone => \A v \in Vals : slashes[v] <= IF v \in tombstoned THEN 1 ELSE 0

\* The steps of the model are those of KeyAssignment, or leave its state alone.
LEMMA EquivocationIsNext == [EquivocationNext]_equivocationVars => [Next]_vars
  BY DEF EquivocationNext, equivocationVars, KeyStep, LaunchStep, DeleteStep, BlockStep, BeginUnbonding, Rebond,
         DoubleSign, StandaloneDoubleSign, HandleConsumerDoubleVoting,
         HandleConsumerMisbehaviour, Punish, Next

\* The state of KeyAssignment stays consistent beside equivocations and evidence.
LEMMA EquivocationKeys == EquivocationSpec => [](TypeOK /\ KeysInv)
  <1>1. EquivocationInit => TypeOK /\ KeysInv
    BY InitTypeOK, InitKeysInv DEF EquivocationInit
  <1>2. TypeOK /\ KeysInv /\ [EquivocationNext]_equivocationVars => TypeOK' /\ KeysInv'
    BY EquivocationIsNext, NextTypeOK, NextKeysInv
  <1> QED BY <1>1, <1>2, PTL DEF EquivocationSpec

\* What evidence changes: some validators that could be punished are, each once.
LEMMA EvidencePunishes ==
    ASSUME EquivocationNext
    PROVE  \/ UNCHANGED slashes
           \/ /\ HasClient
              /\ \E S \in SUBSET {v \in validators : Punishable(v)} :
                    /\ Punish(S)
                    /\ \A v \in S : \E o \in offences :
                          minHeight <= o.at /\ v = GetProviderAddrFromConsumerAddr(o.key)
  <1>1. CASE KeyStep \/ LaunchStep \/ DeleteStep \/ BlockStep \/ (\E v \in Vals : BeginUnbonding(v) \/ Rebond(v))
             \/ (\E S \in SUBSET Vals : DoubleSign(S))
             \/ (\E k \in Keys : StandaloneDoubleSign(k))
    BY <1>1 DEF KeyStep, LaunchStep, DeleteStep, BlockStep, BeginUnbonding, Rebond, DoubleSign, StandaloneDoubleSign
  <1>2. ASSUME NEW o \in offences, HandleConsumerDoubleVoting(o)
        PROVE  /\ HasClient
               /\ \E S \in SUBSET {v \in validators : Punishable(v)} :
                     /\ Punish(S)
                     /\ \A v \in S : \E p \in offences :
                           minHeight <= p.at /\ v = GetProviderAddrFromConsumerAddr(p.key)
    <2> DEFINE S == {GetProviderAddrFromConsumerAddr(o.key)}
    <2>1. HasClient /\ minHeight <= o.at /\ Punish(S)
      BY <1>2 DEF HandleConsumerDoubleVoting, RecentEnough
    <2>2. S \subseteq {v \in validators : Punishable(v)}
      BY <1>2 DEF HandleConsumerDoubleVoting, Punishable
    <2> QED BY <2>1, <2>2
  <1>3. ASSUME NEW E \in SUBSET offences, NEW amnesia \in BOOLEAN,
               HandleConsumerMisbehaviour(E, amnesia)
        PROVE  /\ HasClient
               /\ \E S \in SUBSET {v \in validators : Punishable(v)} :
                     /\ Punish(S)
                     /\ \A v \in S : \E p \in offences :
                           minHeight <= p.at /\ v = GetProviderAddrFromConsumerAddr(p.key)
    <2> DEFINE S == {v \in Attributed(GetByzantineValidators(E, amnesia)) : Punishable(v)}
    <2>1. HasClient /\ Punish(S) /\ \A o \in E : minHeight <= o.at
      BY <1>3 DEF HandleConsumerMisbehaviour, RecentEnough
    <2>2. S \subseteq {v \in validators : Punishable(v)}
      BY DEF Punishable
    <2>3. \A v \in S : \E o \in E : v = GetProviderAddrFromConsumerAddr(o.key)
      BY DEF Attributed, GetByzantineValidators
    <2> QED BY <2>1, <2>2, <2>3
  <1> QED BY <1>1, <1>2, <1>3 DEF EquivocationNext

\* The types of the variables that ConsumerEquivocation adds.
LEMMA EquivocationTypes ==
    TypeOK /\ EquivocationTypeOK /\ [EquivocationNext]_equivocationVars => EquivocationTypeOK'
  <1> SUFFICES ASSUME TypeOK, EquivocationTypeOK, [EquivocationNext]_equivocationVars
               PROVE  EquivocationTypeOK'
    OBVIOUS
  <1> USE DEF EquivocationTypeOK
  <1>1. now \in Times /\ validators \subseteq Vals
    BY DEF TypeOK
  <1>2. CASE KeyStep \/ LaunchStep \/ DeleteStep \/ BlockStep
    <2>1. MaxTime \in Nat /\ 0 \in Times /\ 0..now \subseteq Times
      BY <1>1, KeysAssumption DEF Times
    <2> QED BY <1>2, <2>1 DEF KeyStep, LaunchStep, DeleteStep, BlockStep
  <1>3. ASSUME NEW v \in Vals, BeginUnbonding(v) \/ Rebond(v) PROVE EquivocationTypeOK'
    BY <1>1, <1>3 DEF BeginUnbonding, Rebond
  <1>4. ASSUME NEW S \in SUBSET Vals, DoubleSign(S) PROVE EquivocationTypeOK'
    <2>1. PICK signedWith \in [S -> Keys] :
              offences' = {[key |-> signedWith[v], val |-> v, at |-> now] : v \in S}
      BY <1>4 DEF DoubleSign
    <2>2. ASSUME NEW v \in S
          PROVE  [key |-> signedWith[v], val |-> v, at |-> now] \in Offences
      BY <1>1 DEF Offences
    <2>3. offences' \subseteq Offences
      BY <2>1, <2>2
    <2> QED BY <1>4, <2>3 DEF DoubleSign
  <1>5. ASSUME NEW k \in Keys, StandaloneDoubleSign(k) PROVE EquivocationTypeOK'
    BY <1>1, <1>5 DEF StandaloneDoubleSign, Offences
  <1>6. ASSUME NEW S \in SUBSET {v \in validators : Punishable(v)}, Punish(S)
        PROVE  EquivocationTypeOK'
    BY <1>1, <1>6 DEF Punish
  <1>7. CASE UNCHANGED equivocationVars
    BY <1>7 DEF equivocationVars
  <1>8. ASSUME \/ \E o \in offences : HandleConsumerDoubleVoting(o)
               \/ \E E \in SUBSET offences, amnesia \in BOOLEAN :
                     HandleConsumerMisbehaviour(E, amnesia)
        PROVE  EquivocationTypeOK'
    BY <1>6, <1>8 DEF HandleConsumerDoubleVoting, HandleConsumerMisbehaviour, Punishable
  <1> QED BY <1>2, <1>3, <1>4, <1>5, <1>7, <1>8 DEF EquivocationNext

\* Punishment is for those that are not tombstoned, and tombstones them.
LEMMA TombstonedInductive ==
    EquivocationTypeOK /\ TombstonedInv /\ [EquivocationNext]_equivocationVars => TombstonedInv'
  <1> SUFFICES ASSUME EquivocationTypeOK, TombstonedInv,
                      [EquivocationNext]_equivocationVars, Tombstone, NEW v \in Vals
               PROVE  slashes'[v] <= IF v \in tombstoned' THEN 1 ELSE 0
    BY DEF TombstonedInv
  <1>1. slashes[v] \in Nat /\ slashes[v] <= IF v \in tombstoned THEN 1 ELSE 0
    BY DEF TombstonedInv, EquivocationTypeOK
  <1>2. tombstoned \subseteq tombstoned'
    BY DEF EquivocationNext, equivocationVars, KeyStep, LaunchStep, DeleteStep, BlockStep, BeginUnbonding, Rebond,
           DoubleSign, StandaloneDoubleSign, HandleConsumerDoubleVoting,
           HandleConsumerMisbehaviour, Punish
  <1>3. CASE UNCHANGED slashes
    BY <1>1, <1>2, <1>3
  <1>4. ASSUME NEW S \in SUBSET {u \in validators : Punishable(u)}, Punish(S)
        PROVE  slashes'[v] <= IF v \in tombstoned' THEN 1 ELSE 0
    <2>1. CASE v \in S
      BY <1>1, <1>4, <2>1 DEF Punish, Punishable
    <2>2. CASE v \notin S
      BY <1>1, <1>2, <1>4, <2>2 DEF Punish
    <2> QED BY <2>1, <2>2
  <1> QED BY <1>3, <1>4, EvidencePunishes DEF equivocationVars

\* Block times do not go back.
LEMMA TimeNeverGoesBack ==
    ASSUME TypeOK, [EquivocationNext]_equivocationVars
    PROVE  now' \in Nat /\ now' >= now
  <1>1. now \in Nat
    BY KeysAssumption DEF TypeOK, Times
  <1>2. ASSUME NEW d \in BlockTimes, EndBlock(d) PROVE now' \in Nat /\ now' >= now
    BY <1>1, <1>2, KeysAssumption DEF EndBlock, TypeOK, Times
  <1>3. CASE UNCHANGED vars
    BY <1>1, <1>3 DEF vars
  <1>4. CASE KeyStep \/ LaunchStep \/ DeleteStep
    <2>1. now' = now
      BY <1>4 DEF KeyStep, LaunchStep, DeleteStep, AssignConsumerKey, CreateValidator,
                  RemoveValidator, Launch, Stop, Delete
    <2> QED BY <1>1, <2>1
  <1>5. CASE BlockStep
    BY <1>2, <1>5 DEF BlockStep
  <1> QED BY <1>3, <1>4, <1>5
          DEF EquivocationNext, equivocationVars, BeginUnbonding, Rebond, DoubleSign,
              StandaloneDoubleSign, HandleConsumerDoubleVoting,
              HandleConsumerMisbehaviour, Punish

\* So evidence that is in time after a step was so before.
LEMMA TimeGoesOn ==
    ASSUME TypeOK, NEW o \in Offences, [EquivocationNext]_equivocationVars
    PROVE  now' \in Nat /\ now' >= now /\ (InTime(o)' => InTime(o))
  <1>1. now \in Nat /\ o.at \in Nat /\ UpdateDelay \in Nat /\ UnbondingPeriod \in Nat
    BY KeysAssumption, EquivocationAssumption DEF TypeOK, Times, Offences
  <1> QED BY <1>1, TimeNeverGoesBack DEF InTime

\* One that may still be punished in time is not unbonded.
LEMMA BoundNotUnbonded ==
    ASSUME TypeOK, EquivocationTypeOK, NEW o \in Offences, o.val \in Vals,
           InTime(o), StillBound(o)
    PROVE  ~IsUnbonded(o.val)
  <1>1. now \in Int /\ o.at \in Int /\ UpdateDelay \in Int /\ UnbondingPeriod \in Int
    BY KeysAssumption, EquivocationAssumption DEF TypeOK, Times, Offences
  <1>2. left[o.val] # None => left[o.val] \in Int
    BY DEF EquivocationTypeOK, Times
  <1> QED BY <1>1, <1>2 DEF InTime, StillBound, IsUnbonded

\* A key that is tied to who signed with it leads to it.
LEMMA TiedAttributed ==
    ASSUME TypeOK, KeysInv, NEW o \in Offences, o.val \in Vals, TiedTo(o)
    PROVE  GetProviderAddrFromConsumerAddr(o.key) = o.val
  <1>1. o.key \in Keys /\ None \notin Vals /\ o.key # None
    BY KeysAssumption DEF Offences
  <1> QED BY <1>1 DEF TiedTo, GetProviderAddrFromConsumerAddr, KeysInv, KeysConsistent

\* AssignConsumerKey cannot give the key to another validator, and keeps the
\* address when the validator replaces it.
LEMMA AssignKeepsTie ==
    ASSUME TypeOK, KeysInv, NEW o \in Offences, o.val \in validators, o.at <= now,
           phase = "LAUNCHED", TiedTo(o),
           NEW w \in Vals, NEW k \in Keys, AssignConsumerKey(w, k)
    PROVE  TiedTo(o)'
  <1>1. /\ o.key \in Keys /\ o.val \in Vals /\ None \notin Vals /\ None \notin Keys
        /\ o.at \in Nat /\ now \in Nat /\ UpdateDelay \in Nat /\ UnbondingPeriod \in Nat
    BY KeysAssumption, EquivocationAssumption DEF TypeOK, Times, Offences
  <1>2. /\ byAddr' = [byAddr EXCEPT ![k] = w] /\ byAddr[k] = None
        /\ pubKey' = [pubKey EXCEPT ![w] = k] /\ toPrune \subseteq toPrune'
    BY DEF AssignConsumerKey, KeyFree, RetiredAddrs, TypeOK
  <1>3. CASE o.key = o.val /\ byAddr[o.key] \in {None, o.val}
    <2>1. k = o.key => w = o.val
      BY <1>3 DEF AssignConsumerKey, KeyFree
    <2>2. byAddr'[o.key] \in {None, o.val}
      BY <1>1, <1>2, <1>3, <2>1 DEF TypeOK
    <2> QED BY <1>3, <2>2 DEF TiedTo
  <1>4. CASE pubKey[o.val] = o.key
    <2>1. byAddr[o.key] = o.val /\ k # o.key
      BY <1>1, <1>2, <1>4 DEF KeysInv, KeysConsistent
    <2>2. CASE w # o.val
      BY <1>1, <1>2, <1>4, <2>2 DEF TiedTo, TypeOK
    <2>3. CASE w = o.val
      <3> DEFINE e == [time |-> PruneTime, key |-> o.key]
      <3>1. e \in toPrune'
        BY <1>1, <1>4, <2>3 DEF AssignConsumerKey
      <3>2. e.key = o.key /\ e.time + UpdateDelay >= o.at + UnbondingPeriod
        BY <1>1 DEF PruneTime
      <3>3. byAddr'[o.key] = o.val
        BY <1>1, <1>2, <2>1 DEF TypeOK
      <3> QED BY <3>1, <3>2, <3>3 DEF TiedTo
    <2> QED BY <2>2, <2>3
  <1>5. CASE /\ byAddr[o.key] = o.val
             /\ \E e \in toPrune : e.key = o.key /\ e.time + UpdateDelay >= o.at + UnbondingPeriod
    <2>1. k # o.key
      BY <1>1, <1>2, <1>5
    <2>2. byAddr'[o.key] = o.val
      BY <1>1, <1>2, <1>5, <2>1 DEF TypeOK
    <2> QED BY <1>2, <1>5, <2>2 DEF TiedTo
  <1> QED BY <1>3, <1>4, <1>5 DEF TiedTo

\* AfterValidatorRemoved deletes the key of the validator that goes and no other.
LEMMA RemoveKeepsTie ==
    ASSUME TypeOK, KeysInv, NEW o \in Offences, o.val \in Vals, TiedTo(o),
           NEW w \in Vals, w # o.val, RemoveValidator(w)
    PROVE  TiedTo(o)'
  <1>1. o.key \in Keys /\ None \notin Vals /\ None \notin Keys
    BY KeysAssumption DEF Offences
  <1>2. /\ byAddr' = [c \in Keys |-> IF c = pubKey[w] THEN None ELSE byAddr[c]]
        /\ pubKey' = [pubKey EXCEPT ![w] = None] /\ toPrune' = toPrune
    BY DEF RemoveValidator, AfterValidatorRemoved
  <1>3. CASE o.key = o.val /\ byAddr[o.key] \in {None, o.val}
    BY <1>1, <1>2, <1>3 DEF TiedTo
  <1>4. CASE pubKey[o.val] = o.key
    BY <1>2, <1>4 DEF TiedTo, TypeOK
  <1>5. ASSUME NEW e \in toPrune, byAddr[o.key] = o.val,
               e.key = o.key, e.time + UpdateDelay >= o.at + UnbondingPeriod
        PROVE  TiedTo(o)'
    <2>1. pubKey[w] # o.key
      BY <1>5 DEF KeysInv, KeysConsistent
    <2>2. byAddr'[o.key] = o.val
      BY <1>1, <1>2, <1>5, <2>1
    <2> QED BY <1>2, <1>5, <2>2 DEF TiedTo
  <1> QED BY <1>3, <1>4, <1>5 DEF TiedTo

\* PruneKeyAssignments prunes the address only when evidence is late.
LEMMA PruneKeepsTie ==
    ASSUME TypeOK, KeysInv, NEW o \in Offences, o.val \in Vals, TiedTo(o), InTime(o),
           NEW d \in BlockTimes, EndBlock(d)
    PROVE  TiedTo(o)'
  <1>1. /\ o.key \in Keys /\ None \notin Vals /\ None \notin Keys
        /\ o.at \in Nat /\ now \in Nat /\ UpdateDelay \in Nat /\ UnbondingPeriod \in Nat
    BY KeysAssumption, EquivocationAssumption DEF TypeOK, Times, Offences
  <1>2. pubKey' = pubKey
    BY DEF EndBlock
  <1>3. CASE o.key = o.val /\ byAddr[o.key] \in {None, o.val}
    <2>1. byAddr'[o.key] \in {None, o.val}
      BY <1>1, <1>3 DEF EndBlock
    <2> QED BY <1>3, <2>1 DEF TiedTo
  <1>4. CASE pubKey[o.val] = o.key
    BY <1>2, <1>4 DEF TiedTo
  <1>5. ASSUME NEW e \in toPrune, byAddr[o.key] = o.val,
               e.key = o.key, e.time + UpdateDelay >= o.at + UnbondingPeriod
        PROVE  TiedTo(o)'
    <2>1. e.time \in Nat
      BY DEF TypeOK, Entries, Times
    <2>2. e \notin Prunable
      BY <1>1, <1>5, <2>1 DEF InTime, Prunable
    <2>3. \A f \in Prunable : f.key # o.key
      BY <1>5, <2>2 DEF KeysInv, Prunable
    <2>4. byAddr'[o.key] = o.val /\ e \in toPrune'
      BY <1>1, <1>5, <2>2, <2>3 DEF EndBlock
    <2> QED BY <1>5, <2>4 DEF TiedTo
  <1> QED BY <1>3, <1>4, <1>5 DEF TiedTo

\* A step keeps what is known of an offence.
LEMMA OffenceKept ==
    ASSUME TypeOK, EquivocationTypeOK, KeysInv, phase # "DELETED",
           NEW o \in Offences, OffenceInv(o),
           EquivocationNext, phase' # "DELETED"
    PROVE  OffenceInv(o)'
  <1>1. /\ o.val \in Vals /\ o.at \in Nat /\ now \in Nat /\ o.at <= now
        /\ now' \in Nat /\ now' >= now /\ UpdateDelay \in Nat
    BY TimeGoesOn, EquivocationAssumption DEF OffenceInv, Offences, Times, TypeOK
  <1>2. phase \in {"LAUNCHED", "STOPPED"}
    BY DEF OffenceInv, TypeOK
  <1>3. phase' # "REGISTERED"
    BY <1>2 DEF EquivocationNext, KeyStep, LaunchStep, DeleteStep, BlockStep, BeginUnbonding, Rebond, DoubleSign,
                StandaloneDoubleSign, HandleConsumerDoubleVoting,
                HandleConsumerMisbehaviour, Punish, vars, AssignConsumerKey, CreateValidator,
                RemoveValidator, EndBlock, Launch, Stop, Delete
  <1>4. minHeight' <= o.at
    BY <1>2, TimeGoesOn DEF OffenceInv, EquivocationNext, KeyStep, LaunchStep, DeleteStep,
                BlockStep, BeginUnbonding, Rebond, DoubleSign, StandaloneDoubleSign,
                HandleConsumerDoubleVoting, HandleConsumerMisbehaviour, Punish, Launch, Delete
  <1>5. SUFFICES ASSUME InTime(o)' PROVE StillBound(o)' /\ TiedTo(o)'
    BY <1>1, <1>3, <1>4 DEF OffenceInv
  <1>6. InTime(o) /\ StillBound(o) /\ TiedTo(o)
    BY <1>5, TimeGoesOn DEF OffenceInv
  <1>7. o.val \in validators
    BY <1>6 DEF StillBound
  <1>8. CASE KeyStep
    <2>1. left'[o.val] = IF o.val \in validators' THEN left[o.val] ELSE None
      BY <1>1, <1>8 DEF KeyStep
    <2>2. ASSUME o.val \in validators' PROVE StillBound(o)'
      BY <1>6, <2>1, <2>2 DEF StillBound
    <2>3. ASSUME NEW w \in Vals, NEW k \in Keys, AssignConsumerKey(w, k)
          PROVE  StillBound(o)' /\ TiedTo(o)'
      <3>1. validators' = validators
        BY <2>3 DEF AssignConsumerKey
      <3>2. phase = "LAUNCHED"
        BY <1>2, <2>3 DEF AssignConsumerKey, IsConsumerActive
      <3> QED BY <1>1, <1>6, <1>7, <2>2, <2>3, <3>1, <3>2, AssignKeepsTie
    <2>4. ASSUME NEW w \in Vals, CreateValidator(w) PROVE StillBound(o)' /\ TiedTo(o)'
      BY <1>6, <1>7, <2>2, <2>4 DEF CreateValidator, TiedTo
    <2>5. ASSUME NEW w \in Vals, IsUnbonded(w), RemoveValidator(w)
          PROVE  StillBound(o)' /\ TiedTo(o)'
      <3>1. w # o.val
        BY <1>1, <1>6, <2>5, BoundNotUnbonded
      <3>2. o.val \in validators'
        BY <1>7, <2>5, <3>1 DEF RemoveValidator
      <3> QED BY <1>1, <1>6, <2>2, <2>5, <3>1, <3>2, RemoveKeepsTie
    <2>6. CASE Stop
      BY <1>6, <1>7, <2>2, <2>6 DEF Stop, TiedTo
    <2> QED BY <1>8, <2>3, <2>4, <2>5, <2>6 DEF KeyStep
  <1>9. CASE BlockStep
    <2> PICK d \in BlockTimes : EndBlock(d)
      BY <1>9 DEF BlockStep
    <2>1. validators' = validators /\ left' = left
      BY <1>9 DEF BlockStep, EndBlock
    <2> QED BY <1>1, <1>6, <2>1, PruneKeepsTie DEF StillBound
  <1>10. ASSUME UNCHANGED vars, left'[o.val] \in {None, now, left[o.val]}
        PROVE  StillBound(o)' /\ TiedTo(o)'
    BY <1>1, <1>6, <1>10 DEF vars, StillBound, TiedTo
  <1>11. ASSUME NEW v \in Vals, BeginUnbonding(v) \/ Rebond(v)
         PROVE  StillBound(o)' /\ TiedTo(o)'
    BY <1>1, <1>10, <1>11 DEF BeginUnbonding, Rebond, EquivocationTypeOK
  <1>12. CASE (\E S \in SUBSET Vals : DoubleSign(S)) \/ (\E k \in Keys : StandaloneDoubleSign(k))
    BY <1>10, <1>12 DEF DoubleSign, StandaloneDoubleSign
  <1>13. CASE \/ \E p \in offences : HandleConsumerDoubleVoting(p)
              \/ \E E \in SUBSET offences, amnesia \in BOOLEAN :
                    HandleConsumerMisbehaviour(E, amnesia)
    <2>1. \E S : Punish(S)
      BY <1>13 DEF HandleConsumerDoubleVoting, HandleConsumerMisbehaviour
    <2> QED BY <1>1, <1>10, <2>1 DEF Punish
  <1> QED BY <1>2, <1>8, <1>9, <1>11, <1>12, <1>13
          DEF EquivocationNext, LaunchStep, DeleteStep, Launch, Delete

\* Who signs on the consumer is a validator, or was until recently, and its key
\* leads to it.
LEMMA OffenceSigned ==
    ASSUME TypeOK, EquivocationTypeOK, KeysInv, NEW v \in Vals, CanSign(v),
           phase = "LAUNCHED", NEW k \in SigningKeys(v),
           NEW o \in Offences, o.val = v, o.key = k, o.at = now, minHeight <= now
    PROVE  OffenceInv(o)
  <1>1. /\ now \in Nat /\ UpdateDelay \in Nat /\ UnbondingPeriod \in Nat
        /\ UpdateDelay < UnbondingPeriod /\ None \notin Keys /\ Vals \subseteq Keys
    BY KeysAssumption, EquivocationAssumption DEF TypeOK, Times
  <1>2. StillBound(o)
    BY DEF CanSign, StillBound
  <1>3. byAddr[v] \in {None, v}
    BY <1>2 DEF KeysInv, IsConsumerActive, StillBound
  <1>4. TiedTo(o)
    <2>1. CASE k = v
      BY <1>3, <2>1 DEF TiedTo
    <2>2. CASE k # v /\ k = EffectiveKey(v)
      BY <2>2 DEF TiedTo, EffectiveKey
    <2>3. CASE /\ k \in Keys /\ replaced[k] # None /\ replaced[k].val = v
               /\ now <= replaced[k].at + UpdateDelay
      <3> DEFINE e == [time |-> replaced[k].at + UnbondingPeriod, key |-> k]
      <3>1. replaced[k].at \in Nat
        BY <2>3 DEF TypeOK, Times
      <3>2. now < replaced[k].at + UnbondingPeriod
        BY <1>1, <2>3, <3>1
      <3>3. byAddr[k] = v /\ e \in toPrune
        BY <2>3, <3>2 DEF KeysInv
      <3>4. e.key = k /\ e.time + UpdateDelay >= now + UnbondingPeriod
        BY <1>1, <2>3, <3>1
      <3> QED BY <3>3, <3>4 DEF TiedTo
    <2> QED BY <2>1, <2>2, <2>3 DEF SigningKeys
  <1> QED BY <1>1, <1>2, <1>4 DEF OffenceInv

\* Every step keeps what is known of all offences.
LEMMA OffencesInductive ==
    TypeOK /\ EquivocationTypeOK /\ KeysInv /\ OffencesInv
        /\ [EquivocationNext]_equivocationVars => OffencesInv'
  <1> SUFFICES ASSUME TypeOK, EquivocationTypeOK, KeysInv, OffencesInv,
                      [EquivocationNext]_equivocationVars
               PROVE  OffencesInv'
    OBVIOUS
  <1>1. minHeight' <= now'
    <2>1. minHeight \in Nat /\ now \in Nat /\ minHeight <= now
      BY KeysAssumption DEF OffencesInv, EquivocationTypeOK, TypeOK, Times
    <2>2. now' \in Nat /\ now' >= now
      BY TimeNeverGoesBack
    <2>3. minHeight' = minHeight \/ minHeight' = 0 \/ (minHeight' \in 0..now /\ now' = now)
      BY DEF EquivocationNext, equivocationVars, KeyStep, LaunchStep, DeleteStep, BlockStep,
             BeginUnbonding, Rebond, DoubleSign, StandaloneDoubleSign, Launch,
             HandleConsumerDoubleVoting, HandleConsumerMisbehaviour, Punish
    <2> QED BY <2>1, <2>2, <2>3
  <1>2. SUFFICES ASSUME phase' # "DELETED", NEW o \in offences', o.val # None
                 PROVE  OffenceInv(o)'
    BY <1>1 DEF OffencesInv
  <1>3. phase # "DELETED"
    BY <1>2 DEF EquivocationNext, KeyStep, LaunchStep, DeleteStep, BlockStep, BeginUnbonding, Rebond, DoubleSign,
           StandaloneDoubleSign, HandleConsumerDoubleVoting, HandleConsumerMisbehaviour,
           Punish, vars, equivocationVars, AssignConsumerKey, CreateValidator,
           RemoveValidator, EndBlock, Launch, Stop, Delete
  <1>4. CASE o \in offences
    <2>1. o \in Offences /\ OffenceInv(o)
      BY <1>3, <1>4, <1>2 DEF OffencesInv, EquivocationTypeOK
    <2>2. CASE EquivocationNext
      BY <1>3, <1>2, <2>1, <2>2, OffenceKept
    <2>3. CASE UNCHANGED equivocationVars
      BY <2>1, <2>3 DEF equivocationVars, vars, OffenceInv, InTime, StillBound, TiedTo
    <2> QED BY <2>2, <2>3
  <1>5. CASE o \notin offences
    <2>1. \/ \E S \in SUBSET Vals : DoubleSign(S)
          \/ \E k \in Keys : StandaloneDoubleSign(k)
      BY <1>5, <1>2 DEF EquivocationNext, equivocationVars, KeyStep, LaunchStep, DeleteStep, BlockStep, BeginUnbonding,
                  Rebond, HandleConsumerDoubleVoting, HandleConsumerMisbehaviour, Punish
    <2>2. PICK S \in SUBSET Vals : DoubleSign(S)
      BY <1>2, <2>1 DEF StandaloneDoubleSign
    <2>3. phase = "LAUNCHED" /\ (\A v \in S : CanSign(v)) /\ UNCHANGED <<vars, left, minHeight>>
      BY <2>2 DEF DoubleSign
    <2>4. PICK signedWith \in [S -> Keys] :
            /\ \A v \in S : signedWith[v] \in SigningKeys(v)
            /\ offences' = {[key |-> signedWith[v], val |-> v, at |-> now] : v \in S}
      BY <2>2 DEF DoubleSign
    <2>5. PICK v \in S : o = [key |-> signedWith[v], val |-> v, at |-> now]
      BY <1>2, <2>4
    <2>6. o \in Offences
      BY <1>2, EquivocationTypes DEF EquivocationTypeOK
    <2>7. OffenceInv(o)
      BY <2>3, <2>4, <2>5, <2>6, OffenceSigned DEF OffencesInv
    <2> QED BY <2>3, <2>7 DEF vars, OffenceInv, InTime, StillBound, TiedTo
  <1> QED BY <1>4, <1>5

\* The types, the account of slashes and what is known of offences hold in every
\* reachable state.
THEOREM OffencesInvariant ==
    EquivocationSpec => [](EquivocationTypeOK /\ TombstonedInv /\ OffencesInv)
  <1>1. EquivocationInit => EquivocationTypeOK /\ TombstonedInv /\ OffencesInv
    <2>1. EquivocationInit => minHeight \in Times /\ minHeight <= now
      BY KeysAssumption DEF EquivocationInit, Init, Times
    <2> QED BY <2>1 DEF EquivocationInit, EquivocationTypeOK, TombstonedInv, OffencesInv
  <1>2. TypeOK /\ KeysInv /\ EquivocationTypeOK /\ TombstonedInv /\ OffencesInv
            /\ [EquivocationNext]_equivocationVars
        => (EquivocationTypeOK /\ TombstonedInv /\ OffencesInv)'
    BY EquivocationTypes, TombstonedInductive, OffencesInductive
  <1> QED BY <1>1, <1>2, EquivocationKeys, PTL DEF EquivocationSpec

\* What is known of offences is enough to act on evidence that comes in time.
LEMMA OffencesPunishable ==
    TypeOK /\ KeysInv /\ EquivocationTypeOK /\ OffencesInv => OffenderPunishable
  <1> SUFFICES ASSUME TypeOK, KeysInv, EquivocationTypeOK, OffencesInv, phase # "DELETED",
                      NEW o \in offences, o.val # None, InTime(o)
               PROVE  /\ minHeight <= o.at
                      /\ GetProviderAddrFromConsumerAddr(o.key) = o.val
                      /\ o.val \in tombstoned \/ Punishable(o.val)
    BY DEF OffenderPunishable
  <1>1. minHeight <= o.at /\ o \in Offences /\ o.val \in Vals /\ StillBound(o) /\ TiedTo(o)
    BY DEF OffencesInv, OffenceInv, EquivocationTypeOK
  <1>2. o.val \in validators /\ ~IsUnbonded(o.val)
    BY <1>1, BoundNotUnbonded DEF StillBound
  <1> QED BY <1>1, <1>2, TiedAttributed DEF Punishable

\* Evidence that comes in time finds the one that signed, who can still be
\* slashed, and nobody is slashed twice, however keys are replaced, pruned and
\* reused and validators come and go (HandleConsumerDoubleVoting,
\* HandleConsumerMisbehaviour).
THEOREM EvidenceCorrect == EquivocationSpec => []EvidenceInv
  <1>1. EquivocationTypeOK /\ TombstonedInv => SlashedOnce
    <2> SUFFICES ASSUME EquivocationTypeOK, TombstonedInv, Tombstone, NEW v \in Vals
                 PROVE  slashes[v] <= 1
      BY DEF SlashedOnce
    <2>1. slashes[v] \in Nat /\ slashes[v] <= IF v \in tombstoned THEN 1 ELSE 0
      BY DEF EquivocationTypeOK, TombstonedInv
    <2> QED BY <2>1
  <1>2. TypeOK /\ KeysInv /\ EquivocationTypeOK /\ TombstonedInv /\ OffencesInv => EvidenceInv
    BY <1>1, OffencesPunishable DEF EvidenceInv
  <1> QED BY <1>2, OffencesInvariant, EquivocationKeys, PTL

\* A validator is slashed for what it signed itself on the consumer, unless the
\* evidence is late, or for what the chain's own validators signed with its key at
\* or above the minimum height, never for what they signed below it
\* (HandleConsumerDoubleVoting, HandleConsumerMisbehaviour).
THEOREM OffendersOnly == EquivocationSpec => OnlyOffendersPunished
  <1> DEFINE HeldAgainst(o, v) ==
                /\ minHeight <= o.at
                /\ \/ o.val = v
                   \/ o.val = None /\ GetProviderAddrFromConsumerAddr(o.key) = v
                   \/ o.val # None /\ ~InTime(o)
  <1>1. ASSUME OffenderPunishable, [EquivocationNext]_equivocationVars
        PROVE  [\A v \in Vals : slashes'[v] # slashes[v] =>
                  \E o \in offences : HeldAgainst(o, v)]_equivocationVars
    <2> SUFFICES ASSUME EquivocationNext, NEW v \in Vals, slashes'[v] # slashes[v]
                 PROVE  \E o \in offences : HeldAgainst(o, v)
      BY <1>1
    <2>1. PICK S : /\ HasClient /\ Punish(S)
                   /\ \A u \in S : \E o \in offences :
                         minHeight <= o.at /\ u = GetProviderAddrFromConsumerAddr(o.key)
      BY EvidencePunishes
    <2>2. v \in S
      BY <2>1 DEF Punish
    <2>3. PICK o \in offences : /\ minHeight <= o.at
                                /\ v = GetProviderAddrFromConsumerAddr(o.key)
      BY <2>1, <2>2
    <2>4. o.val # None /\ InTime(o) => o.val = v
      BY <1>1, <2>1, <2>3 DEF OffenderPunishable, HasClient
    <2> QED BY <2>3, <2>4
  <1>2. EvidenceInv => OffenderPunishable
    BY DEF EvidenceInv
  <1> QED BY <1>1, <1>2, EvidenceCorrect, PTL DEF EquivocationSpec, OnlyOffendersPunished
=============================================================================
