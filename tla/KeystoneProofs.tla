---------------------------- MODULE KeystoneProofs ----------------------------
(***************************************************************************)
(* What keystone keeps for itself and for its clients.  KeystoneKeys: its  *)
(* types; that the units agree on the keys when all hooks have run; that   *)
(* no rotation cuts off a token.  ServiceAccounts: its types; that no      *)
(* rotation cuts off a client; that who has asked is served.  IdentityOps: *)
(* its types; where rotations and other events do not fall into an open    *)
(* exchange (~ Overlap), that the configured credentials are always those  *)
(* of an account of keystone; and, wherever they fall, that no user that   *)
(* has been replaced is forgotten before it is deleted.                    *)
(***************************************************************************)
EXTENDS KeystoneKeys, ServiceAccounts, IdentityOps, FiniteSetTheorems, TLAPS

-----------------------------------------------------------------------------
(* Repositories.                                                           *)

\* A repository whose keys are among the n first, and whose files are fewer.
Bounded(r, n) == /\ r \in [DOMAIN r -> 1 .. n]
                 /\ DOMAIN r \subseteq 0 .. n - 1

LEMMA NoKeysBounded == \A n \in Nat : Bounded(NoKeys, n)
BY DEF NoKeys, Bounded

\* A finite set of numbers has a greatest one: the one above which least are.
LEMMA Greatest ==
    ASSUME NEW b \in Nat, NEW S \in SUBSET (0 .. b), S # {}
    PROVE  \E m \in S : \A s \in S : s <= m
<1> DEFINE Above(m) == {s \in S : m < s}
           T == {Above(m) : m \in S}
<1>1. IsFiniteSet(S)
  <2>1. IsFiniteSet(0 .. b)
    BY 0 \in Int, b \in Int, FS_Interval
  <2> QED
    BY <2>1, FS_Subset
<1>2. IsWellFoundedOn(StrictSubsetOrdering(S), SUBSET S)
  BY <1>1, FS_StrictSubsetOrderingWellFounded, FS_FiniteSubsetsOfFinite
<1>3. T \subseteq SUBSET S /\ T # {}
  OBVIOUS
<1>4. PICK A \in T : \A B \in T : <<B, A>> \notin StrictSubsetOrdering(S)
  <2> HIDE DEF T
  <2> QED
    BY <1>2, <1>3, WFMin
<1>5. PICK m \in S : A = Above(m)
  BY <1>4
<1>6. ASSUME NEW s \in S, m < s PROVE FALSE
  <2>0. Above(s) \in T
    OBVIOUS
  <2>1. Above(s) \subseteq Above(m)
    <3>1. ASSUME NEW t \in S, s < t PROVE m < t
      <4>1. s \in Int /\ t \in Int /\ m \in Int
        OBVIOUS
      <4> QED
        BY <1>6, <3>1, <4>1
    <3> QED
      BY <3>1
  <2>2. s \in Above(m) /\ s \notin Above(s)
    BY <1>6
  <2>3. <<Above(s), Above(m)>> \in StrictSubsetOrdering(S)
    <3>1. Above(s) \in SUBSET S /\ Above(m) \in SUBSET S /\ Above(s) # Above(m)
      BY <2>2
    <3> HIDE DEF Above
    <3> QED
      BY <2>1, <3>1 DEF StrictSubsetOrdering
  <2> QED
    BY <1>4, <1>5, <2>0, <2>3
<1> QED
  BY <1>6

\* A repository without files is the empty one.
LEMMA EmptyRepository ==
    ASSUME NEW n \in Nat, NEW r, Bounded(r, n), DOMAIN r = {}
    PROVE  r = NoKeys
<1>1. r = [f \in {} |-> r[f]]
  BY DEF Bounded
<1>2. NoKeys = [f \in {} |-> r[f]]
  BY DEF NoKeys
<1> QED
  BY <1>1, <1>2

LEMMA HighestFile ==
    ASSUME NEW n \in Nat, NEW r, Bounded(r, n), r # NoKeys
    PROVE  /\ Highest(r) \in DOMAIN r
           /\ \A g \in DOMAIN r : g <= Highest(r)
           /\ Highest(r) \in 0 .. n - 1
<1>1. DOMAIN r # {}
  BY EmptyRepository
<1>2. DOMAIN r \in SUBSET (0 .. n)
  BY DEF Bounded
<1>3. \E m \in DOMAIN r : \A g \in DOMAIN r : g <= m
  BY <1>1, <1>2, Greatest
<1> QED
  BY <1>3 DEF Highest, Bounded

\* A repository that was set up has a staged key.
Whole(r, n) == Bounded(r, n) /\ (r # NoKeys => 0 \in DOMAIN r)

LEMMA WholeGrows ==
    ASSUME NEW n \in Nat, NEW m \in Nat, n <= m, NEW r, Whole(r, n)
    PROVE  Whole(r, m)
<1>1. r \in [DOMAIN r -> 1 .. m]
  <2>1. 1 .. n \subseteq 1 .. m
    OBVIOUS
  <2> QED
    BY <2>1 DEF Whole, Bounded
<1>2. DOMAIN r \subseteq 0 .. m - 1
  BY DEF Whole, Bounded
<1> QED
  BY <1>1, <1>2 DEF Whole, Bounded

LEMMA SetUpWhole ==
    ASSUME minted \in Nat, NEW r, Whole(r, minted)
    PROVE  Whole(SetUp(r), minted + MintedBySetUp(r)) /\ SetUp(r) # NoKeys
<1>1. CASE r # NoKeys
  BY <1>1 DEF SetUp, MintedBySetUp
<1>2. CASE r = NoKeys
  <2> DEFINE new == [f \in 0 .. 1 |-> minted + 1 + f]
  <2>1. SetUp(r) = new /\ MintedBySetUp(r) = 2
    BY <1>2 DEF SetUp, MintedBySetUp
  <2>2. DOMAIN new = 0 .. 1 /\ 0 \in DOMAIN new
    OBVIOUS
  <2>3. new \in [DOMAIN new -> 1 .. minted + 2]
    OBVIOUS
  <2>4. DOMAIN new \subseteq 0 .. (minted + 2) - 1
    OBVIOUS
  <2>5. DOMAIN NoKeys = {}
    BY DEF NoKeys
  <2> HIDE DEF new
  <2> QED
    BY <2>1, <2>2, <2>3, <2>4, <2>5 DEF Whole, Bounded
<1> QED
  BY <1>1, <1>2

\* Rotation stages a key, keeps the one that signed and makes the staged one
\* sign.
LEMMA RotatedWhole ==
    ASSUME minted \in Nat, NEW r, Whole(r, minted), r # NoKeys
    PROVE  /\ Whole(Rotated(r), minted + 1) /\ Rotated(r) # NoKeys
           /\ Primary(r) \in Range(Rotated(r))
           /\ Primary(Rotated(r)) \in Range(r)
<1> DEFINE h == Highest(r)
           files == DOMAIN r \cup {h + 1}
           kept == {f \in files : f = 0 \/ f > h + 2 - MaxActive}
           new == [f \in kept |-> IF f = 0 THEN minted + 1
                                  ELSE IF f = h + 1 THEN r[0] ELSE r[f]]
<1>0. Rotated(r) = new
  BY DEF Rotated
<1>1. /\ h \in DOMAIN r /\ h \in 0 .. minted - 1
      /\ \A g \in DOMAIN r : g <= h
      /\ DOMAIN r \subseteq 0 .. minted - 1 /\ 0 \in DOMAIN r
      /\ \A f \in DOMAIN r : r[f] \in 1 .. minted
  BY HighestFile DEF Whole, Bounded
<1> HIDE DEF h
<1>2. MaxActive \in Nat /\ MaxActive >= 3
  BY KeysAssumption
<1>3. h + 1 \in kept /\ h \in kept /\ 0 \in kept
  BY <1>1, <1>2
<1>4. kept \subseteq 0 .. minted
  BY <1>1
<1>5. \A f \in kept : f = 0 \/ f = h + 1 \/ f \in DOMAIN r
  OBVIOUS
<1>6. \A f \in kept : f <= h + 1
  BY <1>1
<1> HIDE DEF kept
<1>7. DOMAIN new = kept /\ new[h + 1] = r[0] /\ (h # 0 => new[h] = r[h])
  BY <1>1, <1>3
<1>8. \A f \in kept : new[f] \in 1 .. minted + 1
  <2> SUFFICES ASSUME NEW f \in kept PROVE new[f] \in 1 .. minted + 1
    OBVIOUS
  <2>1. CASE f = 0
    BY <2>1
  <2>2. CASE f = h + 1 /\ f # 0
    BY <1>1, <2>2
  <2>3. CASE f \in DOMAIN r /\ f # h + 1 /\ f # 0
    BY <1>1, <2>3
  <2> QED
    BY <1>5, <2>1, <2>2, <2>3
<1>9. new \in [kept -> 1 .. minted + 1]
  <2>1. new = [f \in kept |-> new[f]]
    OBVIOUS
  <2> HIDE DEF new
  <2> QED
    BY <1>8, <2>1
<1> HIDE DEF new
<1>10. Whole(new, minted + 1) /\ new # NoKeys
  <2>1. DOMAIN NoKeys = {}
    BY DEF NoKeys
  <2>2. kept \subseteq 0 .. (minted + 1) - 1
    BY <1>4
  <2> QED
    BY <1>3, <1>7, <1>9, <2>1, <2>2 DEF Whole, Bounded
<1>11. r[h] \in Range(new)
  <2>1. CASE h # 0
    BY <1>3, <1>7, <2>1 DEF Range
  <2>2. CASE h = 0
    BY <1>3, <1>7, <2>2 DEF Range
  <2> QED
    BY <2>1, <2>2
<1>12. Highest(new) = h + 1
  <2>1. /\ Highest(new) \in kept
        /\ \A g \in kept : g <= Highest(new)
    BY <1>7, <1>10, HighestFile DEF Whole
  <2>2. h + 1 <= Highest(new) /\ Highest(new) <= h + 1
    BY <1>3, <1>6, <2>1
  <2>3. Highest(new) \in Int /\ h \in Int
    <3>1. kept \subseteq Int
      BY <1>4
    <3>2. h \in Int
      BY <1>1
    <3> QED
      BY <2>1, <3>1, <3>2
  <2> QED
    BY <2>2, <2>3
<1>13. Primary(new) \in Range(r)
  BY <1>1, <1>7, <1>12 DEF Primary, Range
<1> QED
  BY <1>0, <1>10, <1>11, <1>13 DEF Primary, h

-----------------------------------------------------------------------------
(* Steps.                                                                  *)

Shape ==
    /\ kleader \in KUnits
    /\ labelled \subseteq KUnits
    /\ kready \in BOOLEAN
    /\ khooks \in [KUnits -> SUBSET {"configure", "rotate"}]
    /\ minted \in 0 .. MaxKeys
    /\ kfaults \in 0 .. MaxKFaults
    /\ disk \in [KUnits -> Range(disk)]

LEMMA DiskShape ==
    ASSUME Shape, NEW u \in KUnits, NEW r, disk' = [disk EXCEPT ![u] = r]
    PROVE  /\ disk' \in [KUnits -> Range(disk)']
           /\ \A v \in KUnits : disk'[v] = IF v = u THEN r ELSE disk[v]
<1>1. disk' = [v \in KUnits |-> IF v = u THEN r ELSE disk[v]]
  BY DEF Shape
<1>2. disk' = [v \in KUnits |-> disk'[v]] /\ DOMAIN disk' = KUnits
  BY <1>1
<1>3. \A v \in KUnits : disk'[v] \in Range(disk')
  BY <1>2 DEF Range
<1> QED
  BY <1>1, <1>2, <1>3

\* The hooks a step leaves: a rotation is due only when none was.
LEMMA HookDoneShape ==
    ASSUME Shape, NEW u \in KUnits, NEW e, NEW wakes \in BOOLEAN, HookDone(u, e, wakes)
    PROVE  /\ khooks' \in [KUnits -> SUBSET {"configure", "rotate"}]
           /\ khooks'[u] = khooks[u] \ {e}
           /\ \A v \in KUnits \ {u} :
                 /\ khooks[v] \subseteq khooks'[v]
                 /\ khooks'[v] \subseteq khooks[v] \cup {"configure"}
                 /\ wakes => "configure" \in khooks'[v]
BY DEF HookDone, Shape

\* The repositories in a step, if no hook dies in it.
AtRest == UNCHANGED <<disk, published, minted>>
Copies(u) == /\ disk' = [disk EXCEPT ![u] = NewerKeys(u)]
             /\ UNCHANGED <<published, minted>>
Boots(u) == /\ disk' = [disk EXCEPT ![u] = SetUp(NewerKeys(u))]
            /\ published' = SetUp(NewerKeys(u))
            /\ minted' = minted + MintedBySetUp(NewerKeys(u))
Rotates(u) == /\ "rotate" \in khooks[u] /\ Serves(u)
              /\ disk' = [disk EXCEPT ![u] = Rotated(disk[u])]
              /\ minted' = minted + 1
              /\ \/ published' = disk'[u] /\ HookDone(u, "rotate", TRUE)
                 \/ UNCHANGED published /\ "lease" \in kplan

LEMMA ConfigureSteps ==
    ASSUME Shape, "kill" \notin kplan, NEW u \in KUnits, KConfigure(u)
    PROVE  AtRest \/ Copies(u) \/ Boots(u)
<1>1. CASE ConfigureWaits(u)
  BY <1>1 DEF ConfigureWaits, AtRest
<1>2. CASE ConfigureUnit(u)
  BY <1>2 DEF ConfigureUnit, Copies
<1>3. CASE ConfigureLeader(u)
  <2>1. CASE u \in labelled
    <3>1. disk' = [disk EXCEPT ![u] = NewerKeys(u)] /\ UNCHANGED published
      BY <1>3, <2>1 DEF ConfigureLeader, KFault
    <3>2. minted' = minted + 0
      BY <1>3, <2>1 DEF ConfigureLeader
    <3> QED
      BY <3>1, <3>2 DEF Copies, Shape
  <2>2. CASE u \notin labelled
    <3>1. disk' = [disk EXCEPT ![u] = SetUp(NewerKeys(u))]
      BY <1>3, <2>2 DEF ConfigureLeader
    <3>2. published' = SetUp(NewerKeys(u))
      BY <1>3, <2>2 DEF ConfigureLeader, KFault
    <3>3. minted' = minted + MintedBySetUp(NewerKeys(u))
      BY <1>3, <2>2 DEF ConfigureLeader
    <3> QED
      BY <3>1, <3>2, <3>3 DEF Boots
  <2> QED
    BY <2>1, <2>2
<1>4. CASE ConfigureDies(u)
  BY <1>4 DEF ConfigureDies, KFault
<1> QED
  BY <1>1, <1>2, <1>3, <1>4 DEF KConfigure

LEMMA KeysSteps ==
    ASSUME Shape, "kill" \notin kplan, KeysNext
    PROVE  \/ AtRest
           \/ \E u \in KUnits : Copies(u) \/ Boots(u) \/ Rotates(u)
<1>1. ASSUME NEW u \in KUnits, KRotate(u) PROVE AtRest \/ Rotates(u)
  BY <1>1 DEF KRotate, KFault, AtRest, Rotates
<1>2. ASSUME NEW u \in KUnits, KElect(u) \/ KEvent(u) PROVE AtRest
  BY <1>2 DEF KElect, KEvent, AtRest
<1>3. ASSUME RotationDue PROVE AtRest
  BY <1>3 DEF RotationDue, AtRest
<1> QED
  BY <1>1, <1>2, <1>3, ConfigureSteps DEF KeysNext

LEMMA ShapeStep == Shape /\ [KeysNext]_keysVars => Shape' /\ kplan' = kplan
<1> SUFFICES ASSUME Shape, [KeysNext]_keysVars PROVE Shape' /\ kplan' = kplan
  OBVIOUS
<1> USE KeysAssumption
<1>1. CASE UNCHANGED keysVars
  BY <1>1 DEF keysVars, Shape
<1>2. ASSUME NEW k, KFault(k) PROVE kfaults' \in 0 .. MaxKFaults
  BY <1>2 DEF KFault, Shape
<1>3. ASSUME NEW u \in KUnits, KConfigure(u) PROVE Shape' /\ kplan' = kplan
  <2>1. kplan' = kplan /\ kleader' = kleader
    BY <1>3 DEF KConfigure
  <2>2. labelled' \subseteq KUnits /\ kready' \in BOOLEAN
    BY <1>3 DEF KConfigure, ConfigureWaits, ConfigureUnit, ConfigureLeader, ConfigureDies,
                Shape
  <2>3. kfaults' \in 0 .. MaxKFaults
    BY <1>2, <1>3 DEF KConfigure, ConfigureWaits, ConfigureUnit, ConfigureLeader,
                      ConfigureDies, Shape
  <2>4. \/ UNCHANGED disk
        \/ \E r : disk' = [disk EXCEPT ![u] = r]
    BY <1>3 DEF KConfigure, ConfigureWaits, ConfigureUnit, ConfigureLeader, ConfigureDies
  <2>5. disk' \in [KUnits -> Range(disk)']
    BY <2>4, DiskShape DEF Shape
  <2>6. khooks' \in [KUnits -> SUBSET {"configure", "rotate"}]
    <3>1. UNCHANGED khooks \/ \E w \in BOOLEAN : HookDone(u, "configure", w)
      BY <1>3 DEF KConfigure, ConfigureWaits, ConfigureUnit, ConfigureLeader, ConfigureDies
    <3> QED
      BY <3>1, HookDoneShape DEF Shape
  <2>7. minted' \in 0 .. MaxKeys
    <3>1. \/ minted' = minted
          \/ minted + 2 <= MaxKeys /\ \E r : minted' = minted + MintedBySetUp(r)
          \/ minted' = minted + 0
      BY <1>3 DEF KConfigure, ConfigureWaits, ConfigureUnit, ConfigureLeader, ConfigureDies
    <3>2. \A r : MintedBySetUp(r) \in {0, 2}
      BY DEF MintedBySetUp
    <3> QED
      BY <3>1, <3>2 DEF Shape
  <2> QED
    BY <2>1, <2>2, <2>3, <2>5, <2>6, <2>7 DEF Shape
<1>4. ASSUME NEW u \in KUnits, KRotate(u) PROVE Shape' /\ kplan' = kplan
  <2>1. UNCHANGED disk \/ \E r : disk' = [disk EXCEPT ![u] = r]
    BY <1>4 DEF KRotate
  <2>2. disk' \in [KUnits -> Range(disk)']
    BY <2>1, DiskShape DEF Shape
  <2>3. UNCHANGED khooks \/ \E w \in BOOLEAN : HookDone(u, "rotate", w)
    BY <1>4 DEF KRotate
  <2>4. khooks' \in [KUnits -> SUBSET {"configure", "rotate"}]
    BY <2>3, HookDoneShape DEF Shape
  <2>5. kfaults' \in 0 .. MaxKFaults
    BY <1>2, <1>4 DEF KRotate, Shape
  <2>6. kleader' \in KUnits
    BY <1>4 DEF KRotate, Shape
  <2>7. minted' \in 0 .. MaxKeys
    <3>1. minted' = minted \/ (minted < MaxKeys /\ minted' = minted + 1)
      BY <1>4 DEF KRotate
    <3> QED
      BY <3>1 DEF Shape
  <2> QED
    BY <1>4, <2>2, <2>4, <2>5, <2>6, <2>7 DEF KRotate, Shape
<1>5. ASSUME NEW u \in KUnits, KElect(u) \/ KEvent(u) PROVE Shape' /\ kplan' = kplan
  BY <1>2, <1>5 DEF KElect, KEvent, Shape
<1>6. ASSUME RotationDue PROVE Shape' /\ kplan' = kplan
  BY <1>6 DEF RotationDue, Shape
<1> QED
  BY <1>1, <1>3, <1>4, <1>5, <1>6 DEF KeysNext

LEMMA ShapeInit == KeysInit => Shape
<1> SUFFICES ASSUME KeysInit PROVE Shape
  OBVIOUS
<1>1. DOMAIN disk = KUnits /\ disk = [u \in KUnits |-> disk[u]]
  BY DEF KeysInit
<1>2. \A u \in KUnits : disk[u] \in Range(disk)
  BY <1>1 DEF Range
<1>3. disk \in [KUnits -> Range(disk)]
  BY <1>1, <1>2
<1>4. khooks \in [KUnits -> SUBSET {"configure", "rotate"}]
  BY DEF KeysInit
<1>5. minted \in 0 .. MaxKeys /\ kfaults \in 0 .. MaxKFaults
  BY KeysAssumption DEF KeysInit
<1> QED
  BY <1>3, <1>4, <1>5 DEF KeysInit, Shape

-----------------------------------------------------------------------------
(* Types, where no hook dies while it writes keys.                         *)

Repos ==
    "kill" \notin kplan =>
        Whole(published, minted) /\ \A u \in KUnits : Whole(disk[u], minted)

LEMMA NewerWhole ==
    ASSUME Repos, "kill" \notin kplan, NEW u \in KUnits
    PROVE  Whole(NewerKeys(u), minted)
BY DEF Repos, NewerKeys

LEMMA ReposStep == Shape /\ Repos /\ [KeysNext]_keysVars => Repos'
<1> SUFFICES ASSUME Shape, Repos, [KeysNext]_keysVars, ("kill" \notin kplan)'
             PROVE  Whole(published, minted)' /\ \A v \in KUnits : Whole(disk[v], minted)'
  BY DEF Repos
<1>0. "kill" \notin kplan /\ minted \in Nat
  BY ShapeStep, KeysAssumption DEF Shape
<1>1. Whole(published, minted) /\ \A v \in KUnits : Whole(disk[v], minted)
  BY <1>0 DEF Repos
<1>2. CASE UNCHANGED keysVars
  BY <1>1, <1>2 DEF keysVars
<1>3. CASE AtRest
  BY <1>1, <1>3 DEF AtRest
<1>4. ASSUME NEW u \in KUnits, Copies(u)
      PROVE  Whole(published, minted)' /\ \A v \in KUnits : Whole(disk[v], minted)'
  <2>1. \A v \in KUnits : disk'[v] = IF v = u THEN NewerKeys(u) ELSE disk[v]
    BY <1>4, DiskShape DEF Copies
  <2> QED
    BY <1>0, <1>1, <1>4, <2>1, NewerWhole DEF Copies
<1>5. ASSUME NEW u \in KUnits, Boots(u)
      PROVE  Whole(published, minted)' /\ \A v \in KUnits : Whole(disk[v], minted)'
  <2> DEFINE new == SetUp(NewerKeys(u))
  <2>1. \A v \in KUnits : disk'[v] = IF v = u THEN new ELSE disk[v]
    BY <1>5, DiskShape DEF Boots
  <2>2. Whole(new, minted')
    BY <1>0, <1>5, NewerWhole, SetUpWhole DEF Boots
  <2>3. minted' \in Nat /\ minted <= minted'
    BY <1>0, <1>5 DEF Boots, MintedBySetUp
  <2>4. \A v \in KUnits : Whole(disk[v], minted')
    BY <1>0, <1>1, <2>3, WholeGrows
  <2> QED
    BY <1>5, <2>1, <2>2, <2>4 DEF Boots
<1>6. ASSUME NEW u \in KUnits, Rotates(u)
      PROVE  Whole(published, minted)' /\ \A v \in KUnits : Whole(disk[v], minted)'
  <2>1. \A v \in KUnits : disk'[v] = IF v = u THEN Rotated(disk[u]) ELSE disk[v]
    BY <1>6, DiskShape DEF Rotates
  <2>2. Whole(Rotated(disk[u]), minted')
    BY <1>0, <1>1, <1>6, RotatedWhole DEF Rotates, Serves
  <2>3. minted' \in Nat /\ minted <= minted'
    BY <1>0, <1>6 DEF Rotates
  <2>4. Whole(published, minted') /\ \A v \in KUnits : Whole(disk[v], minted')
    BY <1>0, <1>1, <2>3, WholeGrows
  <2> QED
    BY <1>6, <2>1, <2>2, <2>4 DEF Rotates
<1> QED
  BY <1>0, <1>2, <1>3, <1>4, <1>5, <1>6, KeysSteps

LEMMA ReposInit == KeysInit => Repos
<1> SUFFICES ASSUME KeysInit PROVE Repos
  OBVIOUS
<1>1. Whole(NoKeys, minted)
  BY NoKeysBounded DEF KeysInit, Whole
<1> QED
  BY <1>1 DEF KeysInit, Repos

LEMMA ReposAlways == KeysSpec => [](Shape /\ Repos)
<1>1. Shape /\ Repos /\ [KeysNext]_keysVars => (Shape /\ Repos)'
  BY ShapeStep, ReposStep
<1> QED
  BY <1>1, ShapeInit, ReposInit, PTL DEF KeysSpec

\* The types hold in every reachable state, for any units and bounds, where no
\* hook dies while it writes the keys it copies (write_keys).
THEOREM KeysTypeCorrect ==
    ASSUME \A p \in KPlans : "kill" \notin p
    PROVE  KeysSpec => []KeysTypeOK
<1>1. KeysInit => kplan \in KPlans
  BY DEF KeysInit
<1>2. kplan \in KPlans /\ Shape /\ [KeysNext]_keysVars => (kplan \in KPlans)'
  BY ShapeStep
<1>3. kplan \in KPlans /\ Shape /\ Repos => KeysTypeOK
  <2> SUFFICES ASSUME kplan \in KPlans, Shape, Repos PROVE KeysTypeOK
    OBVIOUS
  <2>1. Whole(published, minted) /\ \A u \in KUnits : Whole(disk[u], minted)
    BY DEF Repos
  <2>2. \A r \in Range(disk) : Whole(r, minted)
    BY <2>1 DEF Shape, Range
  <2>3. \A r : Whole(r, minted) => DOMAIN r \subseteq Files /\ Range(r) \subseteq Keys
    <3> SUFFICES ASSUME NEW r, Bounded(r, minted)
                 PROVE  DOMAIN r \subseteq Files /\ Range(r) \subseteq Keys
      BY DEF Whole
    <3>1. 1 .. minted \subseteq Keys /\ 0 .. minted - 1 \subseteq Files
      BY KeysAssumption DEF Shape, Keys, Files
    <3> QED
      BY <3>1 DEF Bounded, Range
  <2> QED
    BY <2>1, <2>2, <2>3 DEF Shape, KeysTypeOK
<1> QED
  BY <1>1, <1>2, <1>3, ReposAlways, PTL DEF KeysSpec

-----------------------------------------------------------------------------
(* The units agree.                                                        *)

\* No lease is lost inside a hook, and hooks die only where the leader stays.
Settling == "lease" \notin kplan /\ ~ {"kill", "elect"} \subseteq kplan

\* A unit without the published keys will configure, or was about to publish
\* those it has.
Behind(v) == \/ "configure" \in khooks[v]
             \/ "kill" \in kplan /\ v = kleader /\ "rotate" \in khooks[v]

Agrees ==
    Settling =>
        /\ published # NoKeys => kready
        /\ \A v \in KUnits : "rotate" \in khooks[v] => kready
        /\ published # NoKeys =>
              \A v \in KUnits : disk[v] = published \/ Behind(v)

LEMMA AgreesConfigure ==
    ASSUME Shape, Agrees, NEW u \in KUnits, KConfigure(u)
    PROVE  Agrees'
<1> SUFFICES ASSUME Settling PROVE Agrees'
  BY DEF KConfigure, Agrees, Settling
<1>0. UNCHANGED <<kleader, kplan>> /\ "configure" \in khooks[u]
  BY DEF KConfigure
<1>1. /\ published # NoKeys => kready
      /\ \A v \in KUnits : "rotate" \in khooks[v] => kready
      /\ published # NoKeys => \A v \in KUnits : disk[v] = published \/ Behind(v)
  BY DEF Agrees
<1>2. CASE ConfigureWaits(u)
  <2>1. /\ \A v \in KUnits : khooks'[v] \subseteq khooks[v] \cup {"configure"}
        /\ UNCHANGED <<disk, published, kready>> /\ ~ kready
    BY <1>2, HookDoneShape DEF ConfigureWaits, Shape
  <2> QED
    BY <1>1, <2>1 DEF Agrees
<1>3. CASE ConfigureUnit(u)
  <2>1. /\ \A v \in KUnits : disk'[v] = IF v = u THEN NewerKeys(u) ELSE disk[v]
        /\ UNCHANGED <<published, kready>> /\ kready
    BY <1>3, DiskShape DEF ConfigureUnit
  <2>2. \A v \in KUnits \ {u} : khooks[v] \subseteq khooks'[v]
    BY <1>3, HookDoneShape DEF ConfigureUnit
  <2> QED
    BY <1>0, <1>1, <2>1, <2>2 DEF Agrees, Behind, NewerKeys
<1>4. CASE ConfigureLeader(u)
  <2> DEFINE keys == IF u \notin labelled THEN SetUp(NewerKeys(u)) ELSE NewerKeys(u)
  <2>1. \A v \in KUnits : disk'[v] = IF v = u THEN keys ELSE disk[v]
    <3>1. disk' = [disk EXCEPT ![u] = keys]
      BY <1>4 DEF ConfigureLeader
    <3> HIDE DEF keys
    <3> QED
      BY <3>1, DiskShape
  <2>2. published # NoKeys => keys = published
    BY DEF NewerKeys, SetUp
  <2>3. CASE /\ HookDone(u, "configure", ~ kready \/ (u \notin labelled /\ published # keys))
             /\ published' = IF u \notin labelled THEN keys ELSE published
             /\ kready' = TRUE
    <3>1. CASE published # NoKeys
      <4>1. published' = published
        BY <2>2, <2>3, <3>1
      <4>2. \A v \in KUnits \ {u} : khooks[v] \subseteq khooks'[v]
        BY <2>3, HookDoneShape DEF Shape
      <4> HIDE DEF keys
      <4> QED
        BY <1>0, <1>1, <2>1, <2>2, <2>3, <3>1, <4>1, <4>2 DEF Agrees, Behind
    <3>2. CASE published = NoKeys /\ published' # NoKeys
      <4>1. u \notin labelled /\ published' = keys /\ published # keys
        BY <2>3, <3>2
      <4>2. \A v \in KUnits \ {u} : "configure" \in khooks'[v]
        BY <2>3, <4>1, HookDoneShape DEF Shape
      <4> HIDE DEF keys
      <4> QED
        BY <2>1, <2>3, <4>1, <4>2 DEF Agrees, Behind
    <3>3. CASE published' = NoKeys
      BY <2>3, <3>3 DEF Agrees
    <3> QED
      BY <3>1, <3>2, <3>3
  <2>4. CASE UNCHANGED <<published, kready, khooks>>
    <3> HIDE DEF keys
    <3> QED
      BY <1>0, <1>1, <2>1, <2>2, <2>4 DEF Agrees, Behind
  <2> QED
    BY <1>4, <2>3, <2>4 DEF ConfigureLeader
<1>5. CASE ConfigureDies(u)
  <2>1. PICK r : disk' = [disk EXCEPT ![u] = r]
    BY <1>5 DEF ConfigureDies
  <2>2. \A v \in KUnits : disk'[v] = IF v = u THEN r ELSE disk[v]
    BY <2>1, DiskShape
  <2>3. UNCHANGED <<published, kready, khooks>>
    BY <1>5 DEF ConfigureDies
  <2> QED
    BY <1>0, <1>1, <2>2, <2>3 DEF Agrees, Behind
<1> QED
  BY <1>2, <1>3, <1>4, <1>5 DEF KConfigure

LEMMA AgreesRotate ==
    ASSUME Shape, Agrees, NEW u \in KUnits, KRotate(u)
    PROVE  Agrees'
<1> SUFFICES ASSUME Settling PROVE Agrees'
  BY DEF KRotate, Agrees, Settling
<1>0. UNCHANGED <<kready, kplan>> /\ "rotate" \in khooks[u] /\ "lease" \notin kplan
  BY DEF KRotate, Settling
<1>1. /\ published # NoKeys => kready
      /\ \A v \in KUnits : "rotate" \in khooks[v] => kready
      /\ published # NoKeys => \A v \in KUnits : disk[v] = published \/ Behind(v)
  BY DEF Agrees
<1>2. kready
  BY <1>0, <1>1
<1>3. CASE /\ u # kleader
           /\ HookDone(u, "rotate", FALSE)
           /\ UNCHANGED <<kleader, disk, published>>
  <2>1. \A v \in KUnits \ {u} : khooks[v] \subseteq khooks'[v]
    BY <1>3, HookDoneShape
  <2>2. "configure" \in khooks[u] => "configure" \in khooks'[u]
    <3>1. khooks'[u] = khooks[u] \ {"rotate"}
      BY <1>3, HookDoneShape
    <3> QED
      BY <3>1
  <2> QED
    BY <1>0, <1>1, <1>2, <1>3, <2>1, <2>2 DEF Agrees, Behind
<1>4. CASE /\ disk' = [disk EXCEPT ![u] = Rotated(disk[u])]
           /\ published' = disk'[u]
           /\ HookDone(u, "rotate", TRUE)
           /\ UNCHANGED kleader
  <2>1. \A v \in KUnits \ {u} : "configure" \in khooks'[v]
    BY <1>4, HookDoneShape
  <2> QED
    BY <1>0, <1>2, <1>4, <2>1 DEF Agrees, Behind
<1>5. CASE /\ u = kleader /\ disk' = [disk EXCEPT ![u] = Rotated(disk[u])]
           /\ "kill" \in kplan
           /\ UNCHANGED <<kleader, published, khooks>>
  <2>1. \A v \in KUnits \ {u} : disk'[v] = disk[v]
    BY <1>5, DiskShape
  <2> QED
    BY <1>0, <1>1, <1>2, <1>5, <2>1 DEF Agrees, Behind
<1> QED
  BY <1>0, <1>3, <1>4, <1>5 DEF KRotate, KFault

LEMMA AgreesJuju ==
    ASSUME Shape, Agrees, NEW u \in KUnits, KElect(u) \/ KEvent(u) \/ RotationDue
    PROVE  Agrees'
<1> SUFFICES ASSUME Settling PROVE Agrees'
  BY DEF KElect, KEvent, RotationDue, Agrees, Settling
<1>0. UNCHANGED <<disk, published, kready, kplan>>
  BY DEF KElect, KEvent, RotationDue
<1>1. /\ published # NoKeys => kready
      /\ \A v \in KUnits : "rotate" \in khooks[v] => kready
      /\ published # NoKeys => \A v \in KUnits : disk[v] = published \/ Behind(v)
  BY DEF Agrees
<1>2. CASE KElect(u)
  <2>1. "kill" \notin kplan /\ UNCHANGED khooks
    BY <1>2 DEF KElect, KFault, Settling
  <2> QED
    BY <1>0, <1>1, <2>1 DEF Agrees, Behind
<1>3. CASE KEvent(u)
  <2>1. \A v \in KUnits : /\ khooks[v] \subseteq khooks'[v]
                          /\ khooks'[v] \subseteq khooks[v] \cup {"configure"}
    BY <1>3 DEF KEvent, Shape
  <2>2. UNCHANGED kleader
    BY <1>3 DEF KEvent
  <2> QED
    BY <1>0, <1>1, <2>1, <2>2 DEF Agrees, Behind
<1>4. CASE RotationDue
  <2>1. \A v \in KUnits : khooks[v] \subseteq khooks'[v]
    BY <1>4 DEF RotationDue, Shape
  <2>2. UNCHANGED kleader /\ kready
    BY <1>1, <1>4 DEF RotationDue
  <2> QED
    BY <1>0, <1>1, <2>1, <2>2 DEF Agrees, Behind
<1> QED
  BY <1>2, <1>3, <1>4

LEMMA AgreesAlways == KeysSpec => []Agrees
<1>1. KeysInit => Agrees
  BY DEF KeysInit, Agrees
<1>2. Shape /\ Agrees /\ [KeysNext]_keysVars => Agrees'
  <2> SUFFICES ASSUME Shape, Agrees, [KeysNext]_keysVars PROVE Agrees'
    OBVIOUS
  <2>1. CASE UNCHANGED keysVars
    BY <2>1 DEF keysVars, Agrees, Settling, Behind
  <2>2. KUnits # {}
    BY KeysAssumption
  <2> QED
    BY <2>1, <2>2, AgreesConfigure, AgreesRotate, AgreesJuju DEF KeysNext
<1> QED
  BY <1>1, <1>2, ReposAlways, PTL DEF KeysSpec

\* Once all hooks have run, every unit has the published keys (update_fernet_keys
\* and write_keys), for any number of units, rotations and hooks that die, as
\* long as the leader of a hook that dies stays.
THEOREM KeysAgreeHolds == KeysSpec => []KeysAgree
<1>1. Agrees => KeysAgree
  <2> SUFFICES ASSUME Agrees, Settling, published # NoKeys,
                      \A u \in KUnits : khooks[u] = {},
                      NEW u \in KUnits
               PROVE  disk[u] = published
    BY DEF KeysAgree, Settling
  <2> QED
    BY DEF Agrees, Behind
<1> QED
  BY <1>1, AgreesAlways, PTL

-----------------------------------------------------------------------------
(* Tokens.                                                                 *)

\* Hooks end, leases hold in them, and rotations are far apart.
Calm == kplan \cap {"kill", "lease", "overlap"} = {}

\* What one of two repositories signs, the other verifies.
Fits(r, s) == Primary(r) \in Range(s) /\ Primary(s) \in Range(r)

\* Every unit is at most one rotation behind the secret, and at none when the
\* next one waits.
Tokens ==
    Calm =>
        /\ \A u \in KUnits : Serves(u) => Fits(disk[u], published)
        /\ \A u, v \in KUnits : Serves(u) /\ Serves(v) => Fits(disk[u], disk[v])
        /\ \A u \in KUnits : Serves(u) => published # NoKeys
        /\ \A w \in KUnits : "rotate" \in khooks[w] =>
              /\ \A u \in KUnits : disk[u] \in {NoKeys, published}
              /\ \A v \in KUnits : "rotate" \in khooks[v] => v = w

\* A repository verifies what it signs.
LEMMA FitsItself ==
    ASSUME NEW n \in Nat, NEW r, Whole(r, n), r # NoKeys
    PROVE  Fits(r, r)
BY HighestFile DEF Whole, Fits, Primary, Range

\* A rotation begins at a time at which all units agree.
LEMMA RotationsWait ==
    ASSUME Shape, Calm, [KeysNext]_keysVars
    PROVE  \/ \A v \in KUnits : "rotate" \in khooks'[v] => "rotate" \in khooks[v]
           \/ /\ UNCHANGED <<disk, published>> /\ published # NoKeys
              /\ \A v \in KUnits : khooks[v] = {}
              /\ \A v \in KUnits : "rotate" \in khooks'[v] => v = kleader
<1>1. CASE UNCHANGED keysVars
  BY <1>1 DEF keysVars
<1>2. ASSUME NEW u \in KUnits, KConfigure(u)
      PROVE  \A v \in KUnits : "rotate" \in khooks'[v] => "rotate" \in khooks[v]
  <2>1. UNCHANGED khooks \/ \E w \in BOOLEAN : HookDone(u, "configure", w)
    BY <1>2 DEF KConfigure, ConfigureWaits, ConfigureUnit, ConfigureLeader, ConfigureDies
  <2> QED
    BY <2>1, HookDoneShape
<1>3. ASSUME NEW u \in KUnits, KRotate(u)
      PROVE  \A v \in KUnits : "rotate" \in khooks'[v] => "rotate" \in khooks[v]
  <2>1. UNCHANGED khooks \/ \E w \in BOOLEAN : HookDone(u, "rotate", w)
    BY <1>3 DEF KRotate
  <2> QED
    BY <2>1, HookDoneShape
<1>4. ASSUME NEW u \in KUnits, KElect(u) \/ KEvent(u)
      PROVE  \A v \in KUnits : "rotate" \in khooks'[v] => "rotate" \in khooks[v]
  BY <1>4 DEF KElect, KEvent, Shape
<1>5. ASSUME RotationDue
      PROVE  /\ UNCHANGED <<disk, published>> /\ published # NoKeys
             /\ \A v \in KUnits : khooks[v] = {}
             /\ \A v \in KUnits : "rotate" \in khooks'[v] => v = kleader
  BY <1>5 DEF RotationDue, Calm, Shape
<1> QED
  BY <1>1, <1>2, <1>3, <1>4, <1>5 DEF KeysNext

\* A unit takes the keys of the secret.
LEMMA TokensCopy ==
    ASSUME Shape, Repos, Tokens, Calm, NEW u \in KUnits, Copies(u)
    PROVE  /\ \A v \in KUnits : disk'[v] \in {disk[v], published}
           /\ \A v \in KUnits : Serves(v)' => Fits(disk'[v], published)
           /\ \A v, w \in KUnits : Serves(v) /\ Serves(w) =>
                 Primary(disk[v]) \in Range(disk'[w])
           /\ \A v, w \in KUnits : Serves(v)' /\ Serves(w)' => Fits(disk'[v], disk'[w])
           /\ \A v \in KUnits : Serves(v)' => published # NoKeys
<1>1. /\ \A v \in KUnits : Serves(v) => Fits(disk[v], published)
      /\ \A v, w \in KUnits : Serves(v) /\ Serves(w) => Fits(disk[v], disk[w])
      /\ \A v \in KUnits : Serves(v) => published # NoKeys
  BY DEF Tokens
<1>2. \A v \in KUnits : disk'[v] = IF v = u THEN NewerKeys(u) ELSE disk[v]
  BY DiskShape DEF Copies
<1>3. CASE published = NoKeys
  <2>1. \A v \in KUnits : disk'[v] = disk[v]
    BY <1>2, <1>3 DEF NewerKeys
  <2> QED
    BY <1>1, <2>1 DEF Serves, Fits
<1>4. CASE published # NoKeys
  <2>1. Fits(published, published)
    <3>1. minted \in Nat /\ Whole(published, minted)
      BY KeysAssumption DEF Shape, Repos, Calm
    <3> QED
      BY <1>4, <3>1, FitsItself
  <2>2. \A v \in KUnits : disk'[v] = IF v = u THEN published ELSE disk[v]
    BY <1>2, <1>4 DEF NewerKeys
  <2> QED
    BY <1>1, <1>4, <2>1, <2>2 DEF Serves, Fits
<1> QED
  BY <1>3, <1>4

\* The leader sets up its keys, or copies those there are, and publishes them.
LEMMA TokensBoot ==
    ASSUME Shape, Repos, Tokens, Calm, NEW u \in KUnits, Boots(u)
    PROVE  /\ \A v \in KUnits : disk'[v] \in {disk[v], published'}
           /\ published # NoKeys => published' = published
           /\ \A v \in KUnits : Serves(v)' => Fits(disk'[v], published')
           /\ \A v, w \in KUnits : Serves(v) /\ Serves(w) =>
                 Primary(disk[v]) \in Range(disk'[w])
           /\ \A v, w \in KUnits : Serves(v)' /\ Serves(w)' => Fits(disk'[v], disk'[w])
           /\ published' # NoKeys
<1> DEFINE new == SetUp(NewerKeys(u))
<1>0. minted \in Nat /\ "kill" \notin kplan
  BY KeysAssumption DEF Shape, Calm
<1>1. /\ \A v \in KUnits : Serves(v) => Fits(disk[v], published)
      /\ \A v, w \in KUnits : Serves(v) /\ Serves(w) => Fits(disk[v], disk[w])
      /\ \A v \in KUnits : Serves(v) => published # NoKeys
  BY DEF Tokens
<1>2. (\A v \in KUnits : disk'[v] = IF v = u THEN new ELSE disk[v]) /\ published' = new
  BY DiskShape DEF Boots
<1>3. new # NoKeys /\ Fits(new, new)
  <2>1. Whole(new, minted + MintedBySetUp(NewerKeys(u))) /\ new # NoKeys
    BY <1>0, NewerWhole, SetUpWhole
  <2>2. minted + MintedBySetUp(NewerKeys(u)) \in Nat
    BY <1>0 DEF MintedBySetUp
  <2> QED
    BY <2>1, <2>2, FitsItself
<1>4. published # NoKeys => new = published
  BY DEF NewerKeys, SetUp
<1> HIDE DEF new
<1>5. CASE published = NoKeys
  BY <1>1, <1>2, <1>3, <1>5 DEF Serves, Fits
<1>6. CASE published # NoKeys
  BY <1>1, <1>2, <1>3, <1>4, <1>6 DEF Serves, Fits
<1> QED
  BY <1>5, <1>6

\* The leader rotates keys that all units have.
LEMMA TokensRotate ==
    ASSUME Shape, Repos, Tokens, Calm, NEW u \in KUnits, Rotates(u)
    PROVE  /\ \A v \in KUnits : Serves(v)' => Fits(disk'[v], published')
           /\ \A v, w \in KUnits : Serves(v) /\ Serves(w) =>
                 Primary(disk[v]) \in Range(disk'[w])
           /\ \A v, w \in KUnits : Serves(v)' /\ Serves(w)' => Fits(disk'[v], disk'[w])
           /\ published' # NoKeys
           /\ \A v \in KUnits : "rotate" \notin khooks'[v]
<1> DEFINE old == published
           new == Rotated(published)
<1>0. minted \in Nat /\ "kill" \notin kplan /\ "lease" \notin kplan
  BY KeysAssumption DEF Shape, Calm
<1>1. /\ \A v \in KUnits : disk[v] \in {NoKeys, published}
      /\ \A v \in KUnits : "rotate" \in khooks[v] => v = u
  BY DEF Tokens, Rotates
<1>2. disk[u] = old /\ old # NoKeys
  BY <1>1 DEF Rotates, Serves
<1>3. Whole(old, minted)
  BY <1>0 DEF Repos
<1>4. /\ Whole(new, minted + 1) /\ new # NoKeys
      /\ Fits(old, new)
  BY <1>0, <1>2, <1>3, RotatedWhole DEF Fits
<1>5. Fits(old, old) /\ Fits(new, new)
  <2>1. minted + 1 \in Nat
    BY <1>0
  <2> QED
    BY <1>0, <1>2, <1>3, <1>4, <2>1, FitsItself
<1>6. /\ \A v \in KUnits : disk'[v] = IF v = u THEN new ELSE disk[v]
      /\ published' = new
  BY <1>0, <1>2, DiskShape DEF Rotates
<1>7. \A v \in KUnits : "rotate" \notin khooks'[v]
  <2>1. HookDone(u, "rotate", TRUE)
    BY <1>0 DEF Rotates
  <2>2. /\ khooks'[u] = khooks[u] \ {"rotate"}
        /\ \A v \in KUnits \ {u} : khooks'[v] \subseteq khooks[v] \cup {"configure"}
    BY <2>1, HookDoneShape
  <2> QED
    BY <1>1, <2>2
<1>8. \A v \in KUnits : disk'[v] \in {NoKeys, old, new}
  BY <1>1, <1>6
<1> HIDE DEF new, old
<1> QED
  BY <1>1, <1>2, <1>4, <1>5, <1>6, <1>7, <1>8 DEF Serves, Fits, old

TokenStep == \A u, v \in KUnits :
                Serves(u) /\ Serves(v) => Primary(disk[u]) \in Range(disk'[v])

LEMMA TokensStep ==
    ASSUME Shape, Repos, Agrees, Tokens, [KeysNext]_keysVars, Calm
    PROVE  Tokens' /\ TokenStep
<1>0. Calm' /\ "kill" \notin kplan
  BY ShapeStep DEF Calm
<1>1. /\ \A v \in KUnits : Serves(v) => Fits(disk[v], published)
      /\ \A v, w \in KUnits : Serves(v) /\ Serves(w) => Fits(disk[v], disk[w])
      /\ \A v \in KUnits : Serves(v) => published # NoKeys
      /\ \A w \in KUnits : "rotate" \in khooks[w] =>
            /\ \A u \in KUnits : disk[u] \in {NoKeys, published}
            /\ \A v \in KUnits : "rotate" \in khooks[v] => v = w
  BY DEF Tokens
<1>2. CASE AtRest \/ UNCHANGED keysVars
  <2>1. UNCHANGED <<disk, published>>
    BY <1>2 DEF AtRest, keysVars
  <2>2. \A w \in KUnits : "rotate" \in khooks'[w] =>
           /\ \A u \in KUnits : disk[u] \in {NoKeys, published}
           /\ \A v \in KUnits : "rotate" \in khooks'[v] => v = w
    <3>1. CASE \A v \in KUnits : "rotate" \in khooks'[v] => "rotate" \in khooks[v]
      BY <1>1, <3>1
    <3>2. CASE /\ published # NoKeys
               /\ \A v \in KUnits : khooks[v] = {}
               /\ \A v \in KUnits : "rotate" \in khooks'[v] => v = kleader
      <4>1. \A v \in KUnits : disk[v] = published
        BY <3>2 DEF Agrees, Settling, Behind, Calm
      <4> QED
        BY <3>2, <4>1
    <3> QED
      BY <3>1, <3>2, RotationsWait
  <2> QED
    BY <1>1, <2>1, <2>2 DEF Tokens, TokenStep, Serves, Fits
<1>3. ASSUME NEW u \in KUnits, Copies(u) \/ Boots(u) PROVE Tokens' /\ TokenStep
  <2>1. /\ \A v \in KUnits : disk'[v] \in {disk[v], published'}
        /\ published # NoKeys => published' = published
        /\ \A v \in KUnits : Serves(v)' => Fits(disk'[v], published')
        /\ TokenStep
        /\ \A v, w \in KUnits : Serves(v)' /\ Serves(w)' => Fits(disk'[v], disk'[w])
        /\ \A v \in KUnits : Serves(v)' => published' # NoKeys
    <3>1. CASE Copies(u)
      <4>1. published' = published
        BY <3>1 DEF Copies
      <4> QED
        BY <3>1, <4>1, TokensCopy DEF TokenStep
    <3>2. CASE Boots(u)
      BY <3>2, TokensBoot DEF TokenStep
    <3> QED
      BY <1>3, <3>1, <3>2
  <2>2. \A w \in KUnits : "rotate" \in khooks'[w] =>
           /\ \A v \in KUnits : disk'[v] \in {NoKeys, published'}
           /\ \A v \in KUnits : "rotate" \in khooks'[v] => v = w
    <3>1. CASE \A v \in KUnits : "rotate" \in khooks'[v] => "rotate" \in khooks[v]
      BY <1>1, <2>1, <3>1
    <3>2. CASE /\ UNCHANGED <<disk, published>> /\ published # NoKeys
               /\ \A v \in KUnits : khooks[v] = {}
               /\ \A v \in KUnits : "rotate" \in khooks'[v] => v = kleader
      <4>1. \A v \in KUnits : disk[v] = published
        BY <3>2 DEF Agrees, Settling, Behind, Calm
      <4> QED
        BY <3>2, <4>1
    <3> QED
      BY <3>1, <3>2, RotationsWait
  <2> QED
    BY <2>1, <2>2 DEF Tokens
<1>4. ASSUME NEW u \in KUnits, Rotates(u) PROVE Tokens' /\ TokenStep
  BY <1>4, TokensRotate DEF Tokens, TokenStep
<1> QED
  BY <1>0, <1>2, <1>3, <1>4, KeysSteps

LEMMA TokensInit == KeysInit => Tokens
<1> SUFFICES ASSUME KeysInit PROVE Tokens
  OBVIOUS
<1>1. \A u \in KUnits : disk[u] = NoKeys /\ "rotate" \notin khooks[u]
  BY DEF KeysInit
<1> QED
  BY <1>1 DEF Tokens, Serves

\* What any unit has signed before a step every unit verifies after it, for any
\* number of units and rotations, whichever unit rotates (_on_secret_rotate
\* stages keys before they sign), as long as hooks end and rotations wait for
\* the copies.
THEOREM TokensSurviveHolds == KeysSpec => TokensSurvive
<1> DEFINE All == Shape /\ Repos /\ Agrees /\ Tokens
           Kept == Calm => TokenStep
<1>1. KeysInit => Tokens
  BY TokensInit
<1>2. Shape /\ Repos /\ Agrees /\ Tokens /\ [KeysNext]_keysVars => Tokens' /\ Kept
  <2>1. Shape /\ [KeysNext]_keysVars /\ Calm' => Calm
    BY ShapeStep DEF Calm
  <2> QED
    BY <2>1, TokensStep DEF Tokens
<1>3. Kept => \/ kplan \cap {"kill", "lease", "overlap"} # {}
              \/ \A u, v \in KUnits :
                    Serves(u) /\ Serves(v) => Primary(disk[u]) \in Range(disk'[v])
  BY DEF Calm, TokenStep
<1> QED
  BY <1>1, <1>2, <1>3, ReposAlways, AgreesAlways, PTL DEF KeysSpec, TokensSurvive

-----------------------------------------------------------------------------
(* Service users: types.                                                   *)

\* The users made for applications: keystone gains them, whatever R is.
LEMMA AccountsMade ==
    ASSUME SvcTypeOK, NEW S \in SUBSET Apps, NEW R \in SUBSET S, Accounts(S, R)
    PROVE  /\ svcUsers' \subseteq Apps \X (1 .. MaxUsers) /\ svcUsers \subseteq svcUsers'
           /\ granted' \subseteq svcUsers' /\ granted \subseteq granted'
           /\ made' \in [Apps -> 0 .. MaxUsers]
           /\ \A a \in Apps : made[a] <= made'[a]
           /\ \A a \in S : /\ UserOf(a) \in 1 .. MaxUsers /\ UserOf(a) <= made'[a]
                           /\ <<a, UserOf(a)>> \in svcUsers'
<1>1. /\ made \in [Apps -> 0 .. MaxUsers] /\ svcSecret \in [Apps -> 0 .. MaxUsers]
      /\ svcUsers \subseteq Apps \X (1 .. MaxUsers) /\ granted \subseteq svcUsers /\ MaxUsers \in Nat
  BY SvcAssumption DEF SvcTypeOK
<1>2. \A a \in S : a \in Apps /\ UserOf(a) \in 1 .. MaxUsers
  BY <1>1 DEF Accounts, UserOf
<1>3. /\ svcUsers' = svcUsers \cup {<<a, UserOf(a)>> : a \in S}
      /\ granted' = granted \cup {<<a, UserOf(a)>> : a \in R \cap wanted}
      /\ made' = [a \in Apps |-> IF a \in S /\ UserOf(a) > made[a] THEN UserOf(a) ELSE made[a]]
  BY DEF Accounts
<1>4. svcUsers' \subseteq Apps \X (1 .. MaxUsers) /\ svcUsers \subseteq svcUsers'
  BY <1>1, <1>2, <1>3
<1>5. granted' \subseteq svcUsers' /\ granted \subseteq granted'
  BY <1>1, <1>3
<1>6. \A a \in Apps : made'[a] = IF a \in S /\ UserOf(a) > made[a] THEN UserOf(a) ELSE made[a]
  BY <1>3
<1>7. \A a \in Apps : made'[a] \in 0 .. MaxUsers /\ made[a] <= made'[a]
  BY <1>1, <1>2, <1>6
<1>8. made' \in [Apps -> 0 .. MaxUsers]
  BY <1>3, <1>7
<1>9. \A a \in S : UserOf(a) <= made'[a] /\ <<a, UserOf(a)>> \in svcUsers'
  BY <1>1, <1>2, <1>3, <1>6
<1> QED
  BY <1>2, <1>4, <1>5, <1>7, <1>8, <1>9

\* What the registration of S changes, and that the clients are told.
LEMMA RegisteredMade ==
    ASSUME SvcTypeOK, NEW S \in SUBSET Apps, Registered(S)
    PROVE  /\ svcSecret' \in [Apps -> 0 .. MaxUsers] /\ marker' \in [Apps -> 0 .. 2]
           /\ clientHooks' \subseteq Clients /\ clientHooks \subseteq clientHooks'
           /\ \A a \in Apps \ S : svcSecret'[a] = svcSecret[a] /\ marker'[a] = marker[a]
           /\ \A a \in S : /\ svcSecret'[a] = UserOf(a)
                           /\ marker'[a] = IF a \in wanted THEN 2 ELSE 1
                           /\ marker'[a] # marker[a] => ClientsOf({a}) \subseteq clientHooks'
           /\ \A a \in S \cap wanted : <<a, UserOf(a)>> \in granted'
<1>1. \A a \in S : UserOf(a) \in 1 .. MaxUsers
  BY AccountsMade DEF Registered
<1>2. /\ svcSecret' = [a \in Apps |-> IF a \in S THEN UserOf(a) ELSE svcSecret[a]]
      /\ marker' = [a \in Apps |-> IF a \notin S THEN marker[a] ELSE IF a \in wanted THEN 2 ELSE 1]
      /\ clientHooks' = clientHooks \cup ClientsOf({a \in S : marker'[a] # marker[a]})
      /\ granted' = granted \cup {<<a, UserOf(a)>> : a \in S \cap wanted}
  BY DEF Registered, Accounts
<1>3. /\ svcSecret \in [Apps -> 0 .. MaxUsers] /\ marker \in [Apps -> 0 .. 2]
      /\ clientHooks \subseteq Clients
  BY DEF SvcTypeOK
<1>4. svcSecret' \in [Apps -> 0 .. MaxUsers] /\ marker' \in [Apps -> 0 .. 2]
  BY <1>1, <1>2, <1>3
<1>5. clientHooks' \subseteq Clients /\ clientHooks \subseteq clientHooks'
  BY <1>2, <1>3 DEF ClientsOf
<1>6. \A a \in S : marker'[a] # marker[a] => ClientsOf({a}) \subseteq clientHooks'
  BY <1>2 DEF ClientsOf
<1>7. \A a \in S : svcSecret'[a] = UserOf(a) /\ marker'[a] = IF a \in wanted THEN 2 ELSE 1
  BY <1>2
<1>8. \A a \in Apps \ S : svcSecret'[a] = svcSecret[a] /\ marker'[a] = marker[a]
  BY <1>2
<1> QED
  BY <1>2, <1>4, <1>5, <1>6, <1>7, <1>8

LEMMA SvcFaultType ==
    ASSUME SvcTypeOK, NEW k, SvcFault(k)
    PROVE  svcFaults' \in 0 .. MaxSvcFaults
BY SvcAssumption DEF SvcFault, SvcTypeOK

LEMMA SvcInitType == SvcInit => SvcTypeOK
<1> SUFFICES ASSUME SvcInit PROVE SvcTypeOK
  OBVIOUS
<1>1. /\ svcSecret \in [Apps -> 0 .. MaxUsers] /\ made \in [Apps -> 0 .. MaxUsers]
      /\ tracks \in [Clients -> 0 .. MaxUsers] /\ marker \in [Apps -> 0 .. 2]
      /\ svcFaults \in 0 .. MaxSvcFaults
  BY SvcAssumption DEF SvcInit
<1> QED
  BY <1>1 DEF SvcInit, SvcTypeOK

\* The registration of S, whole or half, keeps the types.
LEMMA RegistrationType ==
    ASSUME SvcTypeOK, NEW S \in SUBSET Apps, HalfRegistered(S) \/ (Registered(S) /\ UNCHANGED svcFaults)
    PROVE  /\ svcUsers' \subseteq Apps \X (1 .. MaxUsers) /\ granted' \subseteq svcUsers'
           /\ made' \in [Apps -> 0 .. MaxUsers] /\ svcSecret' \in [Apps -> 0 .. MaxUsers]
           /\ marker' \in [Apps -> 0 .. 2] /\ clientHooks' \subseteq Clients
           /\ svcFaults' \in 0 .. MaxSvcFaults
<1>1. CASE HalfRegistered(S)
  <2>1. PICK T \in SUBSET S : \E R \in SUBSET T : Accounts(T, R)
    BY <1>1 DEF HalfRegistered
  <2>2. PICK R \in SUBSET T : Accounts(T, R)
    BY <2>1
  <2>3. T \in SUBSET Apps
    BY <2>1
  <2> QED
    BY <1>1, <2>2, <2>3, AccountsMade, SvcFaultType DEF HalfRegistered, SvcTypeOK
<1>2. CASE Registered(S) /\ UNCHANGED svcFaults
  BY <1>2, AccountsMade, RegisteredMade DEF Registered, SvcTypeOK
<1> QED
  BY <1>1, <1>2

LEMMA RegisterStepType ==
    ASSUME SvcTypeOK, ConfigureAppLeader \/ \E a \in Apps : Request(a)
    PROVE  SvcTypeOK'
<1>1. CASE ConfigureAppLeader
  <2>1. Outstanding \in SUBSET Apps
    BY DEF Outstanding, SvcTypeOK
  <2>2. /\ booted' \in BOOLEAN /\ UNCHANGED <<asked, wanted, tracks, retired, svcHooks>>
        /\ HalfRegistered(Outstanding) \/ (Registered(Outstanding) /\ UNCHANGED svcFaults)
    BY <1>1 DEF ConfigureAppLeader, SvcTypeOK
  <2> HIDE DEF Outstanding
  <2> QED
    BY <2>1, <2>2, RegistrationType DEF SvcTypeOK
<1>2. ASSUME NEW a \in Apps, Request(a) PROVE SvcTypeOK'
  <2>1. /\ UNCHANGED <<booted, asked, wanted, tracks, retired>>
        /\ svcHooks' \in {svcHooks, svcHooks \ {<<"request", a>>}}
    BY <1>2 DEF Request
  <2>2. CASE UNCHANGED <<svcSecret, marker, svcUsers, granted, clientHooks, made, svcFaults>>
    BY <2>1, <2>2 DEF SvcTypeOK
  <2>3. CASE HalfRegistered({a}) \/ (Registered({a}) /\ UNCHANGED svcFaults)
    BY <2>1, <2>3, RegistrationType DEF SvcTypeOK
  <2> QED
    BY <1>2, <2>2, <2>3 DEF Request
<1> QED
  BY <1>1, <1>2

LEMMA RotateStepType ==
    ASSUME SvcTypeOK, NEW a \in Apps, SvcRotate(a), svcSecret[a] # 0 \/ retired' = retired
    PROVE  SvcTypeOK'
<1>0. MaxUsers \in Nat /\ made[a] \in 0 .. MaxUsers /\ svcSecret[a] \in 0 .. MaxUsers
  BY SvcAssumption DEF SvcTypeOK
<1>1. /\ UNCHANGED <<booted, asked, wanted, marker, tracks>>
      /\ svcHooks' \in {svcHooks, svcHooks \ {<<"rotate", a>>}}
      /\ clientHooks' \subseteq Clients
      /\ svcFaults' \in 0 .. MaxSvcFaults
  BY SvcFaultType DEF SvcRotate, SvcTypeOK, ClientsOf
<1>2. CASE UNCHANGED <<svcUsers, granted, made, svcSecret, retired>>
  BY <1>1, <1>2 DEF SvcTypeOK
<1>3. CASE /\ made[a] < MaxUsers
           /\ svcUsers' = svcUsers \cup {<<a, made[a] + 1>>}
           /\ granted' = granted \cup {<<b, made[a] + 1>> : b \in RotatedRoles(a)}
           /\ made' = [made EXCEPT ![a] = @ + 1]
           /\ svcSecret' = [svcSecret EXCEPT ![a] = made[a] + 1] \/ UNCHANGED svcSecret
           /\ retired' \in {retired, Retired(a)}
  <2>1. made[a] + 1 \in 1 .. MaxUsers
    BY <1>0, <1>3
  <2>2. made' \in [Apps -> 0 .. MaxUsers] /\ svcSecret' \in [Apps -> 0 .. MaxUsers]
    BY <1>3, <2>1 DEF SvcTypeOK
  <2>3. svcUsers' \subseteq Apps \X (1 .. MaxUsers) /\ granted' \subseteq svcUsers'
    BY <1>3, <2>1 DEF SvcTypeOK, RotatedRoles
  <2>4. retired' \subseteq Apps \X (1 .. MaxUsers)
    BY <1>0, <1>3 DEF SvcTypeOK, Retired
  <2> QED
    BY <1>1, <2>2, <2>3, <2>4 DEF SvcTypeOK
<1> QED
  BY <1>2, <1>3 DEF SvcRotate

LEMMA RemoveStepType ==
    ASSUME SvcTypeOK, NEW a \in Apps, SvcRemove(a)
    PROVE  SvcTypeOK'
<1>1. /\ UNCHANGED <<booted, asked, wanted, svcSecret, marker, tracks, clientHooks, made>>
      /\ svcHooks' \in {svcHooks, svcHooks \ {<<"remove", a>>}}
      /\ svcFaults' \in 0 .. MaxSvcFaults
      /\ retired' \subseteq retired
  BY SvcFaultType DEF SvcRemove, SvcTypeOK
<1>2. UNCHANGED <<svcUsers, granted>> \/ \E gone : DeleteEach(gone)
  BY DEF SvcRemove
<1>3. svcUsers' \subseteq svcUsers /\ granted' \subseteq svcUsers'
  BY <1>2 DEF DeleteEach, SvcTypeOK
<1> QED
  BY <1>1, <1>3 DEF SvcTypeOK

LEMMA WorldStepType ==
    ASSUME SvcTypeOK,
           \/ \E c \in Clients : ClientConfigures(c)
           \/ \E a \in Apps : SvcRotationDue(a) \/ \E roles \in BOOLEAN : RegisterServices(a, roles)
    PROVE  SvcTypeOK'
<1>1. ASSUME NEW c \in Clients, ClientConfigures(c) PROVE SvcTypeOK'
  <2>1. c[1] \in Apps
    BY SvcAssumption
  <2>2. tracks' \in [Clients -> 0 .. MaxUsers]
    BY <1>1, <2>1 DEF ClientConfigures, SvcTypeOK
  <2>3. svcHooks' \subseteq {"request", "rotate", "remove"} \X Apps
    BY <1>1, <2>1 DEF ClientConfigures, SvcTypeOK
  <2> QED
    BY <1>1, <2>2, <2>3 DEF ClientConfigures, SvcTypeOK
<1>2. ASSUME NEW a \in Apps, SvcRotationDue(a) PROVE SvcTypeOK'
  BY <1>2 DEF SvcRotationDue, SvcTypeOK
<1>3. ASSUME NEW a \in Apps, NEW roles \in BOOLEAN, RegisterServices(a, roles) PROVE SvcTypeOK'
  BY <1>3 DEF RegisterServices, SvcTypeOK
<1> QED
  BY <1>1, <1>2, <1>3

-----------------------------------------------------------------------------
(* Service users: the invariant.                                           *)

\* An event for application a waits.
Waits(k, a) == <<k, a>> \in svcHooks

\* The applications that have no rotation under way when one of a comes due.
Beside(a) == IF "together" \in svcPlan THEN {a} ELSE Apps

\* The client reads a revision that has been replaced.
Lags(c) == tracks[c] # 0 /\ tracks[c] # svcSecret[c[1]]

\* The user in a secret exists, and is newer than those that it has replaced.
SecretsInv ==
    /\ \A a \in Apps : /\ svcSecret[a] <= made[a]
                       /\ svcSecret[a] # 0 => <<a, svcSecret[a]>> \in svcUsers
    /\ \A u \in retired : u[2] < svcSecret[u[1]]
    /\ \A c \in Clients : tracks[c] <= svcSecret[c[1]]

\* A client that lags has a hook, and still its user; of the applications
\* beside each other one rotates at a time, and all who lag read the same revision.
LagInv ==
    /\ \A c \in Clients : Lags(c) => c \in clientHooks
    /\ \/ {"together", "similar"} \subseteq svcPlan
       \/ \A c \in Clients : Lags(c) => <<c[1], tracks[c]>> \in svcUsers
    /\ \A c, d \in Clients : Lags(c) /\ Lags(d) /\ d[1] \in Beside(c[1])
                                => c[1] = d[1] /\ tracks[c] = tracks[d]

\* Old users are removed, and a rotation begins, when nobody lags.
TurnsInv ==
    \A a \in Apps :
        /\ Waits("remove", a) => \A c \in ClientsOf(Beside(a)) : ~ Lags(c)
        /\ Waits("rotate", a) =>
              /\ svcSecret[a] # 0
              /\ \A c \in ClientsOf({a}) : tracks[c] = svcSecret[a]
              /\ \A c \in ClientsOf(Beside(a)) : ~ Lags(c)
              /\ \A b \in Beside(a) : ~ Waits("remove", b) /\ (Waits("rotate", b) => a = b)

\* What is marked as processed is, and the clients hear of it; a user that is
\* on the list will be removed, and no other is forgotten.
ServedInv ==
    /\ \A a \in Apps :
          /\ Waits("request", a) \/ marker[a] # 0 => a \in asked
          /\ marker[a] = 0 <=> svcSecret[a] = 0
          /\ marker[a] = 2 => a \in wanted /\ <<a, svcSecret[a]>> \in granted
          /\ marker[a] # 0 =>
                \A c \in ClientsOf({a}) : tracks[c] = svcSecret[a] \/ c \in clientHooks
    /\ \A u \in retired :
          /\ Labelled(u[1])
          /\ Waits("remove", u[1]) \/ \E c \in ClientsOf({u[1]}) : tracks[c] = u[2]
    /\ "kill" \in svcPlan \/ \A u \in svcUsers : u \in retired \/ u[2] = svcSecret[u[1]]

SvcInv == SvcTypeOK /\ SecretsInv /\ LagInv /\ TurnsInv /\ ServedInv

LEMMA SvcInitInv == SvcInit => SvcInv
<1> SUFFICES ASSUME SvcInit PROVE SvcInv
  OBVIOUS
<1>1. \A c \in Clients : c[1] \in Apps /\ ~ Lags(c) /\ tracks[c] = 0
  BY SvcAssumption DEF SvcInit, Lags
<1>2. \A k, a : ~ Waits(k, a)
  BY DEF SvcInit, Waits
<1>3. \A a \in Apps : svcSecret[a] = 0 /\ made[a] = 0 /\ marker[a] = 0
  BY DEF SvcInit
<1>4. SecretsInv
  BY <1>1, <1>3 DEF SvcInit, SecretsInv
<1>5. LagInv /\ TurnsInv
  BY <1>1, <1>2 DEF LagInv, TurnsInv
<1>6. ServedInv
  BY <1>2, <1>3 DEF SvcInit, ServedInv
<1> QED
  BY <1>4, <1>5, <1>6, SvcInitType DEF SvcInv

\* The pairs that stand for users and clients.
LEMMA Names ==
    ASSUME SvcTypeOK
    PROVE  /\ \A u \in svcUsers \cup retired : /\ u[1] \in Apps /\ u[2] \in 1 .. MaxUsers
                                               /\ u = <<u[1], u[2]>>
           /\ \A c \in Clients : c[1] \in Apps /\ tracks[c] \in 0 .. MaxUsers
           /\ \A a \in Apps : /\ svcSecret[a] \in 0 .. MaxUsers /\ made[a] \in 0 .. MaxUsers
                              /\ marker[a] \in 0 .. 2 /\ Beside(a) \subseteq Apps
                              /\ a \in Beside(a)
           /\ \A S : \A c : c \in ClientsOf(S) <=> c \in Clients /\ c[1] \in S
           /\ MaxUsers \in Nat
BY SvcAssumption DEF SvcTypeOK, Beside, ClientsOf

\* The registration of S gives a user to those that have none, and tells the
\* clients; nobody reads a revision that is not there.
LEMMA RegisteredStep ==
    ASSUME SvcInv, SvcTypeOK', NEW S \in SUBSET asked, Registered(S),
           UNCHANGED <<asked, wanted, tracks, retired, svcPlan>>,
           \A k, a : IF k = "request" THEN Waits(k, a)' => Waits(k, a) ELSE Waits(k, a)' <=> Waits(k, a)
    PROVE  SvcInv'
<1>0. /\ SvcTypeOK /\ SecretsInv /\ LagInv /\ TurnsInv /\ ServedInv
      /\ S \subseteq Apps /\ asked \subseteq Apps
  BY DEF SvcInv, SvcTypeOK
<1>1. /\ svcUsers \subseteq svcUsers' /\ granted \subseteq granted'
      /\ svcUsers' = svcUsers \cup {<<a, UserOf(a)>> : a \in S}
      /\ \A a \in Apps : made[a] <= made'[a]
      /\ \A a \in S : /\ UserOf(a) \in 1 .. MaxUsers /\ UserOf(a) <= made'[a]
                      /\ <<a, UserOf(a)>> \in svcUsers'
  BY <1>0, AccountsMade DEF Registered, Accounts
<1>2. /\ clientHooks \subseteq clientHooks'
      /\ \A a \in Apps \ S : svcSecret'[a] = svcSecret[a] /\ marker'[a] = marker[a]
      /\ \A a \in S : /\ svcSecret'[a] = UserOf(a)
                      /\ marker'[a] = IF a \in wanted THEN 2 ELSE 1
                      /\ marker'[a] # marker[a] => ClientsOf({a}) \subseteq clientHooks'
      /\ \A a \in S \cap wanted : <<a, UserOf(a)>> \in granted'
  BY <1>0, RegisteredMade
<1>3. \A a \in Apps : svcSecret'[a] = svcSecret[a] \/ (svcSecret[a] = 0 /\ a \in S)
  BY <1>0, <1>2, Names DEF UserOf
<1>4. \A c \in Clients : /\ c[1] \in Apps /\ tracks'[c] = tracks[c]
                         /\ svcSecret[c[1]] = 0 => tracks[c] = 0
  BY <1>0, Names DEF SecretsInv
<1>5. \A c \in Clients : Lags(c)' <=> Lags(c)
  BY <1>3, <1>4 DEF Lags
<1>6. \A a : Beside(a)' = Beside(a) /\ Labelled(a)' = Labelled(a)
  BY DEF Beside, Labelled
<1>7. SecretsInv'
  <2>1. \A a \in Apps : svcSecret'[a] <= made'[a] /\ (svcSecret'[a] # 0 => <<a, svcSecret'[a]>> \in svcUsers')
    <3> TAKE a \in Apps
    <3>1. CASE a \in S
      BY <1>1, <1>2, <3>1
    <3>2. CASE a \notin S
      <4>1. svcSecret[a] <= made[a] /\ (svcSecret[a] # 0 => <<a, svcSecret[a]>> \in svcUsers)
        BY <1>0 DEF SecretsInv
      <4>2. made'[a] \in Nat /\ made[a] \in Nat /\ svcSecret[a] \in Nat /\ made[a] <= made'[a]
        BY <1>0, <1>1 DEF SvcTypeOK
      <4> QED
        BY <1>1, <1>2, <3>2, <4>1, <4>2
    <3> QED
      BY <3>1, <3>2
  <2>2. \A u \in retired : u[2] < svcSecret[u[1]] /\ u[1] \in Apps /\ svcSecret[u[1]] # 0
    BY <1>0, Names DEF SecretsInv
  <2>3. \A c \in Clients : tracks[c] <= svcSecret[c[1]] /\ (svcSecret'[c[1]] = svcSecret[c[1]] \/ tracks[c] = 0)
    BY <1>0, <1>3, <1>4 DEF SecretsInv
  <2>4. \A c \in Clients : svcSecret'[c[1]] \in Nat
    BY <1>4 DEF SvcTypeOK
  <2>5. \A c \in Clients : tracks[c] <= svcSecret'[c[1]]
    BY <2>3, <2>4
  <2> QED
    BY <1>3, <2>1, <2>2, <2>5 DEF SecretsInv
<1>8. LagInv'
  BY <1>0, <1>1, <1>2, <1>4, <1>5, <1>6 DEF LagInv
<1>9. TurnsInv'
  <2>1. \A a \in Apps : Waits("rotate", a) => svcSecret'[a] = svcSecret[a]
    BY <1>0, <1>3 DEF TurnsInv
  <2>2. \A X : ClientsOf(X)' = ClientsOf(X)
    BY DEF ClientsOf
  <2>3. \A a \in Apps : \A c \in ClientsOf(Beside(a)) : c \in Clients
    BY DEF ClientsOf
  <2>4. ASSUME NEW a \in Apps, Waits("remove", a)'
        PROVE  \A c \in ClientsOf(Beside(a)) : ~ Lags(c)'
    BY <1>0, <1>5, <2>3, <2>4 DEF TurnsInv
  <2>5. ASSUME NEW a \in Apps, Waits("rotate", a)'
        PROVE  /\ svcSecret'[a] # 0
               /\ \A c \in ClientsOf({a}) : tracks'[c] = svcSecret'[a]
               /\ \A c \in ClientsOf(Beside(a)) : ~ Lags(c)'
               /\ \A b \in Beside(a) : ~ Waits("remove", b)' /\ (Waits("rotate", b)' => a = b)
    <3>1. Waits("rotate", a)
      BY <2>5
    <3> QED
      BY <1>0, <1>5, <2>1, <2>3, <3>1 DEF TurnsInv
  <2> QED
    BY <1>6, <2>2, <2>4, <2>5 DEF TurnsInv
<1>10. ServedInv'
  <2>1. ASSUME NEW a \in Apps
        PROVE  /\ Waits("request", a)' \/ marker'[a] # 0 => a \in asked'
               /\ marker'[a] = 0 <=> svcSecret'[a] = 0
               /\ marker'[a] = 2 => a \in wanted' /\ <<a, svcSecret'[a]>> \in granted'
               /\ marker'[a] # 0 =>
                     \A c \in ClientsOf({a})' : tracks'[c] = svcSecret'[a] \/ c \in clientHooks'
    <3>0. ClientsOf({a})' = ClientsOf({a}) /\ \A c \in ClientsOf({a}) : c \in Clients /\ c[1] = a
      BY DEF ClientsOf
    <3>1. CASE a \in S
      <4>0. marker'[a] = (IF a \in wanted THEN 2 ELSE 1) /\ UserOf(a) \in 1 .. MaxUsers
        BY <1>1, <1>2, <3>1, Zenon
      <4>1. a \in asked /\ svcSecret'[a] = UserOf(a) /\ UserOf(a) # 0 /\ marker'[a] # 0
        <5>1. a \in asked /\ svcSecret'[a] = UserOf(a)
          BY <1>2, <3>1, Zenon
        <5>2. UserOf(a) # 0 /\ marker'[a] # 0
          BY <4>0
        <5> QED
          BY <5>1, <5>2
      <4>2. marker'[a] = 2 => a \in wanted
        BY <4>0
      <4>3. \A c \in ClientsOf({a}) : tracks'[c] = svcSecret'[a] \/ c \in clientHooks'
        <5>1. CASE marker'[a] # marker[a]
          BY <1>2, <3>1, <5>1
        <5>2. CASE marker'[a] = marker[a]
          <6>1. svcSecret[a] # 0 /\ svcSecret'[a] = svcSecret[a] /\ marker[a] # 0
            BY <1>0, <1>3, <4>1, <5>2 DEF ServedInv
          <6> QED
            BY <1>0, <1>2, <1>4, <3>0, <6>1 DEF ServedInv
        <5> QED
          BY <5>1, <5>2
      <4> QED
        BY <1>2, <3>0, <3>1, <4>1, <4>2, <4>3
    <3>2. CASE a \notin S
      BY <1>0, <1>1, <1>2, <1>4, <3>0, <3>2 DEF ServedInv
    <3> QED
      BY <3>1, <3>2
  <2>2. \A u \in retired' : /\ Labelled(u[1])'
                            /\ Waits("remove", u[1])' \/ \E c \in ClientsOf({u[1]})' : tracks'[c] = u[2]
    BY <1>0, <1>6 DEF ServedInv, ClientsOf
  <2>3. "kill" \in svcPlan' \/ \A u \in svcUsers' : u \in retired' \/ u[2] = svcSecret'[u[1]]
    <3>1. SUFFICES ASSUME "kill" \notin svcPlan, NEW u \in svcUsers', u \notin retired PROVE u[2] = svcSecret'[u[1]]
      OBVIOUS
    <3>2. CASE u \in svcUsers
      <4>1. u[2] = svcSecret[u[1]] /\ u[1] \in Apps /\ u[2] # 0
        BY <1>0, <3>1, <3>2, Names DEF ServedInv
      <4> QED
        BY <1>3, <4>1
    <3>3. ASSUME NEW a \in S, u = <<a, UserOf(a)>> PROVE u[2] = svcSecret'[u[1]]
      <4>1. svcSecret'[a] = UserOf(a)
        BY <1>2, Zenon
      <4> QED
        BY <3>3, <4>1
    <3> QED
      BY <1>1, <3>2, <3>3
  <2> QED
    BY <2>1, <2>2, <2>3 DEF ServedInv
<1> QED
  BY <1>7, <1>8, <1>9, <1>10 DEF SvcInv

\* Steps that leave secrets, lists and clients alone: users may be gained where
\* hooks die, and events be handled that leave nothing to do.
LEMMA QuietStep ==
    ASSUME SvcInv, SvcTypeOK',
           UNCHANGED <<svcSecret, marker, clientHooks, tracks, retired, svcPlan>>,
           asked \subseteq asked', wanted \subseteq wanted', svcUsers \subseteq svcUsers', granted \subseteq granted',
           "kill" \in svcPlan \/ svcUsers' = svcUsers,
           \A a \in Apps : made[a] <= made'[a],
           \A a \in Apps : /\ Waits("rotate", a)' => Waits("rotate", a)
                           /\ Waits("remove", a)' => Waits("remove", a)
                           /\ Waits("request", a)' => a \in asked',
           \A u \in retired : Waits("remove", u[1]) => Waits("remove", u[1])'
    PROVE  SvcInv'
<1>0. SvcTypeOK /\ SecretsInv /\ LagInv /\ TurnsInv /\ ServedInv
  BY DEF SvcInv
<1>1. /\ \A c : Lags(c)' <=> Lags(c)
      /\ \A a : Beside(a)' = Beside(a) /\ Labelled(a)' = Labelled(a)
      /\ \A X : ClientsOf(X)' = ClientsOf(X)
  BY DEF Lags, Beside, Labelled, ClientsOf
<1>2. SecretsInv'
  <2>1. ASSUME NEW a \in Apps PROVE svcSecret[a] <= made'[a]
    <3>1. svcSecret[a] \in Nat /\ made[a] \in Nat /\ made'[a] \in Nat
      BY <1>0 DEF SvcTypeOK
    <3>2. svcSecret[a] <= made[a]
      BY <1>0 DEF SecretsInv
    <3>3. made[a] <= made'[a]
      OBVIOUS
    <3> QED
      BY <3>1, <3>2, <3>3
  <2> QED
    BY <1>0, <2>1 DEF SecretsInv
<1>3. LagInv'
  BY <1>0, <1>1 DEF LagInv
<1>4. TurnsInv'
  <2>1. \A a \in Apps : Beside(a) \subseteq Apps
    BY DEF Beside
  <2>2. ASSUME NEW a \in Apps, Waits("remove", a)'
        PROVE  \A c \in ClientsOf(Beside(a)) : ~ Lags(c)
    BY <1>0, <2>2 DEF TurnsInv
  <2>3. ASSUME NEW a \in Apps, Waits("rotate", a)'
        PROVE  /\ svcSecret[a] # 0
               /\ \A c \in ClientsOf({a}) : tracks[c] = svcSecret[a]
               /\ \A c \in ClientsOf(Beside(a)) : ~ Lags(c)
               /\ \A b \in Beside(a) : ~ Waits("remove", b)' /\ (Waits("rotate", b)' => a = b)
    BY <1>0, <2>1, <2>3 DEF TurnsInv
  <2> QED
    BY <1>1, <2>2, <2>3 DEF TurnsInv
<1>5. ServedInv'
  BY <1>0, <1>1 DEF ServedInv
<1> QED
  BY <1>2, <1>3, <1>4, <1>5 DEF SvcInv

\* What a hook of kind k for a takes from those that wait.
LEMMA HookHandled ==
    ASSUME NEW k, NEW a, svcHooks' = svcHooks \ {<<k, a>>}
    PROVE  \A j, b : Waits(j, b)' <=> Waits(j, b) /\ ~ (j = k /\ b = a)
BY DEF Waits

\* What is lost with a hook that dies in the registration.
LEMMA HalfGained ==
    ASSUME SvcInv, NEW S \in SUBSET Apps, HalfRegistered(S)
    PROVE  /\ svcUsers \subseteq svcUsers' /\ granted \subseteq granted'
           /\ \A a \in Apps : made[a] <= made'[a]
           /\ "kill" \in svcPlan /\ UNCHANGED <<svcSecret, marker, clientHooks>>
<1>1. PICK T \in SUBSET S : \E R \in SUBSET T : Accounts(T, R)
  BY DEF HalfRegistered
<1>2. PICK R \in SUBSET T : Accounts(T, R)
  BY <1>1
<1>3. SvcTypeOK /\ T \in SUBSET Apps
  BY DEF SvcInv
<1> QED
  BY <1>2, <1>3, AccountsMade DEF HalfRegistered, SvcFault

LEMMA RequestStep ==
    ASSUME SvcInv, ConfigureAppLeader \/ \E a \in Apps : Request(a)
    PROVE  SvcInv'
<1>0. SvcTypeOK /\ ServedInv /\ SvcTypeOK'
  BY RegisterStepType DEF SvcInv
<1>1. CASE ConfigureAppLeader
  <2>1. Outstanding \in SUBSET asked /\ Outstanding \in SUBSET Apps
    BY <1>0 DEF Outstanding, SvcTypeOK
  <2>2. /\ UNCHANGED <<asked, wanted, tracks, retired, svcHooks, svcPlan>>
        /\ HalfRegistered(Outstanding) \/ Registered(Outstanding)
    BY <1>1 DEF ConfigureAppLeader
  <2>3. /\ \A k, a : Waits(k, a)' <=> Waits(k, a)
        /\ \A a \in Apps : Waits("request", a)' => a \in asked'
    BY <1>0, <2>2 DEF Waits, ServedInv
  <2> HIDE DEF Outstanding
  <2>4. CASE HalfRegistered(Outstanding)
    BY <1>0, <2>1, <2>2, <2>3, <2>4, HalfGained, QuietStep
  <2>5. CASE Registered(Outstanding)
    BY <1>0, <2>1, <2>2, <2>3, <2>5, RegisteredStep
  <2> QED
    BY <2>2, <2>4, <2>5
<1>2. ASSUME NEW a \in Apps, Request(a) PROVE SvcInv'
  <2>1. Waits("request", a) /\ a \in asked
    BY <1>0, <1>2 DEF Request, Waits, ServedInv
  <2>2. /\ UNCHANGED <<asked, wanted, tracks, retired, svcPlan>>
        /\ svcHooks' = svcHooks \/ svcHooks' = svcHooks \ {<<"request", a>>}
    BY <1>2 DEF Request
  <2>3. /\ \A k, b : IF k = "request" THEN Waits(k, b)' => Waits(k, b)
                     ELSE Waits(k, b)' <=> Waits(k, b)
        /\ \A b \in Apps : Waits("request", b)' => b \in asked'
    BY <1>0, <2>2, HookHandled DEF Waits, ServedInv
  <2>4. CASE UNCHANGED <<svcSecret, marker, svcUsers, granted, clientHooks, made>>
    <3>1. \A b \in Apps : made[b] <= made'[b]
      BY <1>0, <2>4 DEF SvcTypeOK
    <3> QED
      BY <1>0, <2>2, <2>3, <2>4, <3>1, QuietStep
  <2>5. CASE HalfRegistered({a})
    BY <1>0, <2>2, <2>3, <2>5, HalfGained, QuietStep
  <2>6. CASE Registered({a})
    BY <1>0, <2>1, <2>2, <2>3, <2>6, RegisteredStep
  <2> QED
    BY <1>2, <2>4, <2>5, <2>6 DEF Request
<1> QED
  BY <1>1, <1>2

LEMMA RegisterServicesStep ==
    ASSUME SvcInv, NEW a \in Apps, NEW roles \in BOOLEAN, RegisterServices(a, roles)
    PROVE  SvcInv'
<1>0. SvcTypeOK /\ ServedInv /\ SvcTypeOK'
  BY WorldStepType DEF SvcInv
<1>1. /\ UNCHANGED <<svcSecret, marker, svcUsers, granted, tracks, retired, clientHooks, made, svcPlan>>
      /\ asked' = asked \cup {a} /\ wanted \subseteq wanted' /\ svcHooks' = svcHooks \cup {<<"request", a>>}
  BY DEF RegisterServices
<1>2. \A k, b : Waits(k, b)' <=> Waits(k, b) \/ (k = "request" /\ b = a)
  BY <1>1 DEF Waits
<1>3. /\ \A b \in Apps : made[b] <= made'[b]
      /\ \A b \in Apps : Waits("request", b)' => b \in asked'
  <2>1. \A b \in Apps : made[b] \in Nat
    BY <1>0 DEF SvcTypeOK
  <2>2. \A b \in Apps : Waits("request", b) => b \in asked
    BY <1>0 DEF ServedInv
  <2> QED
    BY <1>1, <1>2, <2>1, <2>2
<1> QED
  BY <1>0, <1>1, <1>2, <1>3, QuietStep

\* A rotation that takes effect: the clients of a lag from now on, and no others.
LEMMA RotatedStep ==
    ASSUME SvcInv, NEW a \in Apps, Waits("rotate", a), Labelled(a), made[a] < MaxUsers,
           svcUsers' = svcUsers \cup {<<a, made[a] + 1>>},
           granted' = granted \cup {<<b, made[a] + 1>> : b \in RotatedRoles(a)},
           made' = [made EXCEPT ![a] = @ + 1],
           svcSecret' = [svcSecret EXCEPT ![a] = made[a] + 1],
           retired' = Retired(a),
           svcHooks' = svcHooks \ {<<"rotate", a>>},
           clientHooks' = clientHooks \cup {c \in ClientsOf({a}) : tracks[c] # 0},
           UNCHANGED <<asked, wanted, marker, tracks, svcPlan>>,
           SvcTypeOK'
    PROVE  SvcInv'
<1>0. /\ SvcTypeOK /\ SecretsInv /\ LagInv /\ TurnsInv /\ ServedInv
      /\ MaxUsers \in Nat
  BY SvcAssumption DEF SvcInv
<1> DEFINE new == made[a] + 1
           old == svcSecret[a]
<1>1. /\ \A b \in Apps \ {a} : svcSecret'[b] = svcSecret[b] /\ made'[b] = made[b]
      /\ svcSecret'[a] = new /\ made'[a] = new
      /\ new \in 1 .. MaxUsers /\ old \in 1 .. made[a] /\ old < new
  <2>1. /\ svcSecret \in [Apps -> 0 .. MaxUsers] /\ made \in [Apps -> 0 .. MaxUsers]
    BY <1>0 DEF SvcTypeOK
  <2>2. old # 0 /\ old <= made[a]
    BY <1>0 DEF SecretsInv, TurnsInv
  <2> QED
    BY <1>0, <2>1, <2>2
<1> HIDE DEF new, old
<1>2. \A j, b : Waits(j, b)' <=> Waits(j, b) /\ ~ (j = "rotate" /\ b = a)
  BY HookHandled
<1>3. /\ \A b : Beside(b)' = Beside(b) /\ Labelled(b)' = Labelled(b)
      /\ \A X : ClientsOf(X)' = ClientsOf(X)
      /\ \A X : \A c : c \in ClientsOf(X) <=> c \in Clients /\ c[1] \in X
      /\ \A b \in Apps : b \in Beside(b) /\ Beside(b) \subseteq Apps
      /\ \A b \in Apps : a \in Beside(b) => b \in Beside(a)
      /\ \A c \in Clients : c[1] \in Apps
  BY SvcAssumption DEF Beside, Labelled, ClientsOf
<1>4. \A c \in Clients : c[1] = a => tracks[c] = old
  BY <1>0, <1>3 DEF TurnsInv, old
<1>5. \A c \in Clients : c[1] \in Beside(a) => ~ Lags(c)
  BY <1>0, <1>3 DEF TurnsInv
<1>6. \A c \in Clients : Lags(c)' <=> Lags(c) \/ c[1] = a
  <2> TAKE c \in Clients
  <2>1. CASE c[1] = a
    BY <1>1, <1>4, <2>1 DEF Lags
  <2>2. CASE c[1] # a
    BY <1>1, <1>3, <2>2 DEF Lags
  <2> QED
    BY <2>1, <2>2
<1>7. SecretsInv'
  <2>1. ASSUME NEW b \in Apps
        PROVE  svcSecret'[b] <= made'[b] /\ (svcSecret'[b] # 0 => <<b, svcSecret'[b]>> \in svcUsers')
    <3>1. CASE b = a
      BY <1>1, <3>1 DEF new
    <3>2. CASE b # a
      BY <1>0, <1>1, <3>2 DEF SecretsInv
    <3> QED
      BY <3>1, <3>2
  <2>2. ASSUME NEW u \in retired' PROVE u[2] < svcSecret'[u[1]]
    <3>1. CASE u = <<a, old>>
      BY <1>1, <3>1
    <3>2. CASE u \in retired
      <4>1. u[2] < svcSecret[u[1]] /\ u[1] \in Apps /\ u[2] \in 1 .. MaxUsers
        BY <1>0, <3>2, Names DEF SecretsInv
      <4>2. u[1] = a => u[2] < new
        BY <1>1, <4>1 DEF old
      <4> QED
        BY <1>1, <4>1, <4>2
    <3> QED
      BY <2>2, <3>1, <3>2 DEF Retired, old
  <2>3. ASSUME NEW c \in Clients PROVE tracks'[c] <= svcSecret'[c[1]]
    <3>1. CASE c[1] = a
      BY <1>1, <1>4, <3>1
    <3>2. CASE c[1] # a
      BY <1>0, <1>1, <1>3, <3>2 DEF SecretsInv
    <3> QED
      BY <3>1, <3>2
  <2> QED
    BY <2>1, <2>2, <2>3 DEF SecretsInv
<1>8. LagInv'
  <2>1. \A c \in Clients : Lags(c)' => c \in clientHooks'
    <3> TAKE c \in Clients
    <3>1. CASE c[1] = a
      <4>1. tracks[c] # 0
        BY <1>1, <1>4, <3>1
      <4> QED
        BY <1>3, <3>1, <4>1
    <3>2. CASE c[1] # a
      BY <1>0, <1>6, <3>2 DEF LagInv
    <3> QED
      BY <3>1, <3>2
  <2>2. \A c \in Clients : c[1] = a => <<c[1], tracks[c]>> \in svcUsers
    BY <1>0, <1>1, <1>4 DEF SecretsInv, old
  <2>3. \/ {"together", "similar"} \subseteq svcPlan
        \/ \A c \in Clients : Lags(c)' => <<c[1], tracks[c]>> \in svcUsers
    BY <1>0, <1>6, <2>2 DEF LagInv
  <2>4. ASSUME NEW c \in Clients, NEW d \in Clients, Lags(c)', Lags(d)', d[1] \in Beside(c[1])
        PROVE  c[1] = d[1] /\ tracks[c] = tracks[d]
    <3>1. CASE c[1] = a
      <4>1. d[1] = a
        BY <1>5, <1>6, <2>4, <3>1
      <4> QED
        BY <1>4, <3>1, <4>1
    <3>2. CASE d[1] = a
      <4>1. c[1] \in Beside(a)
        BY <1>3, <2>4, <3>2
      <4>2. c[1] = a
        BY <1>5, <1>6, <2>4, <4>1
      <4> QED
        BY <1>4, <3>2, <4>2
    <3>3. CASE c[1] # a /\ d[1] # a
      BY <1>0, <1>6, <2>4, <3>3 DEF LagInv
    <3> QED
      BY <3>1, <3>2, <3>3
  <2> QED
    BY <1>3, <2>1, <2>3, <2>4 DEF LagInv
<1>9. TurnsInv'
  <2>1. ASSUME NEW b \in Apps, Waits("remove", b) PROVE a \notin Beside(b)
    BY <1>0, <1>3, <2>1 DEF TurnsInv
  <2>2. ASSUME NEW b \in Apps, Waits("rotate", b), b # a PROVE a \notin Beside(b)
    BY <1>0, <1>3, <2>2 DEF TurnsInv
  <2>3. ASSUME NEW b \in Apps, Waits("remove", b)'
        PROVE  \A c \in ClientsOf(Beside(b)) : ~ Lags(c)'
    <3>1. Waits("remove", b) /\ \A c \in ClientsOf(Beside(b)) : ~ Lags(c)
      BY <1>0, <1>2, <2>3 DEF TurnsInv
    <3> QED
      BY <1>3, <1>6, <2>1, <3>1
  <2>4. ASSUME NEW b \in Apps, Waits("rotate", b)'
        PROVE  /\ svcSecret'[b] # 0
               /\ \A c \in ClientsOf({b}) : tracks[c] = svcSecret'[b]
               /\ \A c \in ClientsOf(Beside(b)) : ~ Lags(c)'
               /\ \A e \in Beside(b) : ~ Waits("remove", e)' /\ (Waits("rotate", e)' => b = e)
    <3>1. Waits("rotate", b) /\ b # a
      BY <1>2, <2>4
    <3>2. /\ svcSecret[b] # 0
          /\ \A c \in ClientsOf({b}) : tracks[c] = svcSecret[b]
          /\ \A c \in ClientsOf(Beside(b)) : ~ Lags(c)
          /\ \A e \in Beside(b) : ~ Waits("remove", e) /\ (Waits("rotate", e) => b = e)
      BY <1>0, <3>1 DEF TurnsInv
    <3>3. svcSecret'[b] = svcSecret[b]
      BY <1>1, <3>1
    <3> QED
      BY <1>2, <1>3, <1>6, <2>2, <3>1, <3>2, <3>3
  <2> QED
    BY <1>3, <2>3, <2>4 DEF TurnsInv
<1>10. ServedInv'
  <2>1. ASSUME NEW b \in Apps
        PROVE  /\ Waits("request", b)' \/ marker[b] # 0 => b \in asked
               /\ marker[b] = 0 <=> svcSecret'[b] = 0
               /\ marker[b] = 2 => b \in wanted /\ <<b, svcSecret'[b]>> \in granted'
               /\ marker[b] # 0 =>
                     \A c \in ClientsOf({b}) : tracks[c] = svcSecret'[b] \/ c \in clientHooks'
    <3>0. /\ Waits("request", b) \/ marker[b] # 0 => b \in asked
          /\ marker[b] = 0 <=> svcSecret[b] = 0
          /\ marker[b] = 2 => b \in wanted /\ <<b, svcSecret[b]>> \in granted
          /\ marker[b] # 0 =>
                \A c \in ClientsOf({b}) : tracks[c] = svcSecret[b] \/ c \in clientHooks
      BY <1>0 DEF ServedInv
    <3>1. CASE b # a
      <4>1. granted \subseteq granted' /\ clientHooks \subseteq clientHooks'
        OBVIOUS
      <4>2. svcSecret'[b] = svcSecret[b]
        BY <1>1, <3>1
      <4> QED
        BY <1>2, <3>0, <4>1, <4>2
    <3>2. CASE b = a
      <4>1. marker[b] # 0 /\ svcSecret'[b] = new /\ new # 0
        BY <1>1, <3>0, <3>2 DEF old
      <4>2. \A c \in ClientsOf({b}) : c \in clientHooks'
        <5>1. \A c \in ClientsOf({a}) : tracks[c] # 0
          BY <1>1, <1>3, <1>4
        <5> QED
          BY <3>2, <5>1
      <4>3. marker[b] = 2 => <<b, new>> \in granted'
        BY <3>0, <3>2 DEF RotatedRoles, new
      <4> QED
        BY <1>2, <3>0, <4>1, <4>2, <4>3
    <3> QED
      BY <3>1, <3>2
  <2>2. ASSUME NEW u \in retired'
        PROVE  /\ Labelled(u[1])
               /\ Waits("remove", u[1]) \/ \E c \in ClientsOf({u[1]}) : tracks[c] = u[2]
    <3>1. CASE u \in retired
      BY <1>0, <3>1 DEF ServedInv
    <3>2. CASE u = <<a, old>>
      <4>1. PICK c \in Clients : c[1] = a
        BY SvcAssumption
      <4> QED
        BY <1>3, <1>4, <3>2, <4>1
    <3> QED
      BY <2>2, <3>1, <3>2 DEF Retired, old
  <2>3. "kill" \in svcPlan \/ \A u \in svcUsers' : u \in retired' \/ u[2] = svcSecret'[u[1]]
    <3>1. SUFFICES ASSUME "kill" \notin svcPlan, NEW u \in svcUsers' PROVE u \in retired' \/ u[2] = svcSecret'[u[1]]
      OBVIOUS
    <3>2. CASE u = <<a, new>>
      BY <1>1, <3>2
    <3>3. CASE u \in svcUsers
      <4>1. (u \in retired \/ u[2] = svcSecret[u[1]]) /\ u[1] \in Apps /\ u = <<u[1], u[2]>>
        BY <1>0, <3>1, <3>3, Names DEF ServedInv
      <4>2. u[1] = a => u \in retired'
        BY <4>1 DEF Retired
      <4> QED
        BY <1>1, <4>1, <4>2 DEF Retired
    <3> QED
      BY <3>1, <3>2, <3>3 DEF new
  <2> QED
    BY <1>2, <1>3, <2>1, <2>2, <2>3 DEF ServedInv
<1> QED
  BY <1>7, <1>8, <1>9, <1>10 DEF SvcInv

LEMMA RotateStep ==
    ASSUME SvcInv, NEW a \in Apps, SvcRotate(a)
    PROVE  SvcInv'
<1>0. SvcTypeOK /\ TurnsInv /\ ServedInv /\ Waits("rotate", a)
  BY DEF SvcInv, SvcRotate, Waits
<1>1. SvcTypeOK'
  BY <1>0, RotateStepType DEF TurnsInv
<1>2. UNCHANGED <<booted, asked, wanted, marker, tracks, svcPlan>>
  BY DEF SvcRotate
<1>3. \A b \in Apps : made[b] \in Nat
  BY <1>0 DEF SvcTypeOK
<1>4. CASE /\ svcHooks' = svcHooks \ {<<"rotate", a>>}
           /\ UNCHANGED <<svcUsers, granted, made, svcSecret, retired, clientHooks>>
  <2>1. \A j, b : Waits(j, b)' <=> Waits(j, b) /\ ~ (j = "rotate" /\ b = a)
    BY <1>4, HookHandled
  <2>2. \A b \in Apps : Waits("request", b)' => b \in asked'
    BY <1>0, <1>2, <2>1 DEF ServedInv
  <2>3. \A b \in Apps : made[b] <= made'[b]
    BY <1>3, <1>4
  <2> QED
    BY <1>1, <1>2, <1>4, <2>1, <2>2, <2>3, QuietStep
<1>5. CASE /\ SvcFault("kill")
           /\ svcUsers' = svcUsers \cup {<<a, made[a] + 1>>}
           /\ granted' = granted \cup {<<b, made[a] + 1>> : b \in RotatedRoles(a)}
           /\ made' = [made EXCEPT ![a] = @ + 1]
           /\ UNCHANGED <<svcSecret, retired, svcHooks, clientHooks>>
  <2>1. \A j, b : Waits(j, b)' <=> Waits(j, b)
    BY <1>5 DEF Waits
  <2>2. \A b \in Apps : Waits("request", b)' => b \in asked'
    BY <1>0, <1>2, <2>1 DEF ServedInv
  <2>3. \A b \in Apps : made[b] <= made'[b]
    BY <1>0, <1>3, <1>5 DEF SvcTypeOK
  <2>4. "kill" \in svcPlan /\ svcUsers \subseteq svcUsers' /\ granted \subseteq granted'
    BY <1>5 DEF SvcFault
  <2> QED
    BY <1>1, <1>2, <1>5, <2>1, <2>2, <2>3, <2>4, QuietStep
<1>6. CASE /\ Labelled(a) /\ made[a] < MaxUsers
           /\ svcUsers' = svcUsers \cup {<<a, made[a] + 1>>}
           /\ granted' = granted \cup {<<b, made[a] + 1>> : b \in RotatedRoles(a)}
           /\ made' = [made EXCEPT ![a] = @ + 1]
           /\ svcSecret' = [svcSecret EXCEPT ![a] = made[a] + 1]
           /\ retired' = Retired(a)
           /\ svcHooks' = svcHooks \ {<<"rotate", a>>}
           /\ clientHooks' = clientHooks \cup {c \in ClientsOf({a}) : tracks[c] # 0}
  BY <1>0, <1>1, <1>2, <1>6, RotatedStep
<1> QED
  BY <1>4, <1>5, <1>6 DEF SvcRotate

\* Who is removed has been replaced, and nobody beside it lags.
LEMMA DoomedUnused ==
    ASSUME SvcInv, NEW a \in Apps, Waits("remove", a),
           NEW u \in retired, CreatedFor(a, u)
    PROVE  /\ u[2] # svcSecret[u[1]]
           /\ \/ {"together", "similar"} \subseteq svcPlan
              \/ \A c \in Clients : Lags(c) => u # <<c[1], tracks[c]>>
<1>0. SvcTypeOK /\ SecretsInv /\ TurnsInv
  BY DEF SvcInv
<1>1. u[1] \in Apps /\ u[2] \in Nat /\ svcSecret[u[1]] \in Nat /\ u[2] < svcSecret[u[1]]
  BY <1>0, Names DEF SecretsInv
<1>2. {"together", "similar"} \subseteq svcPlan \/ u[1] \in Beside(a)
  BY <1>1 DEF CreatedFor, Beside
<1>3. \A c \in Clients : c[1] \in Beside(a) => ~ Lags(c)
  BY <1>0 DEF TurnsInv, ClientsOf
<1> QED
  BY <1>1, <1>2, <1>3

LEMMA RemoveStep ==
    ASSUME SvcInv, NEW a \in Apps, SvcRemove(a)
    PROVE  SvcInv'
<1>0. /\ SvcTypeOK /\ SecretsInv /\ LagInv /\ TurnsInv /\ ServedInv /\ SvcTypeOK'
      /\ Waits("remove", a)
  BY RemoveStepType DEF SvcInv, SvcRemove, Waits
<1> DEFINE doomed == {user \in retired : CreatedFor(a, user)}
<1>1. UNCHANGED <<booted, asked, wanted, svcSecret, marker, tracks, clientHooks, made, svcPlan>>
  BY DEF SvcRemove
<1>2. /\ \A c : Lags(c)' <=> Lags(c)
      /\ \A b : Beside(b)' = Beside(b) /\ Labelled(b)' = Labelled(b)
      /\ \A X : ClientsOf(X)' = ClientsOf(X)
  BY <1>1 DEF Lags, Beside, Labelled, ClientsOf
<1>3. CASE /\ ~ Labelled(a) /\ svcHooks' = svcHooks \ {<<"remove", a>>}
           /\ UNCHANGED <<svcUsers, granted, retired>>
  <2>1. \A j, b : Waits(j, b)' <=> Waits(j, b) /\ ~ (j = "remove" /\ b = a)
    BY <1>3, HookHandled
  <2>2. \A b \in Apps : Waits("request", b)' => b \in asked'
    BY <1>0, <1>1, <2>1 DEF ServedInv
  <2>3. \A b \in Apps : made[b] <= made'[b]
    BY <1>0, <1>1 DEF SvcTypeOK
  <2>4. \A u \in retired : u[1] # a
    BY <1>0, <1>3 DEF ServedInv
  <2> QED
    BY <1>0, <1>1, <1>3, <2>1, <2>2, <2>3, <2>4, QuietStep
<1>4. ASSUME NEW gone, gone \subseteq doomed, DeleteEach(gone),
             \/ retired' = retired \ doomed /\ gone = doomed /\ svcHooks' = svcHooks \ {<<"remove", a>>}
             \/ "kill" \in svcPlan /\ UNCHANGED <<retired, svcHooks>>
      PROVE  SvcInv'
  <2>1. /\ \A j, b : Waits(j, b)' => Waits(j, b)
        /\ \A j, b : Waits(j, b) => Waits(j, b)' \/ (j = "remove" /\ b = a)
        /\ retired' \subseteq retired
    BY <1>4, HookHandled DEF Waits
  <2>2. svcUsers' = svcUsers \ gone /\ granted' = granted \ gone
    BY <1>4 DEF DeleteEach
  <2>3. \A u \in gone : /\ u[2] # svcSecret[u[1]]
                        /\ \/ {"together", "similar"} \subseteq svcPlan
                           \/ \A c \in Clients : Lags(c) => u # <<c[1], tracks[c]>>
    BY <1>0, <1>4, DoomedUnused
  <2>4. \A b \in Apps : <<b, svcSecret[b]>> \notin gone
    <3>1. \A b \in Apps : LET u == <<b, svcSecret[b]>> IN u[2] = svcSecret[u[1]]
      OBVIOUS
    <3> QED
      BY <2>3, <3>1
  <2>5. SecretsInv'
    BY <1>0, <1>1, <2>1, <2>2, <2>4 DEF SecretsInv
  <2>6. LagInv'
    BY <1>0, <1>1, <1>2, <2>2, <2>3 DEF LagInv
  <2>7. TurnsInv'
    BY <1>0, <1>1, <1>2, <2>1 DEF TurnsInv
  <2>8. ServedInv'
    <3>1. ASSUME NEW b \in Apps
          PROVE  /\ Waits("request", b)' \/ marker[b] # 0 => b \in asked
                 /\ marker[b] = 0 <=> svcSecret[b] = 0
                 /\ marker[b] = 2 => b \in wanted /\ <<b, svcSecret[b]>> \in granted'
                 /\ marker[b] # 0 =>
                       \A c \in ClientsOf({b}) : tracks[c] = svcSecret[b] \/ c \in clientHooks
      BY <1>0, <2>1, <2>2, <2>4 DEF ServedInv
    <3>2. ASSUME NEW u \in retired'
          PROVE  /\ Labelled(u[1])
                 /\ Waits("remove", u[1])' \/ \E c \in ClientsOf({u[1]}) : tracks[c] = u[2]
      <4>1. u \in retired /\ (u[1] = a => CreatedFor(a, u))
        BY <2>1, <3>2 DEF CreatedFor
      <4>2. Waits("remove", u[1]) => Waits("remove", u[1])'
        <5>1. CASE "kill" \in svcPlan /\ UNCHANGED <<retired, svcHooks>>
          BY <5>1 DEF Waits
        <5>2. CASE retired' = retired \ doomed
          BY <2>1, <3>2, <4>1, <5>2
        <5> QED
          BY <1>4, <5>1, <5>2
      <4> QED
        BY <1>0, <4>1, <4>2 DEF ServedInv
    <3>3. "kill" \in svcPlan \/ \A u \in svcUsers' : u \in retired' \/ u[2] = svcSecret[u[1]]
      BY <1>0, <1>4, <2>2 DEF ServedInv
    <3> QED
      BY <1>1, <1>2, <3>1, <3>2, <3>3 DEF ServedInv
  <2> QED
    BY <1>0, <2>5, <2>6, <2>7, <2>8 DEF SvcInv
<1> QED
  BY <1>3, <1>4 DEF SvcRemove, FirstOf, SvcFault

\* A client moves to the latest revision; the last one to leave the one before
\* has its user removed.
LEMMA ConfiguresStep ==
    ASSUME SvcInv, NEW c \in Clients, ClientConfigures(c)
    PROVE  SvcInv'
<1>0. /\ SvcTypeOK /\ SecretsInv /\ LagInv /\ TurnsInv /\ ServedInv /\ SvcTypeOK'
  BY WorldStepType DEF SvcInv
<1> DEFINE a == c[1]
           moved == tracks[c] \notin {0, svcSecret[a]}
                      /\ \A d \in Clients : d[1] = a /\ d # c => tracks[d] # tracks[c]
<1>1. /\ UNCHANGED <<booted, asked, wanted, svcSecret, marker, svcUsers, granted, retired, made, svcPlan>>
      /\ clientHooks' = clientHooks \ {c}
      /\ tracks' = [tracks EXCEPT ![c] = svcSecret[a]]
  BY DEF ClientConfigures
<1>2. /\ a \in Apps /\ \A d \in Clients : d[1] \in Apps
      /\ \A d \in Clients \ {c} : tracks'[d] = tracks[d]
      /\ tracks'[c] = svcSecret[a]
      /\ svcSecret[a] \in Nat
  BY <1>0, <1>1, SvcAssumption DEF SvcTypeOK
<1>3. /\ \A b : Beside(b)' = Beside(b) /\ Labelled(b)' = Labelled(b)
      /\ \A X : ClientsOf(X)' = ClientsOf(X)
      /\ \A X : \A d : d \in ClientsOf(X) <=> d \in Clients /\ d[1] \in X
      /\ \A b \in Apps : b \in Beside(b) /\ Beside(b) \subseteq Apps
      /\ \A b \in Apps : a \in Beside(b) => b \in Beside(a)
      /\ \A b, d, e \in Apps : d \in Beside(b) /\ e \in Beside(b) => e \in Beside(d)
  BY <1>1, <1>2 DEF Beside, Labelled, ClientsOf
<1>4. \A d \in Clients : Lags(d)' <=> Lags(d) /\ d # c
  BY <1>1, <1>2 DEF Lags
<1>5. svcHooks' = (IF moved THEN svcHooks \cup {<<"remove", a>>} ELSE svcHooks)
  <2>1. (\E d \in ClientsOf({c[1]}) : tracks'[d] = tracks[c])
          <=> \/ tracks[c] = svcSecret[a]
              \/ \E d \in Clients : d[1] = a /\ d # c /\ tracks[d] = tracks[c]
    BY <1>2, <1>3
  <2> QED
    BY <1>2, <2>1 DEF ClientConfigures
<1>6. moved => Lags(c)
  BY DEF Lags
<1>7. moved => \A d \in Clients : d[1] \in Beside(a) => ~ Lags(d)'
  BY <1>0, <1>4, <1>6 DEF LagInv
<1>8. \A k, b : Waits(k, b)' <=> Waits(k, b) \/ (moved /\ k = "remove" /\ b = a)
  BY <1>5 DEF Waits
<1>9. Lags(c) => \A b \in Apps : Waits("rotate", b) => a \notin Beside(b)
  BY <1>0, <1>3 DEF TurnsInv
<1>10. SecretsInv'
  BY <1>0, <1>1, <1>2 DEF SecretsInv
<1>11. LagInv'
  <2>1. \A d \in Clients : Lags(d)' => d \in clientHooks'
    BY <1>0, <1>1, <1>4 DEF LagInv
  <2>2. \/ {"together", "similar"} \subseteq svcPlan
        \/ \A d \in Clients : Lags(d)' => <<d[1], tracks'[d]>> \in svcUsers
    BY <1>0, <1>2, <1>4 DEF LagInv
  <2>3. \A d, e \in Clients : Lags(d)' /\ Lags(e)' /\ e[1] \in Beside(d[1])
                                => d[1] = e[1] /\ tracks'[d] = tracks'[e]
    BY <1>0, <1>2, <1>4 DEF LagInv
  <2> QED
    BY <1>1, <1>3, <2>1, <2>2, <2>3 DEF LagInv
<1>12. TurnsInv'
  <2>1. ASSUME NEW b \in Apps, Waits("remove", b)', NEW d \in Clients, d[1] \in Beside(b)
        PROVE  ~ Lags(d)'
    <3>1. CASE Waits("remove", b)
      BY <1>0, <1>3, <1>4, <2>1, <3>1 DEF TurnsInv
    <3>2. CASE moved /\ b = a
      BY <1>7, <2>1, <3>2
    <3> QED
      BY <1>8, <2>1, <3>1, <3>2
  <2>2. ASSUME NEW b \in Apps, Waits("rotate", b)'
        PROVE  /\ svcSecret[b] # 0
               /\ \A d \in ClientsOf({b}) : tracks'[d] = svcSecret[b]
               /\ \A d \in ClientsOf(Beside(b)) : ~ Lags(d)'
               /\ \A e \in Beside(b) : ~ Waits("remove", e)' /\ (Waits("rotate", e)' => b = e)
    <3>1. Waits("rotate", b)
      BY <1>8, <2>2
    <3>2. /\ svcSecret[b] # 0
          /\ \A d \in ClientsOf({b}) : tracks[d] = svcSecret[b]
          /\ \A d \in ClientsOf(Beside(b)) : ~ Lags(d)
          /\ \A e \in Beside(b) : ~ Waits("remove", e) /\ (Waits("rotate", e) => b = e)
      BY <1>0, <3>1 DEF TurnsInv
    <3>3. \A d \in ClientsOf({b}) : tracks'[d] = svcSecret[b]
      BY <1>2, <1>3, <3>2
    <3>4. \A e \in Beside(b) : ~ Waits("remove", e)'
      BY <1>6, <1>8, <1>9, <3>1, <3>2
    <3> QED
      BY <1>3, <1>4, <1>8, <3>2, <3>3, <3>4
  <2> QED
    BY <1>1, <1>3, <2>1, <2>2 DEF TurnsInv
<1>13. ServedInv'
  <2>1. ASSUME NEW b \in Apps
        PROVE  /\ Waits("request", b)' \/ marker[b] # 0 => b \in asked
               /\ marker[b] = 0 <=> svcSecret[b] = 0
               /\ marker[b] = 2 => b \in wanted /\ <<b, svcSecret[b]>> \in granted
               /\ marker[b] # 0 =>
                     \A d \in ClientsOf({b}) : tracks'[d] = svcSecret[b] \/ d \in clientHooks'
    <3>1. /\ Waits("request", b) \/ marker[b] # 0 => b \in asked
          /\ marker[b] = 0 <=> svcSecret[b] = 0
          /\ marker[b] = 2 => b \in wanted /\ <<b, svcSecret[b]>> \in granted
          /\ marker[b] # 0 =>
                \A d \in ClientsOf({b}) : tracks[d] = svcSecret[b] \/ d \in clientHooks
      BY <1>0 DEF ServedInv
    <3>2. marker[b] # 0 => \A d \in ClientsOf({b}) : tracks'[d] = svcSecret[b] \/ d \in clientHooks'
      <4> SUFFICES ASSUME marker[b] # 0, NEW d \in ClientsOf({b})
                   PROVE  tracks'[d] = svcSecret[b] \/ d \in clientHooks'
        OBVIOUS
      <4>1. CASE d = c
        BY <1>2, <1>3, <4>1
      <4>2. CASE d # c
        BY <1>1, <1>2, <1>3, <3>1, <4>2
      <4> QED
        BY <4>1, <4>2
    <3> QED
      BY <1>8, <3>1, <3>2
  <2>2. ASSUME NEW u \in retired
        PROVE  /\ Labelled(u[1])
               /\ Waits("remove", u[1])' \/ \E d \in ClientsOf({u[1]}) : tracks'[d] = u[2]
    <3>1. Labelled(u[1]) /\ u[2] < svcSecret[u[1]] /\ u[1] \in Apps /\ u[2] \in 1 .. MaxUsers
      BY <1>0, Names DEF ServedInv, SecretsInv
    <3>2. CASE Waits("remove", u[1])
      BY <1>8, <3>1, <3>2
    <3>3. ASSUME NEW d \in Clients, d[1] = u[1], tracks[d] = u[2]
          PROVE  Waits("remove", u[1])' \/ \E e \in Clients : e[1] = u[1] /\ tracks'[e] = u[2]
      <4>1. CASE d # c
        BY <1>2, <3>3, <4>1
      <4>2. CASE d = c /\ \E e \in Clients : e[1] = a /\ e # c /\ tracks[e] = tracks[c]
        BY <1>2, <3>3, <4>2
      <4>3. CASE d = c /\ ~ \E e \in Clients : e[1] = a /\ e # c /\ tracks[e] = tracks[c]
        <5>1. svcSecret[a] \in Nat /\ u[2] \in 1 .. MaxUsers /\ MaxUsers \in Nat
          BY <1>2, <3>1, SvcAssumption
        <5>2. tracks[c] \notin {0, svcSecret[a]}
          BY <3>1, <3>3, <4>3, <5>1
        <5> QED
          BY <1>8, <3>3, <4>3, <5>2
      <4> QED
        BY <4>1, <4>2, <4>3
    <3>4. Waits("remove", u[1]) \/ \E d \in Clients : d[1] = u[1] /\ tracks[d] = u[2]
      <4>1. Waits("remove", u[1]) \/ \E d \in ClientsOf({u[1]}) : tracks[d] = u[2]
        BY <1>0 DEF ServedInv
      <4> QED
        BY <1>3, <4>1
    <3> QED
      BY <1>3, <3>1, <3>2, <3>3, <3>4
  <2> QED
    BY <1>0, <1>1, <1>3, <2>1, <2>2 DEF ServedInv
<1> QED
  BY <1>0, <1>10, <1>11, <1>12, <1>13 DEF SvcInv

\* A rotation comes due where nobody lags and nothing waits.
LEMMA DueStep ==
    ASSUME SvcInv, NEW a \in Apps, SvcRotationDue(a)
    PROVE  SvcInv'
<1>0. /\ SvcTypeOK /\ SecretsInv /\ LagInv /\ TurnsInv /\ ServedInv /\ SvcTypeOK'
  BY WorldStepType DEF SvcInv
<1>1. /\ UNCHANGED <<booted, asked, wanted, svcSecret, marker, svcUsers, granted, tracks,
                     retired, clientHooks, made, svcPlan>>
      /\ svcHooks' = svcHooks \cup {<<"rotate", a>>}
      /\ svcSecret[a] # 0 /\ NothingWaits(Beside(a))
  BY DEF SvcRotationDue, Beside
<1>2. /\ \A c : Lags(c)' <=> Lags(c)
      /\ \A b : Beside(b)' = Beside(b) /\ Labelled(b)' = Labelled(b)
      /\ \A X : ClientsOf(X)' = ClientsOf(X)
      /\ \A X : \A c : c \in ClientsOf(X) <=> c \in Clients /\ c[1] \in X
      /\ \A b \in Apps : b \in Beside(b) /\ (a \in Beside(b) => b \in Beside(a))
  BY <1>1 DEF Lags, Beside, Labelled, ClientsOf
<1>3. \A k, b : Waits(k, b)' <=> Waits(k, b) \/ (k = "rotate" /\ b = a)
  BY <1>1 DEF Waits
<1>4. /\ \A k : \A b \in Beside(a) : ~ Waits(k, b)
      /\ \A c \in Clients : c[1] \in Beside(a) => c \notin clientHooks
  BY <1>1, <1>2 DEF NothingWaits, Waits
<1>5. /\ \A c \in ClientsOf(Beside(a)) : ~ Lags(c)
      /\ \A c \in ClientsOf({a}) : tracks[c] = svcSecret[a]
  <2>1. \A c \in Clients : c[1] \in Beside(a) => ~ Lags(c)
    BY <1>0, <1>4 DEF LagInv
  <2>2. marker[a] # 0
    BY <1>0, <1>1 DEF ServedInv
  <2>3. \A c \in ClientsOf({a}) : tracks[c] = svcSecret[a] \/ c \in clientHooks
    BY <1>0, <2>2 DEF ServedInv
  <2>4. \A c \in ClientsOf({a}) : c \notin clientHooks
    BY <1>2, <1>4
  <2> QED
    BY <1>2, <2>1, <2>3, <2>4
<1>6. SecretsInv' /\ LagInv' /\ ServedInv'
  BY <1>0, <1>1, <1>2, <1>3 DEF SecretsInv, LagInv, ServedInv
<1>7. TurnsInv'
  <2>1. ASSUME NEW b \in Apps, Waits("rotate", b), a \in Beside(b) PROVE FALSE
    BY <1>2, <1>4, <2>1
  <2>2. ASSUME NEW b \in Apps, Waits("rotate", b)'
        PROVE  /\ svcSecret[b] # 0
               /\ \A c \in ClientsOf({b}) : tracks[c] = svcSecret[b]
               /\ \A c \in ClientsOf(Beside(b)) : ~ Lags(c)
               /\ \A e \in Beside(b) : ~ Waits("remove", e) /\ (Waits("rotate", e)' => b = e)
    <3>1. CASE b = a
      BY <1>1, <1>3, <1>4, <1>5, <3>1
    <3>2. CASE b # a /\ Waits("rotate", b)
      BY <1>0, <1>3, <2>1, <3>2 DEF TurnsInv
    <3> QED
      BY <1>3, <2>2, <3>1, <3>2
  <2> QED
    BY <1>0, <1>1, <1>2, <1>3, <2>2 DEF TurnsInv
<1> QED
  BY <1>0, <1>6, <1>7 DEF SvcInv

LEMMA SvcStepInv == SvcInv /\ [SvcNext]_svcVars => SvcInv'
<1> SUFFICES ASSUME SvcInv, [SvcNext]_svcVars PROVE SvcInv'
  OBVIOUS
<1>1. CASE UNCHANGED svcVars
  <2>1. SvcTypeOK'
    BY <1>1 DEF SvcInv, SvcTypeOK, svcVars
  <2>2. \A k, a : Waits(k, a)' <=> Waits(k, a)
    BY <1>1 DEF Waits, svcVars
  <2>3. \A a \in Apps : Waits("request", a) => a \in asked'
    BY <1>1 DEF SvcInv, ServedInv, svcVars
  <2>4. \A a \in Apps : made[a] <= made'[a]
    <3>1. \A a \in Apps : made[a] \in Nat
      BY DEF SvcInv, SvcTypeOK
    <3> QED
      BY <1>1, <3>1 DEF svcVars
  <2> QED
    BY <1>1, <2>1, <2>2, <2>3, <2>4, QuietStep DEF svcVars
<1>2. CASE ConfigureAppLeader \/ \E a \in Apps : Request(a)
  BY <1>2, RequestStep
<1>3. CASE \E a \in Apps : SvcRotate(a) \/ SvcRemove(a)
  BY <1>3, RotateStep, RemoveStep
<1>4. CASE \E c \in Clients : ClientConfigures(c)
  BY <1>4, ConfiguresStep
<1>5. CASE \E a \in Apps : \/ \E roles \in BOOLEAN : RegisterServices(a, roles)
                           \/ SvcRotationDue(a)
  BY <1>5, RegisterServicesStep, DueStep
<1> QED
  BY <1>1, <1>2, <1>3, <1>4, <1>5 DEF SvcNext, SvcHook

LEMMA SvcInvAlways == SvcSpec => []SvcInv
BY SvcInitInv, SvcStepInv, PTL DEF SvcSpec

\* The types hold for any applications, clients and rotations, whatever fails.
THEOREM SvcTypeCorrect == SvcSpec => []SvcTypeOK
<1>1. SvcInv => SvcTypeOK
  BY DEF SvcInv
<1> QED
  BY <1>1, SvcInvAlways, PTL

\* The credentials that a client reads work, for any applications and clients,
\* through any number of rotations, whatever hooks die (_on_secret_rotate,
\* _on_secret_remove).
THEOREM ClientsCanLogInHolds == SvcSpec => []ClientsCanLogIn
<1>1. SvcInv => ClientsCanLogIn
  <2> SUFFICES ASSUME SvcInv, ~ ({"together", "similar"} \subseteq svcPlan),
                      NEW c \in Clients, tracks[c] # 0
               PROVE  <<c[1], tracks[c]>> \in svcUsers
    BY DEF ClientsCanLogIn
  <2>1. CASE Lags(c)
    BY <2>1 DEF SvcInv, LagInv
  <2>2. CASE tracks[c] = svcSecret[c[1]]
    BY <2>2, SvcAssumption DEF SvcInv, SecretsInv
  <2> QED
    BY <2>1, <2>2 DEF Lags
<1> QED
  BY <1>1, SvcInvAlways, PTL

\* Who has asked is served when nothing waits, and keystone has no other service
\* users, for any applications and clients (register_service, _on_secret_remove).
THEOREM AskedIsServedHolds == SvcSpec => []AskedIsServed
<1>1. SvcInv => AskedIsServed
  <2> SUFFICES ASSUME SvcInv, NothingWaits(Apps), Outstanding = {}
               PROVE  /\ \A a \in asked : /\ svcSecret[a] # 0
                                          /\ \A c \in ClientsOf({a}) : tracks[c] = svcSecret[a]
                                          /\ a \in wanted => <<a, svcSecret[a]>> \in granted
                      /\ \/ "kill" \in svcPlan
                         \/ svcUsers = {<<a, svcSecret[a]>> : a \in asked}
    BY DEF AskedIsServed
  <2>0. SvcTypeOK /\ SecretsInv /\ LagInv /\ ServedInv
    BY DEF SvcInv
  <2>1. /\ \A k : \A a \in Apps : ~ Waits(k, a)
        /\ \A c \in Clients : c \notin clientHooks
    BY SvcAssumption DEF NothingWaits, Waits, ClientsOf
  <2>2. \A a \in asked : a \in Apps /\ marker[a] = IF a \in wanted THEN 2 ELSE 1
    BY <2>0 DEF Outstanding, SvcTypeOK
  <2>3. \A a \in asked : /\ svcSecret[a] # 0
                         /\ \A c \in ClientsOf({a}) : tracks[c] = svcSecret[a]
                         /\ a \in wanted => <<a, svcSecret[a]>> \in granted
    <3> TAKE a \in asked
    <3>1. a \in Apps /\ marker[a] # 0 /\ (a \in wanted => marker[a] = 2)
      BY <2>2
    <3>2. \A c \in ClientsOf({a}) : c \in Clients
      BY DEF ClientsOf
    <3> QED
      BY <2>0, <2>1, <3>1, <3>2 DEF ServedInv
  <2>4. retired = {}
    <3>1. SUFFICES ASSUME NEW u \in retired PROVE FALSE
      OBVIOUS
    <3>2. u[1] \in Apps /\ u[2] \in 1 .. MaxUsers /\ u[2] < svcSecret[u[1]] /\ svcSecret[u[1]] \in Nat
      BY <2>0, Names DEF SecretsInv
    <3>3. PICK c \in ClientsOf({u[1]}) : tracks[c] = u[2]
      BY <2>0, <2>1, <3>2 DEF ServedInv
    <3>4. c \in Clients /\ c[1] = u[1]
      BY DEF ClientsOf
    <3>5. Lags(c)
      BY <3>2, <3>3, <3>4 DEF Lags
    <3> QED
      BY <2>0, <2>1, <3>4, <3>5 DEF LagInv
  <2>5. \A a \in asked : <<a, svcSecret[a]>> \in svcUsers
    BY <2>0, <2>2, <2>3 DEF SecretsInv
  <2>6. "kill" \in svcPlan \/ \A u \in svcUsers : u[1] \in asked /\ u = <<u[1], svcSecret[u[1]]>>
    <3>1. SUFFICES ASSUME "kill" \notin svcPlan, NEW u \in svcUsers
                   PROVE  u[1] \in asked /\ u = <<u[1], svcSecret[u[1]]>>
      OBVIOUS
    <3>2. u[1] \in Apps /\ u[2] \in 1 .. MaxUsers /\ u = <<u[1], u[2]>>
      BY <2>0, Names
    <3>3. u[2] = svcSecret[u[1]]
      BY <2>0, <2>4, <3>1 DEF ServedInv
    <3>4. svcSecret[u[1]] # 0
      BY <3>2, <3>3, SvcAssumption
    <3> QED
      BY <2>0, <3>2, <3>3, <3>4 DEF ServedInv
  <2> QED
    BY <2>3, <2>5, <2>6
<1> QED
  BY <1>1, SvcInvAlways, PTL

-----------------------------------------------------------------------------
(* Service users over identity-ops.                                        *)

LEMMA VersionsFacts ==
    /\ 1 \in Versions
    /\ NoUser \notin Versions
    /\ \A v \in Versions : v \in Nat
BY BoundAssumption DEF Versions, NoUser

\* Requests of different kinds differ.
LEMMA RequestFacts ==
    /\ \A v \in Versions : Create(v) \in Requests /\ Create(v) # NoRequest
    /\ \A S \in SUBSET Versions : Delete(S) \in Requests /\ Delete(S) # NoRequest
    /\ \A v, w : Create(v) = Create(w) => v = w
    /\ \A v, S : Create(v) # Delete(S)
    /\ \A v : Create(v)[1] = "create"
    /\ \A S : Delete(S)[1] = "delete"
    /\ \A S, T : Delete(S) = Delete(T) => S = T
    /\ NoRequest[1] = "none"
BY DEF Create, Delete, NoRequest, Requests

Response == [to : Requests \cup {NoRequest}, ok : BOOLEAN, deleted : SUBSET Versions]

LEMMA NoResponseType ==
    /\ NoResponse \in Response
    /\ NoResponse.to = NoRequest /\ NoResponse.ok = FALSE /\ NoResponse.deleted = {}
BY DEF NoResponse, Response

LEMMA InitType == Init => TypeOK
<1> SUFFICES ASSUME Init PROVE TypeOK
  OBVIOUS
<1>1. response \in Response
  BY NoResponseType DEF Init
<1>2. faults \in 0 .. MaxFaults
  BY FaultAssumption DEF Init
<1>3. account \in [Versions -> Versions \cup {NoUser}]
  BY DEF Init
<1>4. processed \in [Units -> SUBSET Requests] /\ ready \in [Units -> BOOLEAN]
  BY DEF Init
<1> QED
  BY <1>1, <1>2, <1>3, <1>4 DEF Init, TypeOK, Response

LEMMA FaultType ==
    ASSUME TypeOK, NEW k, Fault(k)
    PROVE  faults' \in 0 .. MaxFaults
BY FaultAssumption DEF Fault, TypeOK

\* The client's hooks keep the types.
LEMMA ClientType ==
    ASSUME TypeOK
    PROVE  /\ \A u \in Units : ProviderReady(u) \/ ResponseAvailable(u) => TypeOK'
           /\ SecretRotate \/ SecretRemove => TypeOK'
<1> USE VersionsFacts, RequestFacts
<1>1. ASSUME NEW u \in Units, ProviderReady(u) PROVE TypeOK'
  <2>1. cred' \in Versions \cup {NoUser}
    BY <1>1 DEF ProviderReady, TypeOK
  <2>2. ready' \in [Units -> BOOLEAN] /\ joined' \subseteq Units
    BY <1>1 DEF ProviderReady, TypeOK
  <2>3. request' \in Requests \cup {NoRequest}
    <3>1. CASE u = leader
      <4>1. cred' \in Versions
        BY <1>1, <3>1 DEF ProviderReady, TypeOK
      <4>2. request' \in {request, Create(cred')}
        BY <1>1, <3>1 DEF ProviderReady, RequestOps
      <4> QED
        BY <4>1, <4>2 DEF TypeOK
    <3>2. CASE u # leader
      BY <1>1, <3>2 DEF ProviderReady, TypeOK
    <3> QED
      BY <3>1, <3>2
  <2> QED
    BY <1>1, <2>1, <2>2, <2>3 DEF ProviderReady, TypeOK
<1>2. ASSUME NEW u \in Units, ResponseAvailable(u) PROVE TypeOK'
  <2>1. processed' \in [Units -> SUBSET Requests]
    <3>1. {response.to} \ {NoRequest} \subseteq Requests
      BY DEF TypeOK
    <3> QED
      BY <1>2, <3>1 DEF ResponseAvailable, TypeOK
  <2>2. /\ config' \in Versions \cup {NoUser} /\ oldUsers' \subseteq Versions
        /\ obsolete' \in BOOLEAN
    <3>1. CASE ProcessCreateUser
      BY <3>1 DEF ProcessCreateUser, TypeOK
    <3>2. CASE ProcessDeleteUser
      BY <3>2 DEF ProcessDeleteUser, TypeOK
    <3>3. CASE UNCHANGED <<config, oldUsers, obsolete>>
      BY <3>3 DEF TypeOK
    <3> QED
      BY <1>2, <3>1, <3>2, <3>3 DEF ResponseAvailable
  <2> QED
    BY <1>2, <2>1, <2>2 DEF ResponseAvailable, TypeOK
<1>3. CASE SecretRotate
  <2>1. cred' \in Versions
    BY <1>3, BoundAssumption DEF SecretRotate, Versions
  <2>2. request' \in {request, Create(cred')}
    BY <1>3 DEF SecretRotate, RequestOps
  <2> QED
    BY <1>3, <2>1, <2>2 DEF SecretRotate, TypeOK
<1>4. CASE SecretRemove
  <2>1. request' \in {request, Delete(oldUsers)}
    BY <1>4 DEF SecretRemove, RequestOps
  <2>2. Delete(oldUsers) \in Requests
    BY DEF TypeOK
  <2>3. request' \in Requests \cup {NoRequest} /\ obsolete' \in BOOLEAN
    BY <1>4, <2>1, <2>2 DEF SecretRemove, TypeOK
  <2> QED
    BY <1>4, <2>3 DEF SecretRemove, TypeOK
<1> QED
  BY <1>1, <1>2, <1>3, <1>4

LEMMA RespondType ==
    ASSUME TypeOK, NEW ok \in BOOLEAN, NEW D \in SUBSET Versions, Respond(ok, D)
    PROVE  /\ response' \in Response /\ changed' \subseteq Units
           /\ busy' \in Requests \cup {NoRequest}
           /\ response'.to = busy /\ response'.ok = ok /\ response'.deleted = D
           /\ busy' = NoRequest /\ changed' = Units
BY DEF Respond, Response, TypeOK

\* What a request does to the accounts, answered or not.
LEMMA AccountTypes ==
    ASSUME TypeOK
    PROVE  /\ \A v \in Versions :
                 Created(v) => account' \in [Versions -> Versions \cup {NoUser}]
           /\ \A D \in SUBSET Versions :
                 Removed(D) => account' \in [Versions -> Versions \cup {NoUser}]
BY DEF Created, Removed, TypeOK

LEMMA KeystoneType ==
    ASSUME TypeOK, Keystone \/ RetakeRequest \/ KeystoneKilled \/ KeystoneUnitChanged
    PROVE  TypeOK'
<1> USE DEF clientVars
<1>1. CASE TakeRequest
  BY <1>1 DEF TakeRequest, TypeOK
<1>2. ASSUME NEW v \in Versions, CreateUser(v) PROVE TypeOK'
  <2>1. account' \in [Versions -> Versions \cup {NoUser}]
    BY <1>2, AccountTypes DEF CreateUser, TypeOK
  <2>2. faults' \in 0 .. MaxFaults
    BY <1>2, FaultType DEF CreateUser, TypeOK
  <2>3. \E ok \in BOOLEAN : Respond(ok, {})
    BY <1>2 DEF CreateUser
  <2>4. /\ response' \in Response /\ changed' \subseteq Units
        /\ busy' \in Requests \cup {NoRequest}
    BY <2>3, RespondType
  <2> QED
    BY <1>2, <2>1, <2>2, <2>4 DEF CreateUser, TypeOK, Response
<1>3. ASSUME NEW S \in SUBSET Versions, DeleteUsers(S) PROVE TypeOK'
  <2>1. \E ok \in BOOLEAN, D \in SUBSET Versions : Removed(D) /\ Respond(ok, D)
    <3> DEFINE known == {v \in S : account[v] # NoUser}
    <3>1. known \in SUBSET Versions /\ (known = S) \in BOOLEAN
      OBVIOUS
    <3>2. CASE Removed(known) /\ Respond(known = S, known)
      BY <3>1, <3>2
    <3>3. CASE \E D \in SUBSET known : Removed(D) /\ Respond(FALSE, D)
      BY <3>1, <3>3
    <3> QED
      BY <1>3, <3>2, <3>3 DEF DeleteUsers
  <2>2. /\ response' \in Response /\ changed' \subseteq Units
        /\ busy' \in Requests \cup {NoRequest}
        /\ account' \in [Versions -> Versions \cup {NoUser}]
    BY <2>1, RespondType, AccountTypes
  <2>3. faults' \in 0 .. MaxFaults
    BY <1>3, FaultType DEF DeleteUsers, TypeOK
  <2> QED
    BY <1>3, <2>2, <2>3 DEF DeleteUsers, TypeOK, Response
<1>4. CASE RetakeRequest
  BY <1>4, FaultType DEF RetakeRequest, TypeOK
<1>5. CASE KeystoneKilled
  <2>1. account' \in [Versions -> Versions \cup {NoUser}]
    BY <1>5, AccountTypes DEF KeystoneKilled
  <2> QED
    BY <1>5, <2>1, FaultType DEF KeystoneKilled, TypeOK
<1>6. CASE KeystoneUnitChanged
  BY <1>6, FaultType DEF KeystoneUnitChanged, TypeOK
<1> QED
  BY <1>1, <1>2, <1>3, <1>4, <1>5, <1>6 DEF Keystone

LEMMA StepType == TypeOK /\ [Next]_vars => TypeOK'
<1> SUFFICES ASSUME TypeOK, [Next]_vars PROVE TypeOK'
  OBVIOUS
<1>1. CASE UNCHANGED vars
  BY <1>1 DEF vars, clientVars, TypeOK
<1>2. ASSUME NEW u \in Units, Elect(u) PROVE TypeOK'
  BY <1>2, FaultType DEF Elect, TypeOK, clientVars
<1> QED
  BY <1>1, <1>2, ClientType, KeystoneType DEF Next

\* The types hold in every reachable state, with or without overlap.
THEOREM TypeCorrect == Spec => []TypeOK
BY InitType, StepType, PTL DEF Spec

-----------------------------------------------------------------------------
(* The credentials in use, when no event falls into an open exchange.      *)

Sequential == ~ Overlap

\* The leader has joined as soon as there are credentials.  Keystone works on
\* the request of the moment; client hooks wait for the answer to it alone.
Exchange ==
    /\ leader \in joined <=> cred # NoUser
    /\ \A u \in Units : u \in joined => ready[u]
    /\ request # NoRequest => cred # NoUser
    /\ busy # NoRequest => busy = request
    /\ changed # {} => request = response.to /\ cred # NoUser

\* Pairs are used in order: asked for, configured, put on the list, deleted.
Ordered ==
    /\ config <= cred
    /\ \A v \in oldUsers : v < config
    /\ \A v \in Versions : request = Create(v) => v = cred
    /\ \A v \in Versions : response.to = Create(v) => v <= cred
    /\ \A u \in Units, v \in Versions : Create(v) \in processed[u] => v <= cred
    /\ \A S \in SUBSET Versions : request = Delete(S) => \A v \in S : v < config
    /\ \A v \in response.deleted : v < config

\* An account has the password of its pair.  The pair in configuration has an
\* account, and so has the one the client is told of; what it is told was
\* deleted has none.
OpsAccounts ==
    /\ \A v \in Versions : account[v] \in {NoUser, v}
    /\ ConfigUsable
    /\ request = Create(cred) /\ response.to = request /\ response.ok
           => account[cred] = cred
    /\ \A v \in response.deleted : account[v] = NoUser

OpsInv == Exchange /\ Ordered /\ OpsAccounts

LEMMA InitOps == Init => TypeOK /\ OpsInv
<1> SUFFICES ASSUME Init PROVE OpsInv
  BY InitType
<1>1. Exchange
  BY DEF Init, Exchange
<1>2. Ordered
  BY RequestFacts, NoResponseType DEF Init, Ordered, NoUser
<1>3. OpsAccounts
  BY RequestFacts, NoResponseType DEF Init, OpsAccounts, ConfigUsable
<1> QED
  BY <1>1, <1>2, <1>3 DEF OpsInv

\* The client asks for its first user: nothing has been exchanged before.
LEMMA ProviderReadyOps ==
    ASSUME TypeOK, OpsInv, NEW u \in Units, ProviderReady(u)
    PROVE  OpsInv'
<1> USE VersionsFacts, RequestFacts DEF OpsInv
<1>1. CASE u = leader
  <2>1. cred = NoUser /\ cred' = 1
    BY <1>1 DEF ProviderReady, Exchange
  <2>2. request' = Create(1)
    <3>1. Create(1) \notin processed[u]
      BY <2>1 DEF Ordered, NoUser
    <3>2. ready'[u]
      BY DEF ProviderReady, TypeOK
    <3> QED
      BY <1>1, <2>1, <3>1, <3>2 DEF ProviderReady, RequestOps
  <2>3. request = NoRequest /\ busy = NoRequest /\ changed = {} /\ config = NoUser
    <3>1. config = NoUser
      BY <2>1 DEF Ordered, TypeOK, NoUser
    <3> QED
      BY <2>1, <3>1 DEF Exchange
  <2>4. response.to # request'
    BY <2>1, <2>2 DEF Ordered, NoUser
  <2>5. Exchange'
    BY <1>1, <2>1, <2>2, <2>3, <2>4 DEF ProviderReady, Exchange, TypeOK, NoUser
  <2>6. Ordered'
    BY <2>1, <2>2, <2>3 DEF ProviderReady, Ordered, NoUser
  <2>7. OpsAccounts'
    BY <2>3, <2>4 DEF ProviderReady, OpsAccounts, ConfigUsable
  <2> QED
    BY <2>5, <2>6, <2>7
<1>2. CASE u # leader
  <2>1. UNCHANGED <<leader, cred, request, processed, config, oldUsers, response,
                    account, busy, changed>>
    BY <1>2 DEF ProviderReady
  <2>2. Exchange'
    BY <1>2, <2>1 DEF ProviderReady, Exchange, TypeOK
  <2> QED
    BY <2>1, <2>2 DEF Ordered, OpsAccounts, ConfigUsable
<1> QED
  BY <1>1, <1>2

\* The client takes an answer: it belongs to the request of the moment, whose
\* user is that of the credentials of the moment.
LEMMA ResponseAvailableOps ==
    ASSUME TypeOK, OpsInv, NEW u \in Units, ResponseAvailable(u)
    PROVE  OpsInv'
<1> USE VersionsFacts, RequestFacts DEF OpsInv
<1>0. /\ UNCHANGED <<leader, ready, cred, request, response, account, busy, joined>>
      /\ request = response.to /\ cred # NoUser
      /\ changed' \subseteq changed
  BY DEF ResponseAvailable, Exchange
<1>1. Exchange'
  BY <1>0 DEF Exchange
<1>2. \A w \in Units, v \in Versions : Create(v) \in processed'[w] => v <= cred
  <2>1. \A w \in Units : processed'[w] \subseteq processed[w] \cup {response.to}
    BY DEF ResponseAvailable, TypeOK
  <2> QED
    BY <2>1 DEF Ordered
<1>3. CASE UNCHANGED <<config, oldUsers>>
  BY <1>0, <1>1, <1>2, <1>3 DEF Ordered, OpsAccounts, ConfigUsable
<1>4. CASE oldUsers' = oldUsers \ response.deleted /\ config' = config
  BY <1>0, <1>1, <1>2, <1>4 DEF Ordered, OpsAccounts, ConfigUsable
<1>5. CASE response.to[1] = "create" /\ response.ok /\ ProcessCreateUser
  <2>1. PICK v \in Versions : response.to = Create(v)
    BY <1>5 DEF TypeOK, Requests
  <2>2. v = cred
    BY <1>0, <2>1 DEF Ordered
  <2>3. account[cred] = cred
    BY <1>0, <1>5, <2>1, <2>2 DEF OpsAccounts
  <2>4. config' = cred /\ config <= config'
    BY <1>5 DEF ProcessCreateUser, Ordered
  <2>5. \A w \in oldUsers' : w < config'
    <3>1. CASE config \in {NoUser, cred}
      <4>1. oldUsers' = oldUsers
        BY <1>5, <3>1 DEF ProcessCreateUser
      <4>2. \A w \in oldUsers : w \in Nat /\ w < config
        BY DEF TypeOK, Ordered
      <4> QED
        BY <2>4, <3>1, <4>1, <4>2 DEF NoUser
    <3>2. CASE config \notin {NoUser, cred}
      <4>1. config < cred
        BY <3>2 DEF Ordered, TypeOK, NoUser
      <4> QED
        BY <1>5, <2>4, <3>2, <4>1 DEF ProcessCreateUser, Ordered, TypeOK, NoUser
    <3> QED
      BY <3>1, <3>2
  <2>6. Ordered'
    <3>1. \A w \in Versions : w < config => w < config'
      BY <2>4 DEF TypeOK, NoUser
    <3> QED
      BY <1>0, <1>2, <2>1, <2>4, <2>5, <3>1 DEF Ordered, TypeOK, NoUser
  <2>7. OpsAccounts'
    BY <1>0, <2>3, <2>4 DEF OpsAccounts, ConfigUsable
  <2> QED
    BY <1>1, <2>6, <2>7
<1> QED
  BY <1>3, <1>4, <1>5 DEF ResponseAvailable, ProcessCreateUser, ProcessDeleteUser

\* The client sends a request only when the one before has been dealt with.
LEMMA SecretOps ==
    ASSUME Sequential, TypeOK, OpsInv, SecretRotate \/ SecretRemove
    PROVE  OpsInv'
<1> USE VersionsFacts, RequestFacts DEF OpsInv
<1>0. request = response.to /\ busy = NoRequest /\ changed = {}
  BY DEF SecretRotate, SecretRemove, Quiet, Sequential
<1>1. CASE SecretRotate
  <2>1. cred \in Versions /\ cred' = cred + 1 /\ cred' \in Versions
    BY <1>1, BoundAssumption DEF SecretRotate, Versions
  <2>2. request' = Create(cred')
    <3>1. Create(cred') \notin processed[leader]
      BY <2>1 DEF Ordered, TypeOK
    <3>2. ready'[leader]
      BY <1>1, <2>1 DEF SecretRotate, Exchange, TypeOK
    <3> QED
      BY <1>1, <3>1, <3>2 DEF SecretRotate, RequestOps
  <2>3. response.to # request'
    BY <2>1, <2>2 DEF Ordered
  <2>4. Exchange'
    BY <1>0, <1>1, <2>1, <2>2 DEF SecretRotate, Exchange
  <2>5. Ordered'
    BY <1>1, <2>1, <2>2 DEF SecretRotate, Ordered, TypeOK, NoUser
  <2>6. OpsAccounts'
    BY <1>1, <2>3 DEF SecretRotate, OpsAccounts, ConfigUsable
  <2> QED
    BY <2>4, <2>5, <2>6
<1>2. CASE SecretRemove
  <2>1. /\ UNCHANGED <<leader, ready, processed, cred, config, oldUsers, response,
                       account, busy, joined, changed>>
        /\ request' = request \/ (oldUsers # {} /\ request' = Delete(oldUsers))
    BY <1>2 DEF SecretRemove, RequestOps
  <2>2. CASE request' = request
    BY <2>1, <2>2 DEF Exchange, Ordered, OpsAccounts, ConfigUsable
  <2>3. CASE oldUsers # {} /\ request' = Delete(oldUsers)
    <3>1. cred # NoUser
      <4>1. PICK v \in oldUsers : v < config
        BY <2>3 DEF Ordered
      <4>2. v \in Nat /\ v # NoUser /\ config \in Nat /\ cred \in Nat
        BY DEF TypeOK, NoUser
      <4> QED
        BY <4>1, <4>2 DEF Ordered, NoUser
    <3>2. Exchange'
      BY <1>0, <2>1, <2>3, <3>1 DEF Exchange
    <3>3. Ordered'
      BY <2>1, <2>3 DEF Ordered
    <3>4. OpsAccounts'
      BY <2>1, <2>3 DEF OpsAccounts, ConfigUsable
    <3> QED
      BY <3>2, <3>3, <3>4
  <2> QED
    BY <2>1, <2>2, <2>3
<1> QED
  BY <1>1, <1>2

\* What the operations of the request of the moment do to the accounts.
LEMMA CreatedFacts ==
    ASSUME TypeOK, OpsInv, NEW v \in Versions, v = cred, Created(v)
    PROVE  /\ account'[v] = v
           /\ \A w \in Versions \ {v} : account'[w] = account[w]
BY DEF Created, TypeOK, OpsInv, OpsAccounts

LEMMA RemovedFacts ==
    ASSUME TypeOK, OpsInv, NEW D \in SUBSET Versions, \A v \in D : v < config, Removed(D)
    PROVE  /\ \A v \in D : account'[v] = NoUser
           /\ \A v \in Versions \ D : account'[v] = account[v]
           /\ config \notin D
BY VersionsFacts DEF Removed, TypeOK, NoUser

\* Keystone creates the user of the request: the credentials are those of the
\* moment, since the client has not moved on.
LEMMA CreateUserOps ==
    ASSUME TypeOK, OpsInv, NEW v \in Versions, CreateUser(v)
    PROVE  OpsInv'
<1> USE VersionsFacts, RequestFacts DEF OpsInv
<1>1. request = Create(v) /\ v = cred /\ v # NoUser
  BY DEF CreateUser, Exchange, Ordered
<1>2. PICK ok \in BOOLEAN : Respond(ok, {}) /\ (ok => Created(v))
  BY DEF CreateUser
<1>3. /\ response'.to = request /\ response'.ok = ok /\ response'.deleted = {}
      /\ busy' = NoRequest
  BY <1>1, <1>2, RespondType DEF CreateUser
<1>4. UNCHANGED <<leader, clientVars, request>>
  BY DEF CreateUser
<1>5. Exchange'
  BY <1>1, <1>3, <1>4 DEF Exchange, clientVars
<1>6. Ordered'
  BY <1>1, <1>3, <1>4 DEF Ordered, clientVars
<1>7. OpsAccounts'
  <2>1. CASE Created(v)
    BY <1>1, <1>3, <1>4, <2>1, CreatedFacts DEF OpsAccounts, ConfigUsable, TypeOK, clientVars
  <2>2. CASE UNCHANGED account /\ ~ ok
    BY <1>3, <1>4, <2>2 DEF OpsAccounts, ConfigUsable, clientVars
  <2> QED
    BY <1>2, <2>1, <2>2 DEF CreateUser
<1> QED
  BY <1>5, <1>6, <1>7

\* Keystone deletes users that have been replaced.
LEMMA DeleteUsersOps ==
    ASSUME TypeOK, OpsInv, NEW S \in SUBSET Versions, DeleteUsers(S)
    PROVE  OpsInv'
<1> USE VersionsFacts, RequestFacts DEF OpsInv
<1>1. request = Delete(S) /\ \A v \in S : v < config
  BY DEF DeleteUsers, Exchange, Ordered
<1>2. PICK ok \in BOOLEAN, D \in SUBSET S : Removed(D) /\ Respond(ok, D)
  <2> DEFINE known == {v \in S : account[v] # NoUser}
  <2>1. known \in SUBSET S /\ (known = S) \in BOOLEAN
    OBVIOUS
  <2>2. CASE Removed(known) /\ Respond(known = S, known)
    BY <2>1, <2>2
  <2>3. CASE \E D \in SUBSET known : Removed(D) /\ Respond(FALSE, D)
    BY <2>1, <2>3
  <2> QED
    BY <2>2, <2>3 DEF DeleteUsers
<1>3. /\ response'.to = request /\ response'.deleted = D /\ busy' = NoRequest
  BY <1>1, <1>2, RespondType DEF DeleteUsers, Exchange
<1>4. UNCHANGED <<leader, clientVars, request>>
  BY DEF DeleteUsers
<1>5. Exchange'
  BY <1>1, <1>3, <1>4 DEF Exchange, clientVars
<1>6. Ordered'
  BY <1>1, <1>3, <1>4 DEF Ordered, clientVars
<1>7. OpsAccounts'
  <2>1. /\ \A v \in D : account'[v] = NoUser
        /\ \A v \in Versions \ D : account'[v] = account[v]
        /\ config \notin D
    BY <1>1, <1>2, RemovedFacts
  <2> QED
    BY <1>1, <1>3, <1>4, <2>1 DEF OpsAccounts, ConfigUsable, TypeOK, clientVars
<1> QED
  BY <1>5, <1>6, <1>7

\* The operations run and nobody is told.
LEMMA KeystoneKilledOps ==
    ASSUME TypeOK, OpsInv, KeystoneKilled
    PROVE  OpsInv'
<1> USE VersionsFacts, RequestFacts DEF OpsInv
<1>1. UNCHANGED <<leader, clientVars, request, response, changed>> /\ busy' = NoRequest
  BY DEF KeystoneKilled
<1>2. busy = request
  BY DEF KeystoneKilled, Exchange
<1>3. Exchange' /\ Ordered'
  BY <1>1 DEF Exchange, Ordered, clientVars
<1>4. ASSUME NEW v \in Versions, busy = Create(v), Created(v) PROVE OpsAccounts'
  <2>1. v = cred /\ \A w \in response.deleted : w # v
    BY <1>2, <1>4 DEF Ordered, TypeOK, NoUser
  <2>2. /\ account'[v] = v
        /\ \A w \in Versions \ {v} : account'[w] = account[w]
    BY <1>4, <2>1, CreatedFacts
  <2> QED
    BY <1>1, <2>1, <2>2 DEF OpsAccounts, ConfigUsable, TypeOK, clientVars
<1>5. ASSUME NEW S \in SUBSET Versions, busy = Delete(S), Removed(S) PROVE OpsAccounts'
  <2>1. \A v \in S : v < config
    BY <1>2, <1>5 DEF Ordered
  <2>2. /\ \A v \in S : account'[v] = NoUser
        /\ \A v \in Versions \ S : account'[v] = account[v]
        /\ config \notin S
    BY <1>5, <2>1, RemovedFacts
  <2>3. request # Create(cred)
    BY <1>2, <1>5
  <2> QED
    BY <1>1, <2>2, <2>3 DEF OpsAccounts, ConfigUsable, TypeOK, clientVars
<1> QED
  BY <1>3, <1>4, <1>5 DEF KeystoneKilled

LEMMA OtherOps ==
    ASSUME Sequential, TypeOK, OpsInv,
           TakeRequest \/ RetakeRequest \/ KeystoneUnitChanged
             \/ (\E u \in Units : Elect(u)) \/ UNCHANGED vars
    PROVE  OpsInv'
<1> USE DEF OpsInv, clientVars
<1>1. UNCHANGED <<cred, request, processed, config, oldUsers, response, account,
                  ready, joined>>
  BY DEF TakeRequest, RetakeRequest, KeystoneUnitChanged, Elect, vars
<1>2. Ordered' /\ OpsAccounts'
  BY <1>1 DEF Ordered, OpsAccounts, ConfigUsable
<1>3. CASE TakeRequest \/ RetakeRequest
  BY <1>1, <1>2, <1>3 DEF TakeRequest, RetakeRequest, Exchange
<1>4. CASE KeystoneUnitChanged
  BY <1>1, <1>2, <1>4 DEF KeystoneUnitChanged, Exchange, Sequential, TypeOK
<1>5. CASE \E u \in Units : Elect(u)
  BY <1>1, <1>2, <1>5 DEF Elect, Exchange
<1>6. CASE UNCHANGED vars
  BY <1>1, <1>2, <1>6 DEF vars, Exchange
<1> QED
  BY <1>3, <1>4, <1>5, <1>6

LEMMA StepOps ==
    ASSUME Sequential, TypeOK, OpsInv, [Next]_vars
    PROVE  OpsInv'
BY ProviderReadyOps, ResponseAvailableOps, SecretOps, CreateUserOps,
   DeleteUsersOps, KeystoneKilledOps, OtherOps DEF Next, Keystone

LEMMA Inductive ==
    ASSUME Sequential
    PROVE  Spec => [](TypeOK /\ OpsInv)
<1>1. TypeOK /\ OpsInv /\ [Next]_vars => (TypeOK /\ OpsInv)'
  BY StepType, StepOps
<1> QED
  BY InitOps, <1>1, PTL DEF Spec

\* The credentials that are rendered into configuration files are those of an
\* account of keystone with that password, through any rotations, deletions,
\* failures, killed hooks and elections, if rotations do not overlap.
THEOREM ConfigUsableHolds ==
    ASSUME Sequential
    PROVE  Spec => []ConfigUsable
<1>1. OpsInv => ConfigUsable
  BY DEF OpsInv, OpsAccounts
<1> QED
  BY Inductive, <1>1, PTL

-----------------------------------------------------------------------------
(* Users that are replaced, whatever falls into an open exchange.          *)

\* What keystone says it has deleted is older than the pair in configuration,
\* has no account, and is not asked for again: not by the request in the databag,
\* the one keystone works on, or the one that has replaced a delete request.
Gone ==
    /\ config <= cred
    /\ \A v \in oldUsers : v < config
    /\ \A S \in SUBSET Versions : Delete(S) \in {request, busy} => \A v \in S : v < config
    /\ \A v \in response.deleted : v < config /\ account[v] = NoUser
    /\ \A v \in Versions : Create(v) \in {request, busy} => v \notin response.deleted
    /\ \A v \in Versions, S \in SUBSET Versions :
          request = Create(v) /\ busy = Delete(S) => v \notin S

LEMMA InitGone == Init => TypeOK /\ Gone
<1> SUFFICES ASSUME Init PROVE Gone
  BY InitType
<1> QED
  BY RequestFacts, NoResponseType DEF Init, Gone, NoUser

\* A new request is for the newest pair or for the users on the list.
LEMMA RequestGone ==
    ASSUME TypeOK, Gone, UNCHANGED <<config, oldUsers, response, account, busy>>,
           cred' \in Versions \cup {NoUser}, cred <= cred',
           \/ request' = request
           \/ cred' \in Versions /\ request' = Create(cred')
           \/ request' = Delete(oldUsers)
    PROVE  Gone'
<1> USE VersionsFacts, RequestFacts
<1>0. /\ config \in Nat /\ cred \in Nat /\ cred' \in Nat
      /\ response.deleted \subseteq Versions /\ oldUsers \subseteq Versions
      /\ Versions \subseteq Nat
  BY DEF TypeOK, NoUser
<1>1. config' <= cred'
  BY <1>0 DEF Gone
<1>2. CASE request' = request
  BY <1>1, <1>2 DEF Gone
<1>3. CASE cred' \in Versions /\ request' = Create(cred')
  <2>1. \A v \in response.deleted : v # cred'
    BY <1>0, <1>1 DEF Gone
  <2>2. \A S \in SUBSET Versions : busy = Delete(S) => cred' \notin S
    BY <1>0, <1>1 DEF Gone
  <2> QED
    BY <1>1, <1>3, <2>1, <2>2 DEF Gone
<1>4. CASE request' = Delete(oldUsers)
  BY <1>0, <1>1, <1>4 DEF Gone
<1> QED
  BY <1>2, <1>3, <1>4

LEMMA ClientGone ==
    ASSUME TypeOK, Gone,
           (\E u \in Units : ProviderReady(u)) \/ SecretRotate \/ SecretRemove
    PROVE  Gone'
<1> USE VersionsFacts, RequestFacts
<1>1. UNCHANGED <<config, oldUsers, response, account, busy>>
  BY DEF ProviderReady, SecretRotate, SecretRemove
<1>2. cred' \in Versions \cup {NoUser} /\ cred <= cred'
  BY BoundAssumption DEF ProviderReady, SecretRotate, SecretRemove, TypeOK, Versions, NoUser
<1>3. \/ request' = request
      \/ cred' \in Versions /\ request' = Create(cred')
      \/ request' = Delete(oldUsers)
  BY BoundAssumption
     DEF ProviderReady, SecretRotate, SecretRemove, RequestOps, TypeOK, Versions, NoUser
<1> QED
  BY <1>1, <1>2, <1>3, RequestGone

LEMMA ResponseGone ==
    ASSUME TypeOK, Gone, NEW u \in Units, ResponseAvailable(u)
    PROVE  Gone'
<1> USE VersionsFacts, RequestFacts
<1>0. UNCHANGED <<cred, request, response, account, busy>>
  BY DEF ResponseAvailable
<1>1. /\ config \in Nat /\ cred \in Nat /\ oldUsers \subseteq Versions
      /\ response.deleted \subseteq Versions /\ Versions \subseteq Nat
  BY DEF TypeOK, NoUser
<1>2. /\ config' \in {config, cred}
      /\ \/ oldUsers' \subseteq oldUsers
         \/ config' = cred /\ config # cred /\ oldUsers' = oldUsers \cup {config}
  BY DEF ResponseAvailable, ProcessCreateUser, ProcessDeleteUser
<1>3. config <= config' /\ config' <= cred
  BY <1>1, <1>2 DEF Gone
<1>4. \A v \in oldUsers' : v < config'
  <2>1. \A v \in oldUsers : v < config'
    BY <1>1, <1>2, <1>3 DEF Gone
  <2>2. CASE oldUsers' \subseteq oldUsers
    BY <2>1, <2>2
  <2>3. CASE config' = cred /\ config # cred /\ oldUsers' = oldUsers \cup {config}
    <3>1. config < config'
      BY <1>1, <1>3, <2>3
    <3> QED
      BY <2>1, <2>3, <3>1
  <2> QED
    BY <1>2, <2>2, <2>3
<1>5. \A v \in Versions : v < config => v < config'
  BY <1>1, <1>2, <1>3
<1> QED
  BY <1>0, <1>1, <1>3, <1>4, <1>5 DEF Gone

\* Keystone's answer is about what it has worked on.
LEMMA KeystoneGone ==
    ASSUME TypeOK, Gone,
           \/ \E v \in Versions : CreateUser(v)
           \/ \E S \in SUBSET Versions : DeleteUsers(S)
    PROVE  Gone'
<1> USE VersionsFacts, RequestFacts
<1>1. ASSUME NEW v \in Versions, CreateUser(v) PROVE Gone'
  <2>1. PICK ok \in BOOLEAN : Respond(ok, {})
    BY <1>1 DEF CreateUser
  <2>2. response'.deleted = {} /\ busy' = NoRequest
    BY <1>1, <2>1, RespondType DEF CreateUser
  <2>3. UNCHANGED <<config, cred, oldUsers, request>>
    BY <1>1 DEF CreateUser, clientVars
  <2> QED
    BY <2>2, <2>3 DEF Gone
<1>2. ASSUME NEW S \in SUBSET Versions, DeleteUsers(S) PROVE Gone'
  <2>1. busy = Delete(S) /\ UNCHANGED <<config, cred, oldUsers, request>>
    BY <1>2 DEF DeleteUsers, clientVars
  <2>2. PICK ok \in BOOLEAN, D \in SUBSET S : Removed(D) /\ Respond(ok, D)
    <3> DEFINE known == {v \in S : account[v] # NoUser}
    <3>1. known \in SUBSET S /\ (known = S) \in BOOLEAN
      OBVIOUS
    <3>2. CASE Removed(known) /\ Respond(known = S, known)
      BY <3>1, <3>2
    <3>3. CASE \E D \in SUBSET known : Removed(D) /\ Respond(FALSE, D)
      BY <3>1, <3>3
    <3> QED
      BY <1>2, <3>2, <3>3 DEF DeleteUsers
  <2>3. response'.deleted = D /\ busy' = NoRequest
    BY <2>1, <2>2, RespondType
  <2>4. \A v \in D : v < config /\ account'[v] = NoUser
    BY <2>1, <2>2 DEF Removed, Gone
  <2> QED
    BY <2>1, <2>3, <2>4 DEF Gone
<1> QED
  BY <1>1, <1>2

LEMMA KilledGone ==
    ASSUME TypeOK, Gone, KeystoneKilled
    PROVE  Gone'
<1> USE VersionsFacts, RequestFacts
<1>1. UNCHANGED <<config, cred, oldUsers, request, response>> /\ busy' = NoRequest
  BY DEF KeystoneKilled, clientVars
<1>2. \A v \in response.deleted : account'[v] = NoUser
  <2>1. ASSUME NEW v \in Versions, busy = Create(v), Created(v)
        PROVE  \A w \in response.deleted : account'[w] = account[w]
    BY <2>1 DEF Created, Gone, TypeOK
  <2>2. ASSUME NEW S \in SUBSET Versions, Removed(S)
        PROVE  \A w \in response.deleted : account'[w] \in {NoUser, account[w]}
    BY <2>2 DEF Removed, TypeOK
  <2> QED
    BY <2>1, <2>2 DEF KeystoneKilled, Gone
<1> QED
  BY <1>1, <1>2 DEF Gone

LEMMA OtherGone ==
    ASSUME TypeOK, Gone,
           TakeRequest \/ RetakeRequest \/ KeystoneUnitChanged
             \/ (\E u \in Units : Elect(u)) \/ UNCHANGED vars
    PROVE  Gone'
<1> USE RequestFacts
<1>1. /\ UNCHANGED <<config, cred, oldUsers, request, response, account>>
      /\ busy' \in {busy, request}
  BY DEF TakeRequest, RetakeRequest, KeystoneUnitChanged, Elect, vars, clientVars
<1> QED
  BY <1>1 DEF Gone

LEMMA StepGone == TypeOK /\ Gone /\ [Next]_vars => Gone'
BY ClientGone, ResponseGone, KeystoneGone, KilledGone, OtherGone DEF Next, Keystone

\* A user that has been configured stays in configuration or on the list of
\* users to delete until keystone has deleted it, also where a request replaces
\* another that keystone has not taken, and where rotations overlap
\* (_process_delete_user takes only deleted users off the list).
THEOREM UsersAccountedForHolds == Spec => UsersAccountedFor
<1> DEFINE Kept == \A v \in Versions :
                     v \in oldUsers \cup {config}
                       => v \in oldUsers' \cup {config'} \/ account'[v] = NoUser
<1>1. TypeOK /\ Gone /\ [Next]_vars
         => [\A v \in Versions :
               v \in oldUsers \cup {config}
                 => v \in oldUsers' \cup {config'} \/ account'[v] = NoUser]_vars
  <2> SUFFICES ASSUME TypeOK, Gone, [Next]_vars PROVE Kept \/ UNCHANGED vars
    OBVIOUS
  <2>1. ASSUME NEW u \in Units, ResponseAvailable(u) PROVE Kept
    <3>1. account' = account /\ \A v \in response.deleted : account[v] = NoUser
      BY <2>1 DEF ResponseAvailable, Gone
    <3>2. CASE ProcessCreateUser
      BY <3>2, VersionsFacts DEF ProcessCreateUser
    <3>3. CASE ProcessDeleteUser
      BY <3>1, <3>3 DEF ProcessDeleteUser
    <3>4. CASE UNCHANGED <<config, oldUsers, obsolete>>
      BY <3>4
    <3> QED
      BY <2>1, <3>2, <3>3, <3>4 DEF ResponseAvailable
  <2>2. CASE UNCHANGED <<config, oldUsers>>
    BY <2>2
  <2> QED
    BY <2>1, <2>2
       DEF Next, Keystone, ProviderReady, SecretRotate, SecretRemove, Elect,
           TakeRequest, RetakeRequest, CreateUser, DeleteUsers, KeystoneKilled,
           KeystoneUnitChanged, clientVars
<1>2. TypeOK /\ Gone /\ [Next]_vars => (TypeOK /\ Gone)'
  BY StepType, StepGone
<1> QED
  BY InitGone, <1>1, <1>2, PTL DEF Spec, UsersAccountedFor

=============================================================================
