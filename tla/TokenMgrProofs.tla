--------------------------- MODULE TokenMgrProofs ---------------------------
(* TokenMgr's properties for every number of slots and of salts.           *)
EXTENDS TokenMgr, TLAPS

USE CountAssumption, SaltAssumption

\* A token that the salt check lets through is one that is still held: this
\* is what makes a double or a stale Dealloc harmless.
LEMMA AcceptedIsHeld ==
  ASSUME IndInv, valid, NEW t \in held \cup old, Accepts(t)
  PROVE  /\ t \in held
         /\ t[1] \in Index
         /\ t = <<t[1], salt[t[1]]>>
         /\ pos[t[1]] > free_count
<1>1. t \in Token
  BY Zenon DEF IndInv, TypeOK
<1>2. t[1] \in Index /\ t[2] \in Salt /\ t = <<t[1], t[2]>>
  BY <1>1 DEF Token
<1>3. salt[t[1]] = t[2]
  BY Zenon DEF Accepts
<1>4. t \notin old
  BY <1>2, <1>3 DEF IndInv, OldPast, Salt
<1>5. t \in held
  BY <1>4, Zenon
<1> QED
  BY <1>2, <1>3, <1>5, Zenon DEF IndInv, FreeOrHeld

\* An untouched manager, and one just set up, satisfy the invariant.
LEMMA InitInv == Init => IndInv
<1> SUFFICES ASSUME Init PROVE IndInv
  BY Zenon
<1>1. valid \in BOOLEAN /\ ~valid
  BY Zenon DEF Init
<1>2. salt \in [0..Count -> Salt] /\ next \in [0..Count -> 0..(Count + 1)]
  BY DEF Init, Salt
<1>3. free_count \in 0..Count /\ held \in SUBSET Token /\ old \in SUBSET Token
  BY DEF Init
<1>4. data \in [Index -> Token \cup {NoData}] /\ pos \in [Index -> Index]
  BY Zenon DEF Init
<1> QED
  BY <1>1, <1>2, <1>3, <1>4, Zenon DEF IndInv, TypeOK

LEMMA InitItemsInv == InitItems => IndInv'
<1> SUFFICES ASSUME InitItems PROVE IndInv'
  BY Zenon
<1>1. TypeOK'
  BY DEF InitItems, TypeOK, Index, Salt
<1>2. HeadOK'
  BY DEF InitItems, HeadOK, Index
<1>3. LinkOK'
  BY DEF InitItems, LinkOK, Index
<1>4. NoTwoInOnePlace'
  BY DEF InitItems, NoTwoInOnePlace, Index
<1>5. FreeOrHeld' /\ HeldCurrent' /\ OldPast' /\ DataHeld'
  BY DEF InitItems, FreeOrHeld, HeldCurrent, OldPast, DataHeld, Index
<1> QED
  BY <1>1, <1>2, <1>3, <1>4, <1>5, Zenon DEF IndInv

LEMMA AllocInv == IndInv /\ Alloc => IndInv'
<1> SUFFICES ASSUME IndInv, Alloc PROVE IndInv'
  BY Zenon
<1> USE DEF IndInv, Alloc, outFreelist, Front
<1>1. /\ next[0] \in Index /\ pos[next[0]] = free_count
      /\ free_count' = free_count - 1
      /\ free_count \in 1..Count
  BY DEF HeadOK, TypeOK
<1>2. TypeOK'
  <2>1. <<next[0], salt[next[0]]>> \in Token
    BY <1>1 DEF TypeOK, Token, Index
  <2>2. next' \in [0..Count -> 0..(Count + 1)]
    BY <1>1 DEF TypeOK, Index
  <2>3. free_count' \in 0..Count
    BY <1>1
  <2>4. held' \in SUBSET Token
    BY <2>1, Zenon DEF TypeOK
  <2> QED
    BY <2>2, <2>3, <2>4, Zenon DEF TypeOK
<1>3. /\ next'[0] = next[next[0]]
      /\ \A i \in Index : i # next[0] => next'[i] = next[i]
  BY <1>1 DEF TypeOK, Index
<1>4. HeadOK'
  BY <1>1, <1>3 DEF HeadOK, LinkOK, TypeOK, Index
<1>5. LinkOK'
  <2>1. /\ pos' = pos /\ LinkOK /\ NoTwoInOnePlace
        /\ \A i \in Index : pos[i] \in 1..Count
    BY Zenon DEF TypeOK, Index
  <2> HIDE DEF IndInv, Alloc, outFreelist, Front
  <2> SUFFICES ASSUME NEW i \in Index, pos[i] <= free_count - 1
               PROVE  IF pos[i] = 1
                      THEN next'[i] = Count + 1
                      ELSE next'[i] \in Index /\ pos[next'[i]] = pos[i] - 1
    BY <1>1, <2>1, Zenon DEF LinkOK
  <2>2. pos[i] <= free_count /\ i # next[0]
    BY <1>1, <2>1
  <2> QED
    BY <1>3, <2>1, <2>2, Zenon DEF LinkOK
<1>6. NoTwoInOnePlace'
  BY Zenon DEF NoTwoInOnePlace
<1>7. FreeOrHeld'
  BY <1>1 DEF FreeOrHeld, NoTwoInOnePlace, TypeOK, Index
<1>8. HeldCurrent' /\ OldPast' /\ DataHeld'
  BY DEF HeldCurrent, OldPast, DataHeld
<1> QED
  BY <1>2, <1>4, <1>5, <1>6, <1>7, <1>8, Zenon

LEMMA SetDataInv ==
  ASSUME IndInv, NEW t \in held \cup old, SetData(t) PROVE IndInv'
<1>1. /\ t \in held /\ t[1] \in Index /\ t = <<t[1], salt[t[1]]>>
  BY AcceptedIsHeld, Zenon DEF SetData
<1>2. TypeOK'
  BY <1>1, Zenon DEF SetData, IndInv, TypeOK
<1>3. DataHeld'
  BY <1>1, Zenon DEF SetData, IndInv, DataHeld, TypeOK
<1> QED
  BY <1>2, <1>3, Zenon DEF SetData, IndInv, HeadOK, LinkOK, NoTwoInOnePlace,
                    FreeOrHeld, HeldCurrent, OldPast

(* NewSalt stays within the salts: what keeps Dealloc type-correct.        *)
LEMMA NewSaltType == \A s \in Salt : NewSalt(s) \in Salt
  BY SaltAssumption DEF NewSalt, Salt

(* Dealloc links the slot back and moves its salt on.                      *)
LEMMA DeallocInv ==
  ASSUME IndInv, NEW t \in held \cup old, Dealloc(t), NoWrap PROVE IndInv'
<1> DEFINE x == t[1]
           fc == free_count
<1>1. /\ t \in held /\ x \in Index /\ t = <<x, salt[x]>>
      /\ pos[x] > free_count
  BY AcceptedIsHeld, Zenon DEF Dealloc
<1>2. /\ TypeOK /\ HeadOK /\ LinkOK /\ NoTwoInOnePlace /\ FreeOrHeld
      /\ HeldCurrent /\ OldPast /\ DataHeld
  BY Zenon DEF IndInv, Dealloc
<1>3. /\ fc \in 0..Count /\ pos \in [Index -> Index]
      /\ \A i \in Index : pos[i] \in Nat /\ pos[i] >= 1 /\ pos[i] <= Count
  <2>1. fc \in 0..Count /\ pos \in [Index -> Index]
    BY <1>2, Zenon DEF TypeOK
  <2>2. \A n \in Index : n \in Nat /\ n >= 1 /\ n <= Count
    BY DEF Index
  <2> QED
    BY <2>1, <2>2, Zenon
<1>4. /\ fc \in Nat /\ free_count' = fc + 1 /\ fc + 1 \in Index
      /\ Count \in Nat /\ x # 0 /\ x \in 0..Count
  <2>1. free_count' = fc + 1
    BY Zenon DEF Dealloc, inFreelist
  <2>2. /\ pos[x] \in Nat /\ pos[x] <= Count /\ pos[x] > fc
        /\ fc \in 0..Count
    BY <1>1, <1>3, Zenon
  <2> HIDE DEF fc
  <2>3. fc \in Nat /\ fc + 1 \in Index
    BY <2>2, SMTT(30) DEF Index
  <2> USE DEF fc
  <2>4. Count \in Nat /\ x # 0 /\ x \in 0..Count
    BY <1>1 DEF Index
  <2> QED
    BY <2>1, <2>3, <2>4, Zenon
<1>5. salt'[x] = salt[x] + 1 /\ \A i \in Index : i # x => salt'[i] = salt[i]
  <2>1. /\ salt'[x] = NewSalt(salt[x]) /\ salt'[x] # 0
        /\ \A i \in Index : i # x => salt'[i] = salt[i]
    <3>1. Index \subseteq 0..Count
      BY DEF Index
    <3> QED
      BY <1>1, <1>2, <3>1, Zenon DEF TypeOK, Dealloc, NoWrap
  <2> QED
    BY <2>1, Zenon DEF NewSalt
<1>6. /\ next' = [i \in 0..Count |-> CASE i = 0 -> x
                                       [] i = x -> next[0]
                                       [] OTHER -> next[i]]
      /\ held' = held \ {t} /\ old' = old \cup {t} /\ valid' = valid
  BY Zenon DEF Dealloc, inFreelist
<1>7. /\ next'[0] = x /\ next'[x] = next[0]
      /\ \A i \in Index : i # x => next'[i] = next[i]
  BY <1>4, <1>6 DEF Index
<1>8. /\ pos'[x] = fc + 1
      /\ \A i \in Index : i # x =>
           pos'[i] = IF pos[i] = fc + 1 THEN pos[x] ELSE pos[i]
  BY <1>1, Zenon DEF Dealloc, inFreelist
<1>9. TypeOK'
  <2>1. salt' \in [0..Count -> Salt]
    BY <1>2, <1>4, NewSaltType, Zenon DEF TypeOK, Dealloc
  <2>2. next' \in [0..Count -> 0..(Count + 1)]
    <3>1. next \in [0..Count -> 0..(Count + 1)] /\ x \in 0..(Count + 1)
      <4>1. next \in [0..Count -> 0..(Count + 1)]
        BY <1>2, Zenon DEF TypeOK
      <4> QED
        BY <1>4, <4>1, SMTT(30)
    <3>2. \A i \in 0..Count : next'[i] \in 0..(Count + 1)
      BY <1>4, <1>6, <3>1, SMTT(30)
    <3> QED
      BY <1>6, <3>2, Zenon
  <2>3. pos' \in [Index -> Index]
    BY <1>1, <1>3, <1>4, Zenon DEF Dealloc, inFreelist
  <2>4. free_count' \in 0..Count
    BY <1>4 DEF Index
  <2>5. data' \in [Index -> Token \cup {NoData}] /\ valid' \in BOOLEAN
    BY <1>1, <1>2, Zenon DEF TypeOK, Dealloc
  <2>6. held' \in SUBSET Token /\ old' \in SUBSET Token
    BY <1>2, <1>6, Zenon DEF TypeOK
  <2> QED
    BY <2>1, <2>2, <2>3, <2>4, <2>5, <2>6, Zenon DEF TypeOK
<1>10. \A i \in Index : pos[i] <= fc => i # x /\ pos[i] # fc + 1
  BY <1>1, <1>3, <1>4
<1>11. \A i \in Index : pos[i] <= fc => i # x /\ pos'[i] = pos[i]
  BY <1>8, <1>10, Zenon
<1>12. \A i \in Index : pos'[i] <= fc + 1 /\ i # x =>
         pos[i] <= fc /\ pos'[i] = pos[i]
  <2> SUFFICES ASSUME NEW i \in Index, pos'[i] <= fc + 1, i # x
               PROVE  pos[i] <= fc /\ pos'[i] = pos[i]
    BY Zenon
  <2>1. CASE pos[i] = fc + 1
    <3>1. pos[x] <= fc + 1
      BY <1>8, <2>1, Zenon
    <3>2. pos[x] = pos[i]
      BY <1>1, <1>3, <1>4, <2>1, <3>1
    <3> QED
      BY <1>1, <1>2, <3>2, Zenon DEF NoTwoInOnePlace
  <2>2. CASE pos[i] # fc + 1
    <3>1. pos'[i] = pos[i]
      BY <1>8, <2>2, Zenon
    <3> QED
      BY <1>3, <1>4, <2>2, <3>1
  <2> QED
    BY <2>1, <2>2, Zenon
<1>13. NoTwoInOnePlace'
  <2>1. \A i \in Index : i # x => pos'[i] # fc + 1
    <3>1. pos[x] # fc + 1 \/ \A i \in Index : i # x => pos[i] # fc + 1
      BY <1>1, <1>2, Zenon DEF NoTwoInOnePlace
    <3>2. \A i \in Index : pos[i] # fc + 1 \/ pos[i] = fc + 1
      BY Zenon
    <3> QED
      BY <1>8, <3>1, <3>2, Zenon
  <2>2. \A i, j \in Index \ {x} : pos'[i] = pos'[j] => i = j
    <3> SUFFICES ASSUME NEW i \in Index \ {x}, NEW j \in Index \ {x}, pos'[i] = pos'[j]
                 PROVE  pos[i] = pos[j]
      BY <1>2, Zenon DEF NoTwoInOnePlace
    <3>1. /\ pos'[i] = IF pos[i] = fc + 1 THEN pos[x] ELSE pos[i]
          /\ pos'[j] = IF pos[j] = fc + 1 THEN pos[x] ELSE pos[j]
      BY <1>8, Zenon
    <3>2. pos[i] # pos[x] /\ pos[j] # pos[x]
      BY <1>1, <1>2, Zenon DEF NoTwoInOnePlace
    <3> QED
      BY <3>1, <3>2, Zenon
  <2> QED
    BY <1>8, <2>1, <2>2, Zenon DEF NoTwoInOnePlace
<1>14. HeadOK'
  <2>1. free_count' # 0
    BY <1>4
  <2> QED
    BY <1>1, <1>4, <1>7, <1>8, <2>1, Zenon DEF HeadOK
<1>15. LinkOK'
  <2> SUFFICES ASSUME NEW i \in Index, pos'[i] <= free_count'
               PROVE  IF pos'[i] = 1
                      THEN next'[i] = Count + 1
                      ELSE next'[i] \in Index /\ pos'[next'[i]] = pos'[i] - 1
    BY Zenon DEF LinkOK
  <2>1. CASE i = x
    <3>1. CASE fc = 0
      BY <1>2, <1>7, <1>8, <2>1, <3>1 DEF HeadOK
    <3>2. CASE fc # 0
      <4>1. next[0] \in Index /\ pos[next[0]] = fc
        BY <1>2, <3>2, Zenon DEF HeadOK
      <4>2. fc <= fc /\ fc + 1 # 1 /\ (fc + 1) - 1 = fc
        BY <1>4, <3>2
      <4>3. pos'[next[0]] = fc
        BY <1>11, <4>1, <4>2, Zenon
      <4> QED
        BY <1>7, <1>8, <2>1, <4>1, <4>2, <4>3, Zenon
    <3> QED
      BY <3>1, <3>2, Zenon
  <2>2. CASE i # x
    <3>1. pos[i] <= fc /\ pos'[i] = pos[i] /\ next'[i] = next[i]
      BY <1>4, <1>7, <1>12, <2>2, Zenon
    <3>2. IF pos[i] = 1 THEN next[i] = Count + 1
                        ELSE next[i] \in Index /\ pos[next[i]] = pos[i] - 1
      BY <1>2, <3>1, Zenon DEF LinkOK
    <3>3. pos[i] - 1 <= fc
      BY <1>3, <1>4, <3>1
    <3> QED
      BY <1>11, <3>1, <3>2, <3>3, Zenon
  <2> QED
    BY <2>1, <2>2, Zenon
<1>16. FreeOrHeld'
  <2> SUFFICES ASSUME NEW i \in Index
               PROVE  pos'[i] > free_count' <=> <<i, salt'[i]>> \in held'
    BY Zenon DEF FreeOrHeld
  <2>1. CASE i = x
    <3>1. salt[x] # salt[x] + 1
      <4>1. salt[x] \in Salt
        BY <1>2, <1>4, Zenon DEF TypeOK
      <4> QED
        BY <4>1 DEF Salt
    <3>2. <<x, salt[x] + 1>> \notin held
      <4> SUFFICES ASSUME <<x, salt[x] + 1>> \in held PROVE FALSE
        BY Zenon
      <4>1. <<x, salt[x] + 1>>[1] = x /\ <<x, salt[x] + 1>>[2] = salt[x] + 1
        OBVIOUS
      <4> QED
        BY <1>2, <3>1, <4>1, Zenon DEF HeldCurrent
    <3>3. <<x, salt'[x]>> \notin held'
      BY <1>5, <1>6, <3>2, Zenon
    <3>4. ~(pos'[x] > free_count')
      BY <1>4, <1>8
    <3> QED
      BY <2>1, <3>3, <3>4, Zenon
  <2>2. CASE i # x
    <3>1. pos'[i] > fc + 1 <=> pos[i] > fc
      <4>1. pos'[i] \in Nat /\ pos[i] \in Nat
        <5>1. pos'[i] \in Index /\ pos[i] \in Index
          BY <1>3, <1>9, Zenon DEF TypeOK
        <5> QED
          BY <5>1 DEF Index
      <4> QED
        BY <1>4, <1>11, <1>12, <2>2, <4>1
    <3>2. <<i, salt[i]>> # t
      <4>1. <<i, salt[i]>>[1] = i
        OBVIOUS
      <4> QED
        BY <2>2, <4>1, Zenon
    <3>3. <<i, salt'[i]>> \in held' <=> <<i, salt[i]>> \in held
      BY <1>5, <1>6, <2>2, <3>2, Zenon
    <3> QED
      BY <1>2, <1>4, <3>1, <3>3, Zenon DEF FreeOrHeld
  <2> QED
    BY <2>1, <2>2, Zenon
<1>17. \A u \in held \cup old : u[1] \in Index /\ u[2] \in Salt /\ u = <<u[1], u[2]>>
  BY <1>2 DEF TypeOK, Token
<1>18. HeldCurrent'
  <2>1. \A u \in held' : u \in held /\ u[1] # x
    <3> SUFFICES ASSUME NEW u \in held', u[1] = x PROVE u = t
      BY <1>6, Zenon
    <3>1. u \in held /\ u = <<u[1], u[2]>>
      BY <1>6, <1>17, Zenon
    <3>2. u[2] = salt[x]
      BY <1>2, <3>1, Zenon DEF HeldCurrent
    <3> QED
      BY <1>1, <3>1, <3>2, Zenon
  <2> QED
    BY <1>2, <1>5, <1>17, <2>1, Zenon DEF HeldCurrent
<1>19. OldPast'
  <2> SUFFICES ASSUME NEW u \in old' PROVE u[2] < salt'[u[1]]
    BY Zenon DEF OldPast
  <2>0. u \in held \cup old
    BY <1>1, <1>6, Zenon
  <2>1. salt[x] \in Nat /\ salt[u[1]] \in Nat /\ u[2] \in Nat
    <3>1. x \in 0..Count /\ u[1] \in 0..Count
      BY <1>4, <1>17, <2>0 DEF Index
    <3>2. salt[x] \in Salt /\ salt[u[1]] \in Salt /\ u[2] \in Salt
      BY <1>2, <1>17, <2>0, <3>1, Zenon DEF TypeOK
    <3> QED
      BY <3>2 DEF Salt
  <2>2. CASE u = t
    <3>1. u[1] = x /\ u[2] = salt[x]
      BY <1>1, <2>2
    <3> QED
      BY <1>5, <2>1, <3>1
  <2>3. CASE u \in old
    <3>1. u[2] < salt[u[1]] /\ u[1] \in Index
      BY <1>2, <1>17, <2>3, Zenon DEF OldPast
    <3>2. salt'[u[1]] = salt[u[1]] \/ salt'[u[1]] = salt[u[1]] + 1
      BY <1>5, <3>1, Zenon
    <3> QED
      BY <2>1, <3>1, <3>2
  <2> QED
    BY <1>6, <2>2, <2>3, Zenon
<1>20. DataHeld'
  BY <1>1, <1>2, <1>5, Zenon DEF DataHeld, TypeOK, Dealloc
<1> QED
  BY <1>9, <1>13, <1>14, <1>15, <1>16, <1>18, <1>19, <1>20, Zenon DEF IndInv

(* Every reachable state satisfies the inductive invariant.                *)
THEOREM Invariance == Spec => []IndInv
<1>1. IndInv /\ [Next /\ NoWrap]_vars => IndInv'
  <2> SUFFICES ASSUME IndInv, [Next /\ NoWrap]_vars PROVE IndInv'
    BY Zenon
  <2>1. CASE InitItems
    BY <2>1, InitItemsInv, Zenon
  <2>2. CASE Uninit
    BY <2>2, Zenon DEF Uninit, IndInv, TypeOK
  <2>3. CASE Alloc
    BY <2>3, AllocInv, Zenon
  <2>4. ASSUME NEW t \in held \cup old, SetData(t) PROVE IndInv'
    BY <2>4, SetDataInv, Zenon
  <2>5. ASSUME NEW t \in held \cup old, Dealloc(t), NoWrap PROVE IndInv'
    BY <2>5, DeallocInv, Zenon
  <2>6. CASE UNCHANGED vars
    BY <2>6, Zenon DEF vars, IndInv, TypeOK, HeadOK, LinkOK, NoTwoInOnePlace,
                FreeOrHeld, HeldCurrent, OldPast, DataHeld
  <2> QED
    BY <2>1, <2>2, <2>3, <2>4, <2>5, <2>6, Zenon DEF Next
<1> QED
  BY InitInv, <1>1, PTL DEF Spec

(* The free list stays intact for every number of slots and of salts:      *)
(* Alloc's assertion holds and no slot is handed out twice or lost.        *)
THEOREM FreeListStaysIntact == Spec => []FreeListIntact
<1>1. IndInv => FreeListIntact
  BY Zenon DEF IndInv, FreeListIntact
<1> QED
  BY Invariance, <1>1, PTL

(* A token given back is refused for ever, a held one never is.            *)
THEOREM StaleTokensRefused == Spec => []StaleRefused
<1>1. IndInv => StaleRefused
  <2> SUFFICES ASSUME IndInv, valid PROVE StaleRefused
    BY Zenon DEF StaleRefused
  <2>1. \A t \in held \cup old : t[1] \in Index /\ t[2] \in Salt
    BY Zenon DEF IndInv, TypeOK, Token
  <2>2. \A t \in old : GetData(t) = Refused
    BY <2>1 DEF IndInv, OldPast, GetData, Accepts, Salt
  <2>3. \A t \in held : data[t[1]] # Refused
    <3>1. NoData # Refused
      BY DEF NoData, Refused
    <3>2. \A u \in Token : u # Refused
      BY DEF Token, Refused, Index
    <3> QED
      BY <2>1, <3>1, <3>2, Zenon DEF IndInv, TypeOK
  <2>4. \A t \in held : Accepts(t)
    BY <2>1 DEF IndInv, HeldCurrent, Accepts, Index
  <2> QED
    BY <2>2, <2>3, <2>4, Zenon DEF StaleRefused, GetData
<1> QED
  BY Invariance, <1>1, PTL

(* What a holder reads is its own data or an empty slot.                   *)
THEOREM DataIsOwn == Spec => []NoCrossTalk
<1>1. IndInv => NoCrossTalk
  <2> SUFFICES ASSUME IndInv, valid, NEW t \in held
               PROVE  GetData(t) \in {t, NoData}
    BY Zenon DEF NoCrossTalk
  <2>1. t[1] \in Index /\ t = <<t[1], t[2]>>
    BY DEF IndInv, TypeOK, Token
  <2>2. Accepts(t)
    BY <2>1 DEF IndInv, HeldCurrent, Accepts, Index
  <2> QED
    BY <2>1, <2>2, Zenon DEF GetData, IndInv, DataHeld, HeldCurrent
<1> QED
  BY Invariance, <1>1, PTL
=============================================================================
