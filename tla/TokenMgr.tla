------------------------------ MODULE TokenMgr ------------------------------
(***************************************************************************)
(* TokenMgr<Token32, TData> (blitz/include/blitz/token_mgr.h): a fixed     *)
(* array of slots linked into a free list through the slots' next fields,  *)
(* with slot 0 as the list head.  Alloc hands out the token of a free      *)
(* slot, Dealloc renews the slot's salt and puts it back, SetData/GetData  *)
(* accept a token only if its salt is the slot's current one.              *)
(*                                                                         *)
(* A token is the pair <<index, salt>>; Token32 packs them in 16 + 16 bits,*)
(* so salts are counted modulo SaltMod (65536 in the code).                *)
(***************************************************************************)
EXTENDS Naturals

CONSTANTS Count,     \* number of usable slots: Init's argument
          SaltMod    \* number of salts: 2^16

ASSUME CountAssumption == Count \in Nat \ {0}
ASSUME SaltAssumption == SaltMod \in Nat /\ SaltMod > 1

Index == 1..Count
Salt == 0..(SaltMod - 1)
Token == Index \X Salt
NoData == <<0, 0>>    \* a slot's data before SetData and after Dealloc
Refused == <<0, 1>>   \* GetData returned NULL

VARIABLES
  valid,       \* items_ # NULL
  salt,        \* items_[i].token's salt
  next,        \* items_[i].next; slot 0 heads the free list
  free_count,  \* free_count_
  data,        \* items_[i].data: the token it was last stored under
  held,        \* history: tokens handed out and not given back
  old,         \* history: tokens given back with Dealloc
  pos          \* history: place of a slot in the free list, its end being 1

vars == <<valid, salt, next, free_count, data, held, old, pos>>

TypeOK ==
  /\ valid \in BOOLEAN
  /\ salt \in [0..Count -> Salt]
  /\ next \in [0..Count -> 0..(Count + 1)]
  /\ free_count \in 0..Count
  /\ data \in [Index -> Token \cup {NoData}]
  /\ held \in SUBSET Token
  /\ old \in SUBSET Token
  /\ pos \in [Index -> Index]
-----------------------------------------------------------------------------
\* A new manager, before Init: nothing is allocated.
Init ==
  /\ valid = FALSE
  /\ salt = [i \in 0..Count |-> 0]
  /\ next = [i \in 0..Count |-> 0]
  /\ free_count = 0
  /\ data = [i \in Index |-> NoData]
  /\ held = {}
  /\ old = {}
  /\ pos = [i \in Index |-> i]

\* Mutant: the links start one slot late.
InitItemsOffByOne ==
  /\ ~valid
  /\ valid' = TRUE
  /\ salt' = [i \in 0..Count |-> 1]
  /\ next' = [i \in 0..Count |-> IF i < Count THEN i + 2 ELSE i + 1]
  /\ free_count' = Count
  /\ data' = [i \in Index |-> NoData]
  /\ held' = {}
  /\ old' = {}
  /\ pos' = [i \in Index |-> Count + 1 - i]

\* Init(count): fresh items (Token32() is 0, so the first salt is 1), linked
\* 0 -> 1 -> ... -> Count -> Count + 1.  It refuses a manager in use.  The
\* tokens of an earlier life are forgotten: nothing is promised about them.
InitItems ==
  /\ ~valid
  /\ valid' = TRUE
  /\ salt' = [i \in 0..Count |-> 1]
  /\ next' = [i \in 0..Count |-> i + 1]
  /\ free_count' = Count
  /\ data' = [i \in Index |-> NoData]
  /\ held' = {}
  /\ old' = {}
  /\ pos' = [i \in Index |-> Count + 1 - i]

Uninit ==
  /\ valid
  /\ valid' = FALSE
  /\ UNCHANGED <<salt, next, free_count, data, held, old, pos>>

\* The slot at the head of the free list.
Front == next[0]

\* outFreelist: unlink the head of the free list.
outFreelist ==
  /\ next' = [i \in 0..Count |-> CASE i = 0 -> next[Front]
                                   [] i = Front -> 0
                                   [] OTHER -> next[i]]
  /\ free_count' = free_count - 1

Alloc ==
  /\ valid
  /\ free_count > 0
  /\ outFreelist
  /\ held' = held \cup {<<Front, salt[Front]>>}
  /\ UNCHANGED <<valid, salt, data, old, pos>>

\* Mutant: the salt is not compared.
AcceptsAnySalt(t) == t[1] > 0 /\ t[1] <= Count

\* The check that SetData, GetData and Dealloc make.
Accepts(t) == t[1] > 0 /\ t[1] <= Count /\ salt[t[1]] = t[2]

\* Callers only have tokens that Alloc gave them, some of them stale.
SetData(t) ==
  /\ valid
  /\ Accepts(t)
  /\ data' = [data EXCEPT ![t[1]] = t]
  /\ UNCHANGED <<valid, salt, next, free_count, held, old, pos>>

\* inFreelist: push a slot on the free list.  Slots off the list have places
\* above free_count: the pushed slot swaps its place with the first of them.
inFreelist(index) ==
  /\ next' = [i \in 0..Count |-> CASE i = 0 -> index
                                   [] i = index -> next[0]
                                   [] OTHER -> next[i]]
  /\ free_count' = free_count + 1
  /\ pos' = [i \in Index |-> IF i = index THEN free_count + 1
                            ELSE IF pos[i] = free_count + 1 THEN pos[index]
                            ELSE pos[i]]

\* NewSalt increments a uint16_t.
NewSalt(s) == IF s + 1 = SaltMod THEN 0 ELSE s + 1

\* Mutant: the slot's data is not destroyed.
DeallocKeepsData(t) ==
  /\ valid
  /\ Accepts(t)
  /\ salt' = [salt EXCEPT ![t[1]] = NewSalt(@)]
  /\ inFreelist(t[1])
  /\ held' = held \ {t}
  /\ old' = old \cup {t}
  /\ UNCHANGED <<valid, data>>

\* Dealloc destroys the data, renews the salt, frees the slot.
Dealloc(t) ==
  /\ valid
  /\ Accepts(t)
  /\ data' = [data EXCEPT ![t[1]] = NoData]
  /\ salt' = [salt EXCEPT ![t[1]] = NewSalt(@)]
  /\ inFreelist(t[1])
  /\ held' = held \ {t}
  /\ old' = old \cup {t}
  /\ UNCHANGED valid

\* GetData: the stored data, or a refusal.
GetData(t) == IF Accepts(t) THEN data[t[1]] ELSE Refused

Next ==
  \/ InitItems
  \/ Uninit
  \/ Alloc
  \/ \E t \in held \cup old : SetData(t) \/ Dealloc(t)

\* The specification covers every run in which no salt wraps round: after
\* SaltMod reuses of one slot a stale token is current again, by design.
NoWrap == \A i \in Index : salt'[i] # 0

Spec == Init /\ [][Next /\ NoWrap]_vars
-----------------------------------------------------------------------------
\* Following next from slot 0 visits the slots in places free_count, ..., 1,
\* and then leaves the array.
HeadOK ==
  IF free_count = 0 THEN next[0] = Count + 1
                    ELSE next[0] \in Index /\ pos[next[0]] = free_count

LinkOK ==
  \A i \in Index : pos[i] <= free_count =>
    IF pos[i] = 1 THEN next[i] = Count + 1
                  ELSE next[i] \in Index /\ pos[next[i]] = pos[i] - 1

NoTwoInOnePlace == \A i, j \in Index : pos[i] = pos[j] => i = j

\* A slot is off the list exactly while somebody holds its current token.
FreeOrHeld == \A i \in Index : pos[i] > free_count <=> <<i, salt[i]>> \in held

\* The salt a token was given out with is current, those given back are past.
HeldCurrent == \A t \in held : salt[t[1]] = t[2]

OldPast == \A t \in old : t[2] < salt[t[1]]

DataHeld == \A i \in Index : data[i] # NoData => data[i] = <<i, salt[i]>>

(* Alloc's assert(index <= count_) never fails, the slot it hands out is   *)
(* never one that somebody still holds, and no slot is lost: what is not   *)
(* held is on the free list, exactly once.  A double Dealloc, or one with  *)
(* a stale token, would break this.                                        *)
FreeListIntact == valid => HeadOK /\ LinkOK /\ NoTwoInOnePlace /\ FreeOrHeld

(* A token that was given back is refused ever after ("with the same       *)
(* token it cannot be fetched any more", token_mgr.h:241), while a token   *)
(* still held is always accepted.                                          *)
StaleRefused ==
  valid => /\ \A t \in old : GetData(t) = Refused
           /\ \A t \in held : GetData(t) # Refused

(* GetData never returns what another holder of the slot stored: a new     *)
(* holder finds the slot empty until it stores something itself.           *)
NoCrossTalk == valid => \A t \in held : GetData(t) \in {t, NoData}

\* The inductive invariant behind the three.
IndInv ==
  /\ TypeOK
  /\ valid => /\ HeadOK /\ LinkOK /\ NoTwoInOnePlace /\ FreeOrHeld
              /\ HeldCurrent /\ OldPast /\ DataHeld
=============================================================================
