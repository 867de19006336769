------------------------------ MODULE OsProofs ------------------------------
(***************************************************************************)
(* Proofs about two parts of the operating system: the boot loader (Boot), *)
(* for any disks and EEPROMs, and the path library (Path), for all names and    *)
(* paths of any length.                                                    *)
(*                                                                         *)
(* The invariant of Boot says, for each call of the boot loader, what the  *)
(* earlier ones have found out.  Reasons holds of a boot during which      *)
(* nothing changes: what was there is still there.                         *)
(*                                                                         *)
(* The functions of Path are folds over a path.  A fold is the value of a  *)
(* recursive function on the sets of the path's positions; that there is   *)
(* one is proved first, and that it goes along the path step by step.      *)
(* What a fold gives is then known from what it gives of a path with a     *)
(* part less, by induction over sequences, stated as a lemma about sets.   *)
(***************************************************************************)
EXTENDS Boot, Path, TLAPS, SequenceTheorems, FiniteSetTheorems, WellFoundedInduction

-----------------------------------------------------------------------------
(* The boot loader.                                                        *)

\* The loop has no choice left over from an earlier turn, and stores none that
\* is missing.
Chosen ==
  /\ pc \in {"list", "next"} => fs = {}
  /\ pc \in {"exists", "setData"} => fs # {}

\* What is known of a computer that stays as it is: the EEPROM is in it, and
\* each disk that the loop is through with has no kernel.
Reasons ==
  ~hotplug =>
    /\ pc \in Booting \ {"bios", "first"} => Found
    /\ pc = "proxy" => \A e \in own : fs = bootAddr[e]
    /\ pc \in {"next", "exists"} =>
         toCheck \subseteq disks /\ (disks \ toCheck) \cap kernels \subseteq fs
    /\ pc \in {"exists", "setData", "read"} => fs \subseteq disks
    /\ pc = "setData" => (\A e \in own : fs = bootAddr[e]) \/ fs \subseteq kernels

BootInv == TypeOK /\ Chosen /\ KernelIsStored /\ Reasons

\* A computer to be turned on satisfies the invariant ...
LEMMA InitBootInv == Init => BootInv
BY DEF Init, BootInv, TypeOK, Chosen, KernelIsStored, Reasons, Optional, Booting, Ends

\* A choice that was made is one disk.
LEMMA OneDisk ==
  ASSUME NEW x \in Optional(Disks), x # {}
  PROVE  \E d \in Disks : x = {d}
BY DEF Optional

\* The EEPROM that was found is one.
LEMMA OneEeprom ==
  ASSUME TypeOK, own # {}
  PROVE  \E e \in Eeproms : own = {e} /\ UNION {bootAddr[x] : x \in own} = bootAddr[e]
BY DEF TypeOK, Optional

\* Any step keeps the types.
LEMMA NextBootTypes ==
  ASSUME TypeOK, [Next]_vars
  PROVE  TypeOK'
<1> USE DEF TypeOK, Optional, Booting, Ends, world
<1>1. CASE Bios \/ BiosProxy \/ RunEeprom \/ FirstEeprom \/ EepromProxy \/ ProxyBootAddr
  BY <1>1 DEF Bios, BiosProxy, RunEeprom, FirstEeprom, EepromProxy, First, FirstProxy, ProxyBootAddr
<1>7. CASE GetData
  <2>1. Found => fs' \in Optional(Disks)
    BY <1>7, OneEeprom DEF GetData, Found
  <2> QED BY <1>7, <2>1 DEF GetData
<1>2. CASE ListFilesystems \/ CheckNext \/ Exists \/ NoMedium
  BY <1>2 DEF ListFilesystems, CheckNext, Exists, NoMedium
<1>3. CASE ReadKernel \/ RunKernel \/ KernelEnds
  BY <1>3 DEF ReadKernel, RunKernel, KernelEnds
<1>8. CASE SetData
  <2>1. CASE Found
    <3>1. PICK e \in own : bootAddr' = Stored(e)
      BY <1>8, <2>1 DEF SetData
    <3>2. e \in Eeproms
      BY <3>1
    <3>3. bootAddr' \in [Eeproms -> Optional(Disks)]
      BY <3>1, <3>2 DEF Stored
    <3> QED BY <1>8, <2>1, <3>3 DEF SetData
  <2>2. CASE ~Found
    BY <1>8, <2>2 DEF SetData
  <2> QED BY <2>1, <2>2
<1>4. CASE TurnOn \/ TurnOff
  BY <1>4 DEF TurnOn, TurnOff, Change
<1>9. CASE \E e \in Eeproms : PlugEeprom(e)
  <2>1. PICK e \in Eeproms : PlugEeprom(e)
    BY <1>9
  <2>2. eeprom = {} \/ eeprom = {e}
    BY <2>1 DEF PlugEeprom
  <2>3. eeprom' = {} \/ eeprom' = {e}
    BY <2>1, <2>2 DEF PlugEeprom
  <2>4. UNCHANGED <<disks, kernels, bootAddr, pc, own, fs, toCheck>> /\ hotplug' \in BOOLEAN
    BY <2>1 DEF PlugEeprom, Change
  <2> QED BY <2>3, <2>4
<1>5. CASE \E d \in Disks : PlugDisk(d) \/ ChangeDisk(d)
  BY <1>5 DEF PlugDisk, ChangeDisk, Change
<1>6. CASE UNCHANGED vars
  BY <1>6 DEF vars
<1> QED BY <1>1, <1>2, <1>3, <1>4, <1>5, <1>6, <1>7, <1>8, <1>9
    DEF Next, Loader, Player

\* ... and so does one after any step, ...
LEMMA NextBootInv ==
  ASSUME BootInv, [Next]_vars
  PROVE  BootInv'
<1>1. TypeOK'
  BY NextBootTypes DEF BootInv
<1> USE DEF BootInv, Chosen, KernelIsStored, Reasons, Booting, world
<1>2. (Chosen /\ KernelIsStored /\ Reasons)'
  <2>1. CASE Bios \/ BiosProxy \/ RunEeprom \/ FirstEeprom \/ EepromProxy
    BY <2>1 DEF Bios, BiosProxy, RunEeprom, FirstEeprom, EepromProxy, First, FirstProxy, Found
  <2>10. CASE GetData
    BY <2>10, OneEeprom DEF GetData, Found
  <2>2. CASE ProxyBootAddr
    BY <2>2 DEF ProxyBootAddr, Found
  <2>3. CASE ListFilesystems
    BY <2>3 DEF ListFilesystems, Found
  <2>4. CASE CheckNext
    BY <2>4 DEF CheckNext, Found
  <2>5. CASE Exists
    <3>1. PICK d \in Disks : fs = {d}
      BY <2>5, OneDisk DEF Exists, TypeOK
    <3> QED BY <2>5, <3>1 DEF Exists, Found
  <2>6. CASE NoMedium \/ ReadKernel \/ RunKernel \/ KernelEnds
    BY <2>6 DEF NoMedium, ReadKernel, RunKernel, KernelEnds, Found
  <2>11. CASE SetData
    <3>1. CASE Found
      <4>1. PICK e \in own : bootAddr' = Stored(e)
        BY <2>11, <3>1 DEF SetData
      <4>2. e \in Eeproms /\ bootAddr'[e] = fs
        BY <4>1 DEF TypeOK, Optional, Stored
      <4>3. pc' = "read" /\ UNCHANGED <<world, own, fs, toCheck>>
        BY <2>11, <3>1 DEF SetData
      <4> QED BY <2>11, <3>1, <4>1, <4>2, <4>3 DEF Found, SetData
    <3>2. CASE ~Found
      BY <2>11, <3>2 DEF SetData
    <3> QED BY <3>1, <3>2
  <2>7. CASE TurnOn \/ TurnOff \/ \E e \in Eeproms : PlugEeprom(e)
    BY <2>7 DEF PlugEeprom, TurnOn, TurnOff, Change, Found
  <2>8. CASE \E d \in Disks : PlugDisk(d) \/ ChangeDisk(d)
    BY <2>8 DEF PlugDisk, ChangeDisk, Change, Found
  <2>9. CASE UNCHANGED vars
    BY <2>9 DEF vars, Found
  <2> QED BY <2>1, <2>2, <2>3, <2>4, <2>5, <2>6, <2>7, <2>8, <2>9, <2>10, <2>11
          DEF Next, Loader, Player
<1> QED BY <1>1, <1>2 DEF BootInv

\* ... and so at all times.
LEMMA AlwaysBootInv == Spec => []BootInv
BY InitBootInv, NextBootInv, PTL DEF Spec

\* Every variable of the boot keeps its type, whatever the player does.
THEOREM BootTypes == Spec => []TypeOK
<1>1. BootInv => TypeOK
  BY DEF BootInv
<1> QED BY <1>1, AlwaysBootInv, PTL

\* The disk whose kernel runs is the one whose address is stored on the EEPROM that was
\* found.
THEOREM RunningKernelIsStored == Spec => []KernelIsStored
<1>1. BootInv => KernelIsStored
  BY DEF BootInv
<1> QED BY <1>1, AlwaysBootInv, PTL

\* A boot during which nothing changes finds a kernel if there is one, stores
\* only what boots, and fails only on a disk that was stored before.
THEOREM FailuresHaveReasons == Spec => FailsForAReason
<1> DEFINE A == ~hotplug /\ ~hotplug' =>
      /\ pc = "next" /\ pc' = "noMedium" => disks \cap kernels = {}
      /\ \A e \in Eeproms :
           bootAddr'[e] # bootAddr[e] => bootAddr'[e] \subseteq disks \cap kernels
      /\ pc \in Booting /\ pc' = "error" => fs \subseteq disks \ kernels
<1>1. ASSUME BootInv, [Next]_vars
      PROVE  [A]_vars
  <2> USE <1>1 DEF BootInv, Chosen, Reasons, Booting, world
  <2>1. CASE Bios \/ BiosProxy \/ RunEeprom \/ FirstEeprom \/ EepromProxy
    BY <2>1 DEF Bios, BiosProxy, RunEeprom, FirstEeprom, EepromProxy, First, FirstProxy
  <2>10. CASE GetData \/ ProxyBootAddr \/ ListFilesystems
    BY <2>10 DEF GetData, ProxyBootAddr, ListFilesystems
  <2>2. CASE CheckNext \/ Exists
    BY <2>2 DEF CheckNext, Exists
  <2>3. CASE NoMedium
    BY <2>3 DEF NoMedium
  <2>4. CASE SetData
    <3> SUFFICES ASSUME ~hotplug PROVE A
      OBVIOUS
    <3>1. PICK x \in own : bootAddr' = Stored(x) /\ pc' = "read"
      BY <2>4 DEF SetData
    <3>2. ASSUME NEW e \in Eeproms, bootAddr'[e] # bootAddr[e]
          PROVE  bootAddr'[e] \subseteq disks \cap kernels
      <4>1. e = x /\ bootAddr'[e] = fs
        BY <3>1, <3>2 DEF TypeOK, Stored
      <4> QED BY <2>4, <3>1, <3>2, <4>1 DEF SetData
    <3> QED BY <2>4, <3>1, <3>2
  <2>5. CASE ReadKernel
    <3>1. PICK d \in Disks : fs = {d}
      BY <2>5, OneDisk DEF ReadKernel, TypeOK, KernelIsStored
    <3> QED BY <2>5, <3>1 DEF ReadKernel
  <2>6. CASE RunKernel \/ KernelEnds
    BY <2>6 DEF RunKernel, KernelEnds
  <2>7. CASE TurnOn \/ TurnOff \/ \E e \in Eeproms : PlugEeprom(e)
    BY <2>7 DEF PlugEeprom, TurnOn, TurnOff, Change
  <2>8. CASE \E d \in Disks : PlugDisk(d) \/ ChangeDisk(d)
    BY <2>8 DEF PlugDisk, ChangeDisk, Change
  <2>9. CASE UNCHANGED vars
    BY <2>9
  <2> QED BY <2>1, <2>2, <2>3, <2>4, <2>5, <2>6, <2>7, <2>8, <2>9, <2>10
          DEF Next, Loader, Player
<1> QED BY <1>1, AlwaysBootInv, PTL DEF Spec, FailsForAReason

-----------------------------------------------------------------------------
(* Numbers, positions and sequences.                                       *)

\* A set of numbers has a least one.
LEMMA Least ==
  ASSUME NEW T \in SUBSET Nat, T # {}
  PROVE  \E x \in T : \A y \in T : ~(y < x)
<1>1. \E x \in T : \A y \in T : ~(<<y, x>> \in OpToRel(<, Nat))
  BY NatLessThanWellFounded, WFMin
<1>2. \A x, y \in T : <<y, x>> \in OpToRel(<, Nat) <=> y < x
  BY DEF OpToRel
<1> QED BY <1>1, <1>2

\* Induction over numbers.
LEMMA NatSet ==
  ASSUME NEW T \in SUBSET Nat, 0 \in T, \A n \in T : n + 1 \in T
  PROVE  T = Nat
<1> SUFFICES ASSUME Nat \ T # {} PROVE FALSE
  OBVIOUS
<1>1. PICK x \in Nat \ T : \A y \in Nat \ T : ~(y < x)
  BY Least
<1>2. x - 1 \in Nat /\ x - 1 < x
  BY <1>1
<1>3. x - 1 \in T
  BY <1>1, <1>2
<1> QED BY <1>1, <1>3

\* Induction over sequences.
LEMMA SeqSet ==
  ASSUME NEW S, NEW T \in SUBSET Seq(S), <<>> \in T,
         \A q \in T, x \in S : Append(q, x) \in T
  PROVE  T = Seq(S)
<1> DEFINE L == {n \in Nat : \A q \in Seq(S) : Len(q) = n => q \in T}
<1>1. 0 \in L
  <2>1. \A q \in Seq(S) : Len(q) = 0 => q = <<>>
    OBVIOUS
  <2> QED BY <2>1
<1>2. ASSUME NEW n \in L PROVE n + 1 \in L
  <2> SUFFICES ASSUME NEW q \in Seq(S), Len(q) = n + 1 PROVE q \in T
    BY <1>2
  <2>1. n \in Nat /\ \A r \in Seq(S) : Len(r) = n => r \in T
    BY <1>2
  <2>2. q # <<>>
    BY <2>1
  <2>3. PICK r \in Seq(S), x \in S : q = Append(r, x)
    BY <2>2, SequenceEmptyOrAppend
  <2>4. Len(r) = n
    BY <2>1, <2>3
  <2> QED BY <2>1, <2>3, <2>4
<1>3. L = Nat
  <2> HIDE DEF L
  <2>1. L \in SUBSET Nat
    BY DEF L
  <2> QED BY <1>1, <1>2, <2>1, NatSet
<1>4. \A q \in Seq(S) : Len(q) \in Nat
  OBVIOUS
<1> QED BY <1>3, <1>4

\* The greatest of a nonempty set of numbers up to n is one of them.
LEMMA MaxIn ==
  ASSUME NEW n \in Nat, NEW s \in SUBSET (0 .. n), s # {}
  PROVE  Max(s) \in s /\ \A j \in s : Max(s) >= j
<1> DEFINE T == {n - i : i \in s}
<1>1. T \in SUBSET Nat /\ T # {}
  <2>1. \A i \in s : n - i \in Nat
    OBVIOUS
  <2> QED BY <2>1
<1> HIDE DEF T
<1>2. PICK x \in T : \A y \in T : ~(y < x)
  BY <1>1, Least
<1>3. PICK i \in s : x = n - i
  BY <1>2 DEF T
<1>4. \A j \in s : n - j \in T
  BY DEF T
<1>5. \A j \in s : i >= j
  BY <1>2, <1>3, <1>4
<1> QED BY <1>5 DEF Max

\* A fold from the left takes away the last position.
LEMMA MaxUpto ==
  ASSUME NEW k \in Nat, k > 0
  PROVE  Max(1 .. k) = k /\ (1 .. k) \ {k} = 1 .. (k - 1)
<1>1. k \in 1 .. k /\ \A j \in 1 .. k : k >= j
  OBVIOUS
<1>2. \A x \in 1 .. k : (\A j \in 1 .. k : x >= j) => x = k
  OBVIOUS
<1> QED BY <1>1, <1>2 DEF Max

\* ... of two.
LEMMA UptoTwo ==
  /\ Max(1 .. 2) = 2 /\ (1 .. 2) \ {2} = 1 .. 1
  /\ Max(1 .. 1) = 1 /\ (1 .. 1) \ {1} = 1 .. 0
<1>1. \A k \in Nat : k > 0 => Max(1 .. k) = k
  BY MaxUpto
<1>2. 1 \in Nat /\ 1 > 0 /\ 2 \in Nat /\ 2 > 0
  OBVIOUS
<1>3. (1 .. 2) \ {2} = 1 .. 1 /\ (1 .. 1) \ {1} = 1 .. 0
  OBVIOUS
<1> QED BY <1>1, <1>2, <1>3

\* The least of a nonempty set of positions is one of them.
LEMMA MinIn ==
  ASSUME NEW n \in Nat, NEW s \in SUBSET (1 .. n), s # {}
  PROVE  Min(s) \in s
<1>1. s \in SUBSET Nat
  OBVIOUS
<1>2. PICK x \in s : \A y \in s : ~(y < x)
  BY <1>1, Least
<1>3. \A y \in s : x =< y
  BY <1>1, <1>2
<1> QED BY <1>3 DEF Min

\* ... and the only one below all others.
LEMMA MinIs ==
  ASSUME NEW s \in SUBSET Nat, NEW x \in s, \A y \in s : x =< y
  PROVE  Min(s) = x
<1>1. \A z \in s : (\A y \in s : z =< y) => z = x
  OBVIOUS
<1> QED BY <1>1 DEF Min

\* A fold from the right takes away the first position, of two or three.
LEMMA OneUp ==
  /\ Min({1, 2}) = 1 /\ Min({2}) = 2
  /\ {1, 2} \ {1} = {2} /\ {2} \ {2} = {}
  /\ Min({1, 2, 3}) = 1 /\ Min({2, 3}) = 2 /\ Min({3}) = 3
  /\ {1, 2, 3} \ {1} = {2, 3} /\ {2, 3} \ {2} = {3} /\ {3} \ {3} = {}
<1>1. Min({1, 2}) = 1
  <2>1. {1, 2} \in SUBSET Nat /\ 1 \in {1, 2} /\ \A y \in {1, 2} : 1 =< y
    OBVIOUS
  <2> QED BY <2>1, MinIs
<1>2. Min({2}) = 2
  <2>1. {2} \in SUBSET Nat /\ 2 \in {2} /\ \A y \in {2} : 2 =< y
    OBVIOUS
  <2> QED BY <2>1, MinIs
<1>3. Min({1, 2, 3}) = 1
  <2>1. {1, 2, 3} \in SUBSET Nat /\ 1 \in {1, 2, 3} /\ \A y \in {1, 2, 3} : 1 =< y
    OBVIOUS
  <2> QED BY <2>1, MinIs
<1>4. Min({2, 3}) = 2
  <2>1. {2, 3} \in SUBSET Nat /\ 2 \in {2, 3} /\ \A y \in {2, 3} : 2 =< y
    OBVIOUS
  <2> QED BY <2>1, MinIs
<1>5. Min({3}) = 3
  <2>1. {3} \in SUBSET Nat /\ 3 \in {3} /\ \A y \in {3} : 3 =< y
    OBVIOUS
  <2> QED BY <2>1, MinIs
<1>6. /\ {1, 2} \ {1} = {2} /\ {2} \ {2} = {}
      /\ {1, 2, 3} \ {1} = {2, 3} /\ {2, 3} \ {2} = {3} /\ {3} \ {3} = {}
  OBVIOUS
<1> QED BY <1>1, <1>2, <1>3, <1>4, <1>5, <1>6

\* A sequence of one.
LEMMA SingleSeq ==
  ASSUME NEW S, NEW x \in S
  PROVE  <<x>> \in Seq(S) /\ Len(<<x>>) = 1 /\ <<x>>[1] = x /\ <<x>> # <<>>
OBVIOUS

\* The ends of a sequence.
LEMMA Bounds ==
  ASSUME NEW S, NEW q \in Seq(S)
  PROVE  /\ Len(q) \in Nat /\ (q # <<>> => Len(q) > 0 /\ q[1] \in S /\ Last(q) \in S)
         /\ Len(q) = 0 \/ Len(q) = 1 \/ Len(q) > 1
         /\ \A x : (q = <<x>>) = (Len(q) = 1 /\ q[1] = x)
<1>1. Len(q) \in Nat /\ (q # <<>> => Len(q) > 0 /\ q[1] \in S /\ Last(q) \in S)
  BY DEF Last
<1>2. ASSUME NEW x PROVE (q = <<x>>) = (Len(q) = 1 /\ q[1] = x)
  <2>1. Len(<<x>>) = 1 /\ <<x>>[1] = x
    OBVIOUS
  <2>2. ASSUME Len(q) = 1, q[1] = x PROVE q = <<x>>
    <3>1. x \in S /\ <<x>> \in Seq(S)
      BY <1>1, <2>2, SingleSeq
    <3> QED BY <2>1, <2>2, <3>1, SeqEqual
  <2> QED BY <2>1, <2>2
<1>3. Len(q) = 0 \/ Len(q) = 1 \/ Len(q) > 1
  OBVIOUS
<1> QED BY <1>1, <1>2, <1>3

\* One element in front.
LEMMA Prefixed ==
  ASSUME NEW S, NEW q \in Seq(S), NEW x \in S
  PROVE  LET r == <<x>> \o q
         IN  /\ r \in Seq(S) /\ Len(r) = Len(q) + 1 /\ r # <<>> /\ r[1] = x
             /\ q # <<>> => Last(r) = Last(q)
<1>1. <<x>> \in Seq(S) /\ Len(<<x>>) = 1 /\ <<x>>[1] = x
  BY SingleSeq
<1>2. Len(q) \in Nat /\ (q # <<>> => Len(q) > 0)
  BY Bounds
<1> DEFINE r == <<x>> \o q
<1>3. /\ r \in Seq(S) /\ Len(r) = 1 + Len(q)
      /\ \A i \in 1 .. 1 + Len(q) : r[i] = IF i <= 1 THEN <<x>>[i] ELSE q[i - 1]
  BY <1>1, ConcatProperties
<1> HIDE DEF r
<1>4. r # <<>>
  BY <1>2, <1>3
<1>5. r[1] = x
  BY <1>1, <1>2, <1>3
<1>6. q # <<>> => Last(r) = Last(q)
  BY <1>2, <1>3 DEF Last
<1> QED BY <1>2, <1>3, <1>4, <1>5, <1>6 DEF r

\* One element behind.
LEMMA Suffixed ==
  ASSUME NEW S, NEW q \in Seq(S), NEW x \in S
  PROVE  LET r == q \o <<x>>
         IN  /\ r \in Seq(S) /\ Len(r) = Len(q) + 1 /\ r # <<>> /\ Last(r) = x
             /\ q # <<>> => r[1] = q[1]
<1>1. <<x>> \in Seq(S) /\ Len(<<x>>) = 1 /\ <<x>>[1] = x
  BY SingleSeq
<1>2. Len(q) \in Nat /\ (q # <<>> => Len(q) > 0)
  BY Bounds
<1> DEFINE r == q \o <<x>>
<1>3. /\ r \in Seq(S) /\ Len(r) = Len(q) + 1
      /\ \A i \in 1 .. Len(q) + 1 : r[i] = IF i <= Len(q) THEN q[i] ELSE <<x>>[i - Len(q)]
  BY <1>1, ConcatProperties
<1> HIDE DEF r
<1>4. r # <<>>
  BY <1>2, <1>3
<1>5. Last(r) = x
  <2>1. Len(r) \in 1 .. Len(q) + 1 /\ ~(Len(r) <= Len(q)) /\ Len(r) - Len(q) = 1
    BY <1>2, <1>3
  <2> QED BY <1>1, <1>3, <2>1 DEF Last
<1>6. q # <<>> => r[1] = q[1]
  BY <1>2, <1>3
<1> QED BY <1>3, <1>4, <1>5, <1>6 DEF r

\* The sequences resolve() folds over are tuples.
LEMMA Tuples ==
  ASSUME NEW S, NEW x \in S, NEW y \in S, NEW z \in S
  PROVE  <<x>> \o <<y>> = <<x, y>> /\ <<x>> \o <<y, z>> = <<x, y, z>>
<1>1. <<x>> \o <<y>> = <<x, y>>
  <2>1. <<x>> \in Seq(S) /\ <<y>> \in Seq(S) /\ <<x, y>> \in Seq(S)
    OBVIOUS
  <2>2. /\ Len(<<x>>) = 1 /\ Len(<<y>>) = 1 /\ Len(<<x, y>>) = 2
        /\ <<x>>[1] = x /\ <<y>>[1] = y /\ <<x, y>>[1] = x /\ <<x, y>>[2] = y
    OBVIOUS
  <2>3. /\ <<x>> \o <<y>> \in Seq(S) /\ Len(<<x>> \o <<y>>) = 2
        /\ (<<x>> \o <<y>>)[1] = x /\ (<<x>> \o <<y>>)[2] = y
    BY <2>1, <2>2, ConcatProperties
  <2>4. \A i \in 1 .. 2 : (<<x>> \o <<y>>)[i] = <<x, y>>[i]
    <3>1. \A i \in 1 .. 2 : i = 1 \/ i = 2
      OBVIOUS
    <3> QED BY <2>2, <2>3, <3>1
  <2> QED BY <2>1, <2>2, <2>3, <2>4, SeqEqual
<1>2. <<x>> \o <<y, z>> = <<x, y, z>>
  <2>1. <<x>> \in Seq(S) /\ <<y, z>> \in Seq(S) /\ <<x, y, z>> \in Seq(S)
    OBVIOUS
  <2>2. /\ Len(<<x>>) = 1 /\ Len(<<y, z>>) = 2 /\ Len(<<x, y, z>>) = 3
        /\ <<x>>[1] = x /\ <<y, z>>[1] = y /\ <<y, z>>[2] = z
        /\ <<x, y, z>>[1] = x /\ <<x, y, z>>[2] = y /\ <<x, y, z>>[3] = z
    OBVIOUS
  <2>3. /\ <<x>> \o <<y, z>> \in Seq(S) /\ Len(<<x>> \o <<y, z>>) = 3
        /\ (<<x>> \o <<y, z>>)[1] = x /\ (<<x>> \o <<y, z>>)[2] = y
        /\ (<<x>> \o <<y, z>>)[3] = z
    BY <2>1, <2>2, ConcatProperties
  <2>4. \A i \in 1 .. 3 : (<<x>> \o <<y, z>>)[i] = <<x, y, z>>[i]
    <3>1. \A i \in 1 .. 3 : i = 1 \/ i = 2 \/ i = 3
      OBVIOUS
    <3> QED BY <2>2, <2>3, <3>1
  <2> QED BY <2>1, <2>2, <2>3, <2>4, SeqEqual
<1> QED BY <1>1, <1>2

-----------------------------------------------------------------------------
(* Folds: the recursive function behind one exists, and is a walk.         *)

\* g does G from b on, for the elements of D that c chooses.
Folding(g, D, R, b, G, c) ==
  /\ g \in [SUBSET D -> R]
  /\ \A s \in SUBSET D : g[s] = IF s = {} THEN b ELSE G[g[s \ {c[s]}], c[s]]

\* A fold over a finite set has the recursive function that it is defined by,
\* in whatever order it takes the elements.
LEMMA IterExists ==
  ASSUME NEW D, IsFiniteSet(D), NEW R, NEW b \in R, NEW G \in [R \X D -> R],
         NEW c, \A s \in SUBSET D : s # {} => c[s] \in s
  PROVE  \E g : Folding(g, D, R, b, G, c)
<1> DEFINE Small(n) == {s \in SUBSET D : Cardinality(s) =< n}
           Good(n, g) ==
             /\ g \in [Small(n) -> R]
             /\ \A s \in Small(n) : g[s] = IF s = {} THEN b ELSE G[g[s \ {c[s]}], c[s]]
           T == {n \in Nat : \E g : Good(n, g)}
<1>1. \A s \in SUBSET D : IsFiniteSet(s) /\ Cardinality(s) \in Nat
  BY FS_Subset, FS_CardinalityType
<1>2. \A n \in Nat : \A s \in Small(n + 1) : s # {} => s \ {c[s]} \in Small(n) /\ c[s] \in D
  <2> SUFFICES ASSUME NEW n \in Nat, NEW s \in Small(n + 1), s # {}
               PROVE  s \ {c[s]} \in Small(n) /\ c[s] \in D
    OBVIOUS
  <2>1. c[s] \in s /\ IsFiniteSet(s) /\ Cardinality(s) \in Nat
    BY <1>1
  <2>2. Cardinality(s \ {c[s]}) = Cardinality(s) - 1
    BY <2>1, FS_RemoveElement
  <2> QED BY <2>1, <2>2
<1>3. 0 \in T
  <2> DEFINE g == [s \in Small(0) |-> b]
  <2>1. \A s \in Small(0) : s = {}
    BY <1>1, FS_EmptySet
  <2>2. Good(0, g)
    BY <2>1
  <2> QED BY <2>2
<1>4. ASSUME NEW n \in T PROVE n + 1 \in T
  <2>1. PICK g : Good(n, g)
    BY <1>4
  <2>2. n \in Nat
    BY <1>4
  <2> DEFINE h == [s \in Small(n + 1) |-> IF s = {} THEN b ELSE G[g[s \ {c[s]}], c[s]]]
  <2>3. \A s \in Small(n) : s \in Small(n + 1)
    <3> SUFFICES ASSUME NEW s \in SUBSET D, Cardinality(s) =< n PROVE Cardinality(s) =< n + 1
      OBVIOUS
    <3> HIDE DEF T, Small, Good, h
    <3>1. Cardinality(s) \in Nat
      BY <1>1
    <3> QED BY <2>2, <3>1
  <2>4. \A s \in Small(n) : h[s] = g[s]
    BY <2>1, <2>3
  <2>5. \A s \in Small(n + 1) : s # {} =>
          s \ {c[s]} \in Small(n) /\ c[s] \in D /\ g[s \ {c[s]}] \in R
    BY <1>2, <2>1, <2>2
  <2>6. h \in [Small(n + 1) -> R]
    BY <2>5
  <2>7. \A s \in Small(n + 1) : h[s] = IF s = {} THEN b ELSE G[h[s \ {c[s]}], c[s]]
    BY <2>4, <2>5
  <2>8. Good(n + 1, h)
    <3> HIDE DEF h, Small
    <3> QED BY <2>6, <2>7
  <2>9. \E g1 : Good(n + 1, g1)
    <3> HIDE DEF h, Good
    <3> QED BY <2>8
  <2> HIDE DEF h, Good
  <2> QED BY <2>2, <2>9
<1>5. Cardinality(D) \in T
  <2> HIDE DEF T
  <2>1. T \in SUBSET Nat
    BY DEF T
  <2>2. T = Nat
    BY <1>3, <1>4, <2>1, NatSet
  <2> QED BY <1>1, <2>2
<1>6. Small(Cardinality(D)) = SUBSET D
  <2>1. \A s \in SUBSET D : Cardinality(s) =< Cardinality(D)
    BY FS_Subset
  <2> QED BY <2>1
<1> QED BY <1>5, <1>6 DEF Folding

\* F leads from b along path by way of the values of t, which are in R.
Leads(F, b, path, R, t) ==
  /\ t \in [0 .. Len(path) -> R]
  /\ t[0] = b
  /\ \A k \in 1 .. Len(path) : t[k] = F[t[k - 1], path[k]]

\* ... to v.
Reaches(F, b, path, R, v) == \E t : Leads(F, b, path, R, t) /\ t[Len(path)] = v

\* The recursive function that a FoldLeft with the step F is defined by.
Recursion(g, F, b, path, R) ==
  /\ g \in [SUBSET DOMAIN path -> R]
  /\ \A s \in SUBSET DOMAIN path :
       g[s] = IF s = {} THEN b ELSE F[g[s \ {Max(s)}], path[Max(s)]]

\* As much of it as is known of one whose step is F on R only.
Iterates(it, F, b, path, R) ==
  /\ it[{}] = b
  /\ \A s \in SUBSET (1 .. Len(path)) :
       s # {} /\ it[s \ {Max(s)}] \in R => it[s] = F[it[s \ {Max(s)}], path[Max(s)]]

\* There is such a function when the step F stays in R.
LEMMA FoldExists ==
  ASSUME NEW R, NEW P, NEW F \in [R \X P -> R], NEW b \in R, NEW path \in Seq(P)
  PROVE  \E g : Recursion(g, F, b, path, R)
<1> DEFINE n == Len(path)
           D == 1 .. n
           G == [x \in R \X D |-> F[x[1], path[x[2]]]]
           c == [s \in SUBSET D |-> Max(s)]
<1>1. n \in Nat /\ DOMAIN path = D /\ IsFiniteSet(D) /\ \A i \in D : path[i] \in P
  BY FS_Interval
<1>2. G \in [R \X D -> R]
  BY <1>1
<1>3. \A s \in SUBSET D : s # {} => c[s] \in s
  <2>1. \A s \in SUBSET D : s \in SUBSET (0 .. n)
    BY <1>1
  <2> QED BY <1>1, <2>1, MaxIn
<1>4. \A s \in SUBSET D : c[s] = Max(s)
  OBVIOUS
<1>5. \A r \in R, i \in D : G[r, i] = F[r, path[i]]
  OBVIOUS
<1> HIDE DEF c, D, n, G
<1>6. PICK g : Folding(g, D, R, b, G, c)
  BY <1>1, <1>2, <1>3, IterExists
<1>7. \A s \in SUBSET D : g[s] = IF s = {} THEN b ELSE F[g[s \ {Max(s)}], path[Max(s)]]
  <2> SUFFICES ASSUME NEW s \in SUBSET D, s # {}
               PROVE  g[s] = F[g[s \ {Max(s)}], path[Max(s)]]
    BY <1>6 DEF Folding
  <2>1. Max(s) \in D /\ c[s] = Max(s) /\ g[s \ {Max(s)}] \in R
    BY <1>3, <1>4, <1>6 DEF Folding
  <2>2. g[s] = G[g[s \ {Max(s)}], Max(s)]
    BY <1>6, <2>1 DEF Folding
  <2> QED BY <1>5, <2>1, <2>2
<1> QED BY <1>1, <1>6, <1>7 DEF Folding, Recursion

\* It leads from b along the path.
LEMMA FoldLeads ==
  ASSUME NEW R, NEW P, NEW F \in [R \X P -> R], NEW b \in R, NEW path \in Seq(P),
         NEW it, Iterates(it, F, b, path, R)
  PROVE  Reaches(F, b, path, R, it[1 .. Len(path)])
<1> DEFINE n == Len(path)
           t == [k \in 0 .. n |-> it[1 .. k]]
           T == {k \in Nat : k =< n => it[1 .. k] \in R}
<1>1. n \in Nat /\ \A i \in 1 .. n : path[i] \in P
  OBVIOUS
<1> HIDE DEF n
<1>2. it[1 .. 0] = b
  <2>1. 1 .. 0 = {}
    OBVIOUS
  <2> QED BY <2>1 DEF Iterates
<1>3. ASSUME NEW k \in 1 .. n, it[1 .. (k - 1)] \in R
      PROVE  it[1 .. k] = F[it[1 .. (k - 1)], path[k]] /\ it[1 .. k] \in R
  <2>1. k \in Nat /\ k > 0 /\ 1 .. k \in SUBSET (1 .. n) /\ k \in 1 .. k
    BY <1>1
  <2>2. Max(1 .. k) = k /\ (1 .. k) \ {k} = 1 .. (k - 1)
    BY <2>1, MaxUpto
  <2>3. it[1 .. k] = F[it[1 .. (k - 1)], path[k]]
    BY <1>3, <2>1, <2>2 DEF Iterates, n
  <2>4. F[it[1 .. (k - 1)], path[k]] \in R
    BY <1>1, <1>3
  <2> QED BY <2>3, <2>4
<1>4. T = Nat
  <2>1. 0 \in T
    BY <1>2
  <2>2. ASSUME NEW k \in T PROVE k + 1 \in T
    <3> SUFFICES ASSUME k + 1 =< n PROVE it[1 .. (k + 1)] \in R
      BY <2>2
    <3>1. k + 1 \in 1 .. n /\ (k + 1) - 1 = k /\ it[1 .. k] \in R
      BY <1>1, <2>2
    <3> QED BY <1>3, <3>1
  <2> HIDE DEF T
  <2>3. T \in SUBSET Nat
    BY DEF T
  <2> QED BY <2>1, <2>2, <2>3, NatSet
<1>5. \A k \in 0 .. n : t[k] \in R
  BY <1>1, <1>4
<1>6. \A k \in 1 .. n : t[k] = F[t[k - 1], path[k]]
  <2> SUFFICES ASSUME NEW k \in 1 .. n PROVE t[k] = F[t[k - 1], path[k]]
    OBVIOUS
  <2>1. k \in 0 .. n /\ k - 1 \in 0 .. n /\ t[k] = it[1 .. k] /\ t[k - 1] = it[1 .. (k - 1)]
    BY <1>1
  <2> QED BY <1>3, <1>5, <2>1
<1>7. t[0] = b /\ t[n] = it[1 .. n] /\ t \in [0 .. n -> R]
  BY <1>1, <1>2, <1>5
<1> HIDE DEF t
<1> QED BY <1>6, <1>7 DEF Leads, Reaches, n

\* One part more is one step more ...
LEMMA ReachOn ==
  ASSUME NEW F, NEW b, NEW R, NEW P, NEW path \in Seq(P), NEW p \in P,
         NEW v, Reaches(F, b, path, R, v),
         NEW w, Reaches(F, b, Append(path, p), R, w)
  PROVE  w = F[v, p]
<1> DEFINE n == Len(path)
           long == Append(path, p)
<1>1. n \in Nat /\ Len(long) = n + 1 /\ long[n + 1] = p /\ \A k \in 1 .. n : long[k] = path[k]
  OBVIOUS
<1> HIDE DEF n, long
<1>2. PICK t : Leads(F, b, path, R, t) /\ t[n] = v
  BY DEF Reaches, n
<1>3. PICK u : Leads(F, b, long, R, u) /\ u[n + 1] = w
  BY <1>1 DEF Reaches, long
<1> DEFINE T == {k \in Nat : k =< n => t[k] = u[k]}
<1>4. T = Nat
  <2>1. 0 \in T
    BY <1>2, <1>3 DEF Leads
  <2>2. ASSUME NEW k \in T PROVE k + 1 \in T
    <3> SUFFICES ASSUME k + 1 =< n PROVE t[k + 1] = u[k + 1]
      BY <2>2
    <3>1. k + 1 \in 1 .. n /\ (k + 1) - 1 = k /\ k =< n /\ k + 1 \in 1 .. n + 1
      BY <1>1, <2>2
    <3> QED BY <1>1, <1>2, <1>3, <2>2, <3>1 DEF Leads, n, long
  <2> HIDE DEF T
  <2>3. T \in SUBSET Nat
    BY DEF T
  <2> QED BY <2>1, <2>2, <2>3, NatSet
<1>5. t[n] = u[n] /\ (n + 1) - 1 = n /\ n + 1 \in 1 .. n + 1
  BY <1>1, <1>4
<1> QED BY <1>1, <1>5, <1>2, <1>3 DEF Leads, n, long

\* ... and no part no step.
LEMMA ReachEmpty ==
  ASSUME NEW F, NEW b, NEW R, NEW v, Reaches(F, b, <<>>, R, v)
  PROVE  v = b
BY DEF Reaches, Leads

\* What is reached is in R.
LEMMA ReachType ==
  ASSUME NEW F, NEW b, NEW R, NEW P, NEW path \in Seq(P), NEW v, Reaches(F, b, path, R, v)
  PROVE  v \in R
<1>1. Len(path) \in 0 .. Len(path)
  OBVIOUS
<1> QED BY <1>1 DEF Reaches, Leads

\* The last part of each subset of the positions is a part.
LEMMA PartsOf ==
  ASSUME NEW P, NEW path \in Seq(P)
  PROVE  /\ Len(path) \in Nat /\ DOMAIN path = 1 .. Len(path)
         /\ \A s \in SUBSET DOMAIN path : s # {} => path[Max(s)] \in P
<1>1. /\ Len(path) \in Nat /\ DOMAIN path = 1 .. Len(path)
      /\ \A i \in 1 .. Len(path) : path[i] \in P
  OBVIOUS
<1>2. \A s \in SUBSET DOMAIN path : s # {} => Max(s) \in s
  <2>1. \A s \in SUBSET DOMAIN path : s \in SUBSET (0 .. Len(path))
    BY <1>1
  <2> QED BY <1>1, <2>1, MaxIn
<1> QED BY <1>1, <1>2

-----------------------------------------------------------------------------
(* Walking along a path.                                                   *)

\* The places in a tree of directories: the names on the way there.
Places == Seq(Names)

\* The parts that normalising may keep.
Kept == Names \cup {".."}

\* Parts that lead nowhere. (The names keep strings out of steps about sequences.)
Blank == ""
Dot == "."
Idle == {Blank, Dot}

\* What they are.
LEMMA IdleParts ==
  /\ Blank \in Parts /\ Dot \in Parts /\ Idle \subseteq Parts
  /\ Blank \in Idle /\ Dot \in Idle /\ Dot # Blank
  /\ Blank \notin Kept
  /\ EmptyPath = <<Blank>> /\ Here = <<Dot>>
BY PathAssumption DEF Blank, Dot, Idle, Parts, Kept, EmptyPath, Here

\* Names and kept parts are parts.
LEMMA KeptParts ==
  /\ Kept \subseteq Parts /\ Seq(Kept) \subseteq Seq(Parts)
  /\ Names \subseteq Parts /\ Seq(Names) \subseteq Seq(Parts)
BY SeqMonotonic DEF Kept, Parts

\* What makes a path absolute.
LEMMA AbsoluteIs ==
  ASSUME NEW path
  PROVE  IsAbsolute(path) = (Len(path) > 1 /\ path[1] = Blank)
BY DEF IsAbsolute, Blank

\* One step of Walk, ...
Stepped(at, p) == CASE p \in {"", "."} -> at
                    [] p = ".." -> IF at = <<>> THEN at ELSE Front(at)
                    [] OTHER -> Append(at, p)

\* ... all of them, and ...
From(at, path) == FoldLeft(Stepped, at, path)

\* ... the step as a function on places.
WalkStep == [x \in Places \X Parts |-> Stepped(x[1], x[2])]

\* Walking along an absolute path starts at the root.
LEMMA WalkFrom ==
  ASSUME NEW place, NEW path
  PROVE  Walk(place, path) = From(IF IsAbsolute(path) THEN <<>> ELSE place, path)
BY DEF Walk, From, Stepped, FoldLeft, MapThenFoldSet

\* A step from a place leads to a place ...
LEMMA SteppedType ==
  ASSUME NEW at \in Places, NEW p \in Parts
  PROVE  Stepped(at, p) \in Places
<1>1. CASE p \in {"", "."}
  BY <1>1 DEF Stepped
<1>2. CASE p = ".."
  <2>1. at # <<>> => Front(at) \in Seq(Names)
    BY SubSeqProperties DEF Places, Front
  <2> QED BY <1>2, <2>1 DEF Stepped, Places
<1>3. CASE p \in Names
  <2>1. p \notin {"", ".", ".."}
    BY <1>3, PathAssumption
  <2>2. Append(at, p) \in Seq(Names)
    BY <1>3, AppendProperties DEF Places
  <2> QED BY <2>1, <2>2 DEF Stepped, Places
<1> QED BY <1>1, <1>2, <1>3 DEF Parts

\* ... and so does the function.
LEMMA WalkStepType ==
  /\ WalkStep \in [Places \X Parts -> Places]
  /\ \A at \in Places, p \in Parts : WalkStep[at, p] = Stepped(at, p)
BY SteppedType DEF WalkStep

\* The fold of Walk is the function iterated.
LEMMA FromReaches ==
  ASSUME NEW at \in Places, NEW path \in Seq(Parts)
  PROVE  Reaches(WalkStep, at, path, Places, From(at, path))
<1> DEFINE Iter(iter) == iter = [s \in SUBSET DOMAIN path |->
                                   IF s = {} THEN at
                                   ELSE Stepped(iter[s \ {Max(s)}], path[Max(s)])]
           it == CHOOSE iter : Iter(iter)
<1>1. /\ DOMAIN path = 1 .. Len(path)
      /\ \A s \in SUBSET DOMAIN path : s # {} => path[Max(s)] \in Parts
  BY PartsOf
<1>2. PICK g : Recursion(g, WalkStep, at, path, Places)
  BY WalkStepType, FoldExists
<1>3. Iter(g)
  BY <1>1, <1>2, WalkStepType DEF Recursion
<1>4. Iter(it)
  <2> HIDE DEF Iter
  <2> QED BY <1>3
<1>5. From(at, path) = it[DOMAIN path]
  BY DEF From, FoldLeft, MapThenFoldSet
<1> HIDE DEF it
<1>6. Iterates(it, WalkStep, at, path, Places)
  BY <1>1, <1>4, WalkStepType DEF Iterates
<1> HIDE DEF Iter
<1>7. Reaches(WalkStep, at, path, Places, it[1 .. Len(path)])
  BY <1>6, WalkStepType, FoldLeads
<1> QED BY <1>1, <1>5, <1>7

\* It starts with nowhere to go, stays among the places, and goes on one part at a time.
LEMMA FromProperties ==
  ASSUME NEW at \in Places
  PROVE  /\ From(at, <<>>) = at
         /\ \A path \in Seq(Parts) : From(at, path) \in Places
         /\ \A path \in Seq(Parts), p \in Parts :
              From(at, Append(path, p)) = Stepped(From(at, path), p)
<1>1. From(at, <<>>) = at
  <2>1. <<>> \in Seq(Parts)
    OBVIOUS
  <2> QED BY <2>1, FromReaches, ReachEmpty
<1>2. ASSUME NEW path \in Seq(Parts) PROVE From(at, path) \in Places
  BY FromReaches, ReachType
<1>3. ASSUME NEW path \in Seq(Parts), NEW p \in Parts
      PROVE  From(at, Append(path, p)) = Stepped(From(at, path), p)
  <2>1. Append(path, p) \in Seq(Parts)
    OBVIOUS
  <2>2. /\ Reaches(WalkStep, at, path, Places, From(at, path))
        /\ Reaches(WalkStep, at, Append(path, p), Places, From(at, Append(path, p)))
    BY <2>1, FromReaches
  <2>3. From(at, Append(path, p)) = WalkStep[From(at, path), p]
    BY <2>2, ReachOn
  <2> QED BY <1>2, <2>3, WalkStepType
<1> QED BY <1>1, <1>2, <1>3

\* Walking along two paths in turn.
LEMMA FromConcat ==
  ASSUME NEW at \in Places, NEW a \in Seq(Parts), NEW b \in Seq(Parts)
  PROVE  From(at, a \o b) = From(From(at, a), b)
<1> DEFINE T == {q \in Seq(Parts) : From(at, a \o q) = From(From(at, a), q)}
<1>1. From(at, a) \in Places
  BY FromProperties
<1>2. <<>> \in T
  BY <1>1, FromProperties, ConcatEmptySeq, EmptySeq
<1>3. ASSUME NEW q \in T, NEW p \in Parts PROVE Append(q, p) \in T
  <2>1. q \in Seq(Parts) /\ From(at, a \o q) = From(From(at, a), q)
    BY <1>3
  <2>2. a \o q \in Seq(Parts) /\ a \o Append(q, p) = Append(a \o q, p)
    BY <2>1
  <2>3. From(at, Append(a \o q, p)) = Stepped(From(at, a \o q), p)
    BY <2>2, FromProperties
  <2>4. From(From(at, a), Append(q, p)) = Stepped(From(From(at, a), q), p)
    BY <1>1, <2>1, FromProperties
  <2>5. Append(q, p) \in Seq(Parts)
    BY <2>1
  <2>6. From(at, a \o Append(q, p)) = From(From(at, a), Append(q, p))
    BY <2>1, <2>2, <2>3, <2>4
  <2> QED BY <2>5, <2>6
<1> HIDE DEF T
<1>4. T \in SUBSET Seq(Parts)
  BY DEF T
<1>5. T = Seq(Parts)
  BY <1>2, <1>3, <1>4, SeqSet
<1> QED BY <1>5 DEF T

\* Names lead down, one level each.
LEMMA FromNames ==
  ASSUME NEW at \in Places, NEW down \in Places
  PROVE  From(at, down) = at \o down
<1> DEFINE T == {q \in Seq(Names) : From(at, q) = at \o q}
<1>1. Seq(Names) \subseteq Seq(Parts) /\ Names \subseteq Parts
  BY SeqMonotonic DEF Parts
<1>2. <<>> \in T
  BY FromProperties, ConcatEmptySeq, EmptySeq DEF Places
<1>3. ASSUME NEW q \in T, NEW p \in Names PROVE Append(q, p) \in T
  <2>1. q \in Seq(Names) /\ From(at, q) = at \o q
    BY <1>3
  <2>2. q \in Seq(Parts) /\ p \in Parts /\ Append(q, p) \in Seq(Names)
    BY <1>1, <2>1
  <2>3. From(at, Append(q, p)) = Stepped(From(at, q), p)
    BY <2>2, FromProperties
  <2>4. From(at, Append(q, p)) = Stepped(at \o q, p)
    BY <2>1, <2>3
  <2>5. Stepped(at \o q, p) = Append(at \o q, p)
    BY PathAssumption DEF Stepped
  <2>6. Append(at \o q, p) = at \o Append(q, p)
    BY <2>1 DEF Places
  <2>7. From(at, Append(q, p)) = at \o Append(q, p)
    BY <2>4, <2>5, <2>6
  <2> QED BY <2>2, <2>7
<1> HIDE DEF T
<1>4. T \in SUBSET Seq(Names)
  BY DEF T
<1>5. T = Seq(Names)
  BY <1>2, <1>3, <1>4, SeqSet
<1> QED BY <1>5 DEF T, Places

\* ... and from the root to the place they name.
LEMMA FromNamesRoot ==
  ASSUME NEW down \in Places
  PROVE  From(<<>>, down) = down
<1>1. <<>> \in Places
  BY EmptySeq DEF Places
<1>2. From(<<>>, down) = <<>> \o down
  BY <1>1, FromNames
<1> QED BY <1>2, ConcatEmptySeq DEF Places

\* A single part is a single step.
LEMMA FromOne ==
  ASSUME NEW at \in Places, NEW p \in Parts
  PROVE  From(at, <<p>>) = Stepped(at, p)
<1>1. <<p>> = Append(<<>>, p) /\ <<>> \in Seq(Parts)
  OBVIOUS
<1>2. From(at, Append(<<>>, p)) = Stepped(From(at, <<>>), p)
  BY <1>1, FromProperties
<1>3. From(at, <<>>) = at
  BY FromProperties
<1> QED BY <1>1, <1>2, <1>3

\* An idle part at either end changes nothing.
LEMMA FromBlank ==
  ASSUME NEW at \in Places, NEW p \in Idle, NEW path \in Seq(Parts)
  PROVE  /\ From(at, <<p>>) = at
         /\ From(at, <<p>> \o path) = From(at, path)
         /\ From(at, path \o <<p>>) = From(at, path)
<1>1. p \in Parts
  BY IdleParts
<1>2. p \in Parts /\ <<p>> \in Seq(Parts)
  BY <1>1, SingleSeq
<1>3. \A place \in Places : From(place, <<p>>) = place
  BY <1>2, FromOne DEF Stepped, Idle, Blank, Dot
<1>4. From(at, path) \in Places
  BY FromProperties
<1> QED BY <1>2, <1>3, <1>4, FromConcat

\* Idle parts at the end lead nowhere.
LEMMA IdleEnd ==
  ASSUME NEW at \in Places, NEW path \in Seq(Parts), NEW n \in 0 .. Len(path),
         \A i \in n + 1 .. Len(path) : path[i] \in Idle
  PROVE  From(at, path) = From(at, SubSeq(path, 1, n))
<1> DEFINE T == {q \in Seq(Parts) : \A m \in 0 .. Len(q) :
                   (\A i \in m + 1 .. Len(q) : q[i] \in Idle) =>
                      From(at, q) = From(at, SubSeq(q, 1, m))}
<1>1. <<>> \in T
  <2>1. <<>> \in Seq(Parts) /\ 0 .. Len(<<>>) = {0} /\ SubSeq(<<>>, 1, 0) = <<>>
    OBVIOUS
  <2> QED BY <2>1
<1>2. ASSUME NEW q \in T, NEW p \in Parts PROVE Append(q, p) \in T
  <2> DEFINE r == Append(q, p)
  <2>1. q \in Seq(Parts)
    BY <1>2
  <2>2. /\ r \in Seq(Parts) /\ Len(r) = Len(q) + 1 /\ Len(q) \in Nat
        /\ \A i \in 1 .. Len(q) : r[i] = q[i]
        /\ r[Len(q) + 1] = p
    BY <2>1, AppendProperties, Bounds
  <2>3. From(at, r) = Stepped(From(at, q), p)
    BY <2>1, FromProperties
  <2>4. \A m \in 0 .. Len(q) : SubSeq(r, 1, m) = SubSeq(q, 1, m)
    BY <2>1
  <2> HIDE DEF r
  <2>5. ASSUME NEW m \in 0 .. Len(r), \A i \in m + 1 .. Len(r) : r[i] \in Idle
        PROVE  From(at, r) = From(at, SubSeq(r, 1, m))
    <3>1. CASE m = Len(r)
      BY <2>2, <3>1, SubSeqFull
    <3>2. CASE m < Len(r)
      <4>1. m \in 0 .. Len(q) /\ m \in Nat
        BY <2>2, <3>2
      <4>2. p \in Idle
        <5>1. Len(q) + 1 \in m + 1 .. Len(r)
          BY <2>2, <4>1
        <5> QED BY <2>2, <2>5, <5>1
      <4>3. \A i \in m + 1 .. Len(q) : q[i] \in Idle
        <5>1. \A i \in m + 1 .. Len(q) : i \in m + 1 .. Len(r) /\ i \in 1 .. Len(q)
          BY <2>2, <4>1
        <5> QED BY <2>2, <2>5, <5>1
      <4>4. From(at, q) = From(at, SubSeq(q, 1, m))
        BY <1>2, <4>1, <4>3
      <4>5. Stepped(From(at, q), p) = From(at, q)
        BY <4>2 DEF Stepped, Idle, Blank, Dot
      <4> QED BY <2>3, <2>4, <4>1, <4>4, <4>5
    <3> QED BY <2>2, <3>1, <3>2
  <2> QED BY <2>2, <2>5 DEF r
<1> HIDE DEF T
<1>3. T \in SUBSET Seq(Parts)
  BY DEF T
<1>4. T = Seq(Parts)
  BY <1>1, <1>2, <1>3, SeqSet
<1> QED BY <1>4 DEF T

-----------------------------------------------------------------------------
(* Normalising.                                                            *)

\* One step of NormalizeArray, and ...
Taken(up, res, p) ==
  IF p \in {"", "."} THEN res
  ELSE IF p # ".." THEN Append(res, p)
  ELSE IF res # <<>> /\ Last(res) # ".." THEN Front(res)
  ELSE IF up THEN Append(res, p)
  ELSE res

\* ... the same as a function.
TakeStep(up) == [x \in Seq(Kept) \X Parts |-> Taken(up, x[1], x[2])]

\* A step keeps what may be kept ...
LEMMA TakenType ==
  ASSUME NEW up, NEW res \in Seq(Kept), NEW p \in Parts
  PROVE  Taken(up, res, p) \in Seq(Kept)
<1>1. res # <<>> => Front(res) \in Seq(Kept)
  BY SubSeqProperties DEF Front
<1>2. p \notin {"", "."} => p \in Kept
  BY DEF Kept, Parts
<1>3. p \notin {"", "."} => Append(res, p) \in Seq(Kept)
  BY <1>2, AppendProperties
<1> QED BY <1>1, <1>3 DEF Taken

\* ... and so does the function.
LEMMA TakeStepType ==
  ASSUME NEW up
  PROVE  /\ TakeStep(up) \in [Seq(Kept) \X Parts -> Seq(Kept)]
         /\ \A res \in Seq(Kept), p \in Parts : TakeStep(up)[res, p] = Taken(up, res, p)
BY TakenType DEF TakeStep

\* The fold of NormalizeArray is the function iterated.
LEMMA ArrayReaches ==
  ASSUME NEW up, NEW path \in Seq(Parts)
  PROVE  Reaches(TakeStep(up), <<>>, path, Seq(Kept), NormalizeArray(path, up))
<1> DEFINE Iter(iter) == iter = [s \in SUBSET DOMAIN path |->
                                   IF s = {} THEN <<>>
                                   ELSE Taken(up, iter[s \ {Max(s)}], path[Max(s)])]
           it == CHOOSE iter : Iter(iter)
<1>1. /\ DOMAIN path = 1 .. Len(path)
      /\ \A s \in SUBSET DOMAIN path : s # {} => path[Max(s)] \in Parts
  BY PartsOf
<1>2. <<>> \in Seq(Kept)
  OBVIOUS
<1>3. PICK g : Recursion(g, TakeStep(up), <<>>, path, Seq(Kept))
  BY <1>2, TakeStepType, FoldExists
<1>4. Iter(g)
  BY <1>1, <1>3, TakeStepType DEF Recursion
<1>5. Iter(it)
  <2> HIDE DEF Iter
  <2> QED BY <1>4
<1>6. NormalizeArray(path, up) = it[DOMAIN path]
  BY DEF NormalizeArray, Taken, FoldLeft, MapThenFoldSet
<1> HIDE DEF it
<1>7. it[{}] = <<>> /\ \A s \in SUBSET (1 .. Len(path)) :
        s # {} => it[s] = Taken(up, it[s \ {Max(s)}], path[Max(s)])
  BY <1>1, <1>5
<1>8. Iterates(it, TakeStep(up), <<>>, path, Seq(Kept))
  BY <1>1, <1>7, TakeStepType DEF Iterates
<1> HIDE DEF Iter
<1>9. Reaches(TakeStep(up), <<>>, path, Seq(Kept), it[1 .. Len(path)])
  BY <1>2, <1>8, TakeStepType, FoldLeads
<1> QED BY <1>1, <1>6, <1>9

\* It starts with nothing, keeps what may be kept, and goes on one part at a time.
LEMMA ArrayProperties ==
  ASSUME NEW up
  PROVE  /\ NormalizeArray(<<>>, up) = <<>>
         /\ \A path \in Seq(Parts) : NormalizeArray(path, up) \in Seq(Kept)
         /\ \A path \in Seq(Parts), p \in Parts :
              NormalizeArray(Append(path, p), up) = Taken(up, NormalizeArray(path, up), p)
<1>1. NormalizeArray(<<>>, up) = <<>>
  <2>1. <<>> \in Seq(Parts)
    OBVIOUS
  <2> QED BY <2>1, ArrayReaches, ReachEmpty
<1>2. ASSUME NEW path \in Seq(Parts) PROVE NormalizeArray(path, up) \in Seq(Kept)
  BY ArrayReaches, ReachType
<1>3. ASSUME NEW path \in Seq(Parts), NEW p \in Parts
      PROVE  NormalizeArray(Append(path, p), up) = Taken(up, NormalizeArray(path, up), p)
  <2>1. Append(path, p) \in Seq(Parts)
    OBVIOUS
  <2>2. /\ Reaches(TakeStep(up), <<>>, path, Seq(Kept), NormalizeArray(path, up))
        /\ Reaches(TakeStep(up), <<>>, Append(path, p), Seq(Kept),
                   NormalizeArray(Append(path, p), up))
    BY <2>1, ArrayReaches
  <2>3. NormalizeArray(Append(path, p), up) = TakeStep(up)[NormalizeArray(path, up), p]
    <3> DEFINE F == TakeStep(up)
               R == Seq(Kept)
               v == NormalizeArray(path, up)
               w == NormalizeArray(Append(path, p), up)
    <3>1. Reaches(F, <<>>, path, R, v) /\ Reaches(F, <<>>, Append(path, p), R, w)
      BY <2>2
    <3> HIDE DEF F, R, v, w
    <3>2. w = F[v, p]
      BY <3>1, ReachOn
    <3> QED BY <3>2 DEF F, v, w
  <2> QED BY <1>2, <2>3, TakeStepType
<1> QED BY <1>1, <1>2, <1>3

\* Without places above the root, normalising is walking from it.
LEMMA ArrayWalks ==
  ASSUME NEW path \in Seq(Parts), NEW up, ~up
  PROVE  NormalizeArray(path, up) = From(<<>>, path) /\ From(<<>>, path) \in Places
<1> DEFINE T == {q \in Seq(Parts) : NormalizeArray(q, up) = From(<<>>, q)}
<1>1. <<>> \in Places /\ <<>> \in Seq(Parts)
  BY DEF Places
<1>2. <<>> \in T
  BY <1>1, ArrayProperties, FromProperties
<1>3. ASSUME NEW q \in T, NEW p \in Parts PROVE Append(q, p) \in T
  <2> DEFINE at == From(<<>>, q)
  <2>1. q \in Seq(Parts) /\ NormalizeArray(q, up) = at
    BY <1>3
  <2>2. Append(q, p) \in Seq(Parts)
    BY <2>1
  <2>3. at \in Places
    BY <1>1, <2>1, FromProperties
  <2>4. NormalizeArray(Append(q, p), up) = Taken(up, at, p)
    BY <2>1, ArrayProperties
  <2>5. From(<<>>, Append(q, p)) = Stepped(at, p)
    BY <1>1, <2>1, FromProperties
  <2>6. at # <<>> => Last(at) # ".."
    <3> HIDE DEF at
    <3>1. at # <<>> => Last(at) \in Names
      BY <2>3 DEF Places, Last
    <3> QED BY <3>1, PathAssumption
  <2>7. Taken(up, at, p) = Stepped(at, p)
    BY <2>6 DEF Taken, Stepped
  <2> QED BY <2>2, <2>4, <2>5, <2>7
<1> HIDE DEF T
<1>4. T \in SUBSET Seq(Parts)
  BY DEF T
<1>5. T = Seq(Parts)
  BY <1>2, <1>3, <1>4, SeqSet
<1> QED BY <1>1, <1>5, FromProperties DEF T

\* What a '..' takes away again is a name.
LEMMA LastKept ==
  ASSUME NEW res \in Seq(Kept), res # <<>>, Last(res) # ".."
  PROVE  \E init \in Seq(Kept), x \in Names :
           res = Append(init, x) /\ Front(res) = init
<1>1. PICK init \in Seq(Kept), x \in Kept : res = Append(init, x)
  BY SequenceEmptyOrAppend
<1>2. Last(res) = x
  BY <1>1 DEF Last
<1>3. Front(res) = init
  BY <1>1 DEF Front
<1> QED BY <1>1, <1>2, <1>3 DEF Kept

\* What is kept leads where all the parts lead, from every place.
LEMMA ArrayLeads ==
  ASSUME NEW at \in Places, NEW path \in Seq(Parts), NEW up, up
  PROVE  From(at, NormalizeArray(path, up)) = From(at, path)
<1> DEFINE N(q) == NormalizeArray(q, up)
           T == {q \in Seq(Parts) : From(at, N(q)) = From(at, q)}
<1>1. <<>> \in T
  BY ArrayProperties, EmptySeq
<1>2. ASSUME NEW q \in T, NEW p \in Parts PROVE Append(q, p) \in T
  <2>1. q \in Seq(Parts) /\ From(at, N(q)) = From(at, q)
    BY <1>2
  <2>2. q \in Seq(Parts) /\ From(at, N(q)) = From(at, q) /\ Append(q, p) \in Seq(Parts)
    BY <2>1, AppendProperties
  <2>3. N(q) \in Seq(Kept) /\ N(Append(q, p)) = Taken(up, N(q), p)
    BY <2>2, ArrayProperties
  <2>4. From(at, Append(q, p)) = Stepped(From(at, q), p)
    BY <2>2, FromProperties
  <2> DEFINE res == N(q)
  <2> HIDE DEF N
  <2>5. From(at, Taken(up, res, p)) = Stepped(From(at, res), p)
    <3>1. res \in Seq(Kept) /\ res \in Seq(Parts)
      BY <2>3, KeptParts
    <3>2. From(at, Append(res, p)) = Stepped(From(at, res), p)
      BY <3>1, FromProperties
    <3>3. CASE p \in {"", "."}
      BY <3>3 DEF Taken, Stepped
    <3>4. CASE p = ".." /\ res # <<>> /\ Last(res) # ".."
      <4> HIDE DEF res
      <4>1. PICK init \in Seq(Kept), x \in Names : res = Append(init, x) /\ Front(res) = init
        BY <3>1, <3>4, LastKept
      <4>2. init \in Seq(Parts) /\ x \in Parts /\ x \notin {"", ".", ".."}
        BY KeptParts, PathAssumption
      <4>3. From(at, init) \in Places
        BY <4>2, FromProperties
      <4>4. From(at, Append(init, x)) = Stepped(From(at, init), x)
        BY <4>2, FromProperties
      <4>5. From(at, res) = Append(From(at, init), x)
        BY <4>1, <4>2, <4>4 DEF Stepped
      <4>6. From(at, res) # <<>> /\ Front(From(at, res)) = From(at, init)
        <5> HIDE DEF From
        <5> QED BY <4>3, <4>5 DEF Places, Front
      <4> QED BY <3>4, <4>1, <4>6 DEF Taken, Stepped
    <3>5. CASE p = ".." /\ ~(res # <<>> /\ Last(res) # "..")
      BY <3>2, <3>5 DEF Taken
    <3>6. CASE p \notin {"", ".", ".."}
      BY <3>2, <3>6 DEF Taken
    <3> QED BY <3>3, <3>4, <3>5, <3>6
  <2> QED BY <2>2, <2>3, <2>4, <2>5
<1> HIDE DEF T
<1>3. T \in SUBSET Seq(Parts)
  BY DEF T
<1>4. T = Seq(Parts)
  BY <1>1, <1>2, <1>3, SeqSet
<1> QED BY <1>4 DEF T

\* What is kept is kept the second time.
LEMMA ArrayOnce ==
  ASSUME NEW up, NEW path \in Seq(Parts)
  PROVE  NormalizeArray(NormalizeArray(path, up), up) = NormalizeArray(path, up)
<1> DEFINE N(q) == NormalizeArray(q, up)
           T == {q \in Seq(Parts) : N(N(q)) = N(q)}
<1>1. <<>> \in T
  BY ArrayProperties, EmptySeq
<1>2. ASSUME NEW q \in T, NEW p \in Parts PROVE Append(q, p) \in T
  <2>1. q \in Seq(Parts) /\ N(N(q)) = N(q)
    BY <1>2
  <2>2. q \in Seq(Parts) /\ N(N(q)) = N(q) /\ Append(q, p) \in Seq(Parts)
    BY <2>1, AppendProperties
  <2>3. N(q) \in Seq(Kept) /\ N(Append(q, p)) = Taken(up, N(q), p)
    BY <2>2, ArrayProperties
  <2> DEFINE res == N(q)
  <2>4. \A r \in Seq(Kept), x \in Parts : N(Append(r, x)) = Taken(up, N(r), x)
    BY ArrayProperties, KeptParts
  <2>5. \A r \in Seq(Kept) : N(r) \in Seq(Kept)
    BY ArrayProperties, KeptParts
  <2>6. res \in Seq(Kept) /\ N(res) = res
    BY <2>2, <2>3
  <2> HIDE DEF res, N
  <2>7. N(Taken(up, res, p)) = Taken(up, res, p)
    <3>1. N(Append(res, p)) = Taken(up, res, p)
      BY <2>4, <2>6
    <3>2. CASE p = ".." /\ res # <<>> /\ Last(res) # ".."
      <4>1. PICK init \in Seq(Kept), x \in Names : res = Append(init, x) /\ Front(res) = init
        BY <2>6, <3>2, LastKept
      <4>2. x \in Parts /\ x \notin {"", ".", ".."} /\ x \in Kept
        BY KeptParts, PathAssumption DEF Kept
      <4>3. res = Append(N(init), x)
        BY <2>4, <2>6, <4>1, <4>2 DEF Taken
      <4>4. N(init) \in Seq(Kept) /\ Append(N(init), x) = Append(init, x)
        BY <2>5, <4>1, <4>3
      <4>5. N(init) = init
        <5>1. x \in Kept
          BY <4>2
        <5> QED BY <4>1, <4>4, <5>1, AppendInjective
      <4> QED BY <3>2, <4>1, <4>5 DEF Taken
    <3>3. CASE Taken(up, res, p) = Append(res, p)
      BY <3>1, <3>3
    <3>4. CASE Taken(up, res, p) = res
      BY <2>6, <3>4
    <3> QED BY <3>2, <3>3, <3>4 DEF Taken
  <2>8. N(N(Append(q, p))) = N(Append(q, p))
    BY <2>3, <2>7 DEF res
  <2> QED BY <2>2, <2>8
<1> HIDE DEF T
<1>3. T \in SUBSET Seq(Parts)
  BY DEF T
<1>4. T = Seq(Parts)
  BY <1>1, <1>2, <1>3, SeqSet
<1> QED BY <1>4 DEF T

\* Blank parts, at either end, are not kept.
LEMMA ArrayBlank ==
  ASSUME NEW up, NEW p \in Idle, NEW path \in Seq(Parts)
  PROVE  /\ NormalizeArray(<<p>>, up) = <<>>
         /\ NormalizeArray(<<p>> \o path, up) = NormalizeArray(path, up)
         /\ NormalizeArray(path \o <<p>>, up) = NormalizeArray(path, up)
<1> DEFINE N(q) == NormalizeArray(q, up)
           T == {q \in Seq(Parts) : N(<<p>> \o q) = N(q)}
<1>1. p \in Parts /\ <<p>> \in Seq(Parts) /\ <<>> \in Seq(Parts) /\ <<p>> = Append(<<>>, p)
  <2>1. p \in Parts
    BY IdleParts
  <2>2. <<p>> = Append(<<>>, p)
    OBVIOUS
  <2>3. <<>> \in Seq(Parts)
    OBVIOUS
  <2> QED BY <2>1, <2>2, <2>3, SingleSeq
<1>2. \A q \in Seq(Parts), x \in Parts : N(Append(q, x)) = Taken(up, N(q), x)
  BY ArrayProperties
<1>3. \A q \in Seq(Parts) : N(Append(q, p)) = N(q)
  BY <1>1, <1>2 DEF Taken, Idle, Blank, Dot
<1>4. N(<<>>) = <<>> /\ N(<<p>>) = <<>>
  BY <1>1, <1>3, ArrayProperties
<1> HIDE DEF N
<1>5. <<>> \in T
  BY <1>1, <1>4, ConcatEmptySeq
<1>6. ASSUME NEW q \in T, NEW x \in Parts PROVE Append(q, x) \in T
  <2>1. q \in Seq(Parts) /\ N(<<p>> \o q) = N(q)
    BY <1>6
  <2>2. Append(q, x) \in Seq(Parts) /\ <<p>> \o q \in Seq(Parts)
    BY <1>1, <2>1, AppendProperties, ConcatProperties
  <2>3. <<p>> \o Append(q, x) = Append(<<p>> \o q, x)
    <3>1. <<x>> \in Seq(Parts)
      BY SingleSeq
    <3> QED BY <1>1, <2>1, <2>2, <3>1, AppendIsConcat, ConcatAssociative
  <2>4. N(Append(<<p>> \o q, x)) = N(Append(q, x))
    BY <1>2, <2>1, <2>2
  <2> QED BY <2>2, <2>3, <2>4
<1>7. T = Seq(Parts)
  <2> HIDE DEF T
  <2>1. T \in SUBSET Seq(Parts)
    BY DEF T
  <2> QED BY <1>5, <1>6, <2>1, SeqSet
<1>8. path \o <<p>> = Append(path, p)
  BY <1>1, AppendIsConcat
<1> QED BY <1>3, <1>4, <1>7, <1>8 DEF N

\* What normalize() builds from the parts that are kept.
Rebuilt(kept, absolute, slash) ==
  LET relative == IF kept = <<>> THEN (IF absolute THEN <<Blank>> ELSE <<Dot>>) ELSE kept
      trailing == IF slash /\ relative # <<Blank>> THEN relative \o <<Blank>> ELSE relative
  IN  IF absolute THEN <<Blank>> \o trailing ELSE trailing

\* That is all normalize() does.
LEMMA NormalizeRebuilds ==
  ASSUME NEW path
  PROVE  Normalize(path) = Rebuilt(NormalizeArray(path, ~IsAbsolute(path)), IsAbsolute(path),
                                   path # <<Blank>> /\ Last(path) = Blank)
BY DEF Normalize, Rebuilt, EmptyPath, Here, Blank, Dot

\* Nothing that is kept is blank.
LEMMA KeptType ==
  ASSUME NEW path \in Seq(Parts), NEW up \in BOOLEAN
  PROVE  /\ NormalizeArray(path, up) \in Seq(Kept)
         /\ NormalizeArray(path, up) \in Seq(Parts)
         /\ \A i \in 1 .. Len(NormalizeArray(path, up)) : NormalizeArray(path, up)[i] # Blank
<1>1. NormalizeArray(path, up) \in Seq(Kept)
  BY ArrayProperties
<1>2. \A kept \in Seq(Kept) : \A i \in 1 .. Len(kept) : kept[i] \in Kept
  OBVIOUS
<1>3. Blank \notin Kept
  BY IdleParts
<1> QED BY <1>1, <1>2, <1>3, KeptParts

\* q, in place of path, leads to the same places and is normalised to the same.
Same(q, path) ==
  /\ \A at \in Places : From(at, q) = From(at, path)
  /\ \A up \in BOOLEAN : NormalizeArray(q, up) = NormalizeArray(path, up)

\* Idle parts can be left out.
LEMMA SameIdle ==
  ASSUME NEW path \in Seq(Parts), NEW p \in Idle
  PROVE  Same(<<p>>, <<>>) /\ Same(<<p>> \o path, path) /\ Same(path \o <<p>>, path)
<1>1. <<>> \in Seq(Parts)
  OBVIOUS
<1> QED BY <1>1, FromBlank, ArrayBlank, FromProperties, ArrayProperties DEF Same

\* One after another.
LEMMA SameOn ==
  ASSUME NEW a, NEW b, NEW c, Same(a, b), Same(b, c)
  PROVE  Same(a, c)
BY DEF Same

\* The path that is built is absolute if the one normalised was, ends with a slash
\* if that did, and is the same as what was kept.
LEMMA RebuiltProperties ==
  ASSUME NEW kept \in Seq(Parts), \A i \in 1 .. Len(kept) : kept[i] # Blank,
         NEW absolute \in BOOLEAN, NEW slash \in BOOLEAN,
         NEW r, r = Rebuilt(kept, absolute, slash)
  PROVE  /\ r \in Seq(Parts) /\ r # <<>>
         /\ IsAbsolute(r) = absolute
         /\ (r # <<Blank>> /\ Last(r) = Blank) = (slash \/ (kept = <<>> /\ absolute))
         /\ Same(r, kept)
<1> DEFINE k == IF kept = <<>> THEN (IF absolute THEN <<Blank>> ELSE <<Dot>>) ELSE kept
           m == IF slash /\ k # <<Blank>> THEN k \o <<Blank>> ELSE k
<1>1. r = IF absolute THEN <<Blank>> \o m ELSE m
  BY DEF Rebuilt
<1>2. \A p \in Idle : /\ <<p>> \in Seq(Parts) /\ Len(<<p>>) = 1 /\ <<p>>[1] = p /\ Last(<<p>>) = p
                      /\ <<p>> # <<>>
  <2> SUFFICES ASSUME NEW p \in Idle
               PROVE  /\ <<p>> \in Seq(Parts) /\ Len(<<p>>) = 1 /\ <<p>>[1] = p
                      /\ Last(<<p>>) = p /\ <<p>> # <<>>
    OBVIOUS
  <2>1. p \in Parts
    BY IdleParts
  <2> QED BY <2>1, SingleSeq DEF Last
<1>3. Blank \in Idle /\ Dot \in Idle /\ Dot # Blank /\ Blank \in Parts
  BY IdleParts
<1>4. \A q \in Seq(Parts) : Same(q, q)
  BY DEF Same
<1>5. /\ k \in Seq(Parts) /\ k # <<>>
      /\ (k = <<Blank>>) = (kept = <<>> /\ absolute)
      /\ k # <<Blank>> => k[1] # Blank /\ Last(k) # Blank
      /\ Same(k, kept)
  <2>1. CASE kept = <<>> /\ absolute
    <3>1. k = <<Blank>>
      BY <2>1
    <3>2. Same(<<Blank>>, <<>>)
      BY <1>3, SameIdle
    <3> QED BY <1>2, <1>3, <2>1, <3>1, <3>2
  <2>2. CASE kept = <<>> /\ ~absolute
    <3>1. k = <<Dot>>
      BY <2>2
    <3>2. Same(<<Dot>>, <<>>)
      BY <1>3, SameIdle
    <3>3. <<Dot>> # <<Blank>>
      BY <1>2, <1>3
    <3> QED BY <1>2, <1>3, <2>2, <3>1, <3>2, <3>3
  <2>3. CASE kept # <<>>
    <3>1. k = kept
      BY <2>3
    <3>2. Len(kept) \in Nat /\ Len(kept) > 0
      BY <2>3, Bounds
    <3>3. 1 \in 1 .. Len(kept) /\ Len(kept) \in 1 .. Len(kept)
      BY <3>2
    <3>4. kept[1] # Blank /\ Last(kept) # Blank
      BY <3>3 DEF Last
    <3>5. kept # <<Blank>>
      BY <1>2, <1>3, <3>4
    <3> QED BY <1>4, <2>3, <3>1, <3>4, <3>5
  <2> QED BY <2>1, <2>2, <2>3
<1> HIDE DEF k
<1>6. /\ m \in Seq(Parts) /\ m # <<>> /\ m[1] = k[1]
      /\ (m = <<Blank>>) = (k = <<Blank>>)
      /\ (Last(m) = Blank) = (slash \/ k = <<Blank>>)
      /\ Same(m, k)
  <2>1. CASE slash /\ k # <<Blank>>
    <3>1. m = k \o <<Blank>>
      BY <2>1
    <3> HIDE DEF m
    <3>2. m \in Seq(Parts) /\ m # <<>> /\ m[1] = k[1] /\ Last(m) = Blank
      BY <1>3, <1>5, <3>1, Suffixed
    <3>3. Len(m) = Len(k) + 1 /\ Len(k) \in Nat /\ Len(k) > 0
      BY <1>3, <1>5, <3>1, Suffixed, Bounds
    <3>4. m # <<Blank>>
      BY <1>2, <1>3, <3>3
    <3>5. Same(m, k)
      BY <1>3, <1>5, <3>1, SameIdle
    <3> QED BY <2>1, <3>2, <3>4, <3>5
  <2>2. CASE ~(slash /\ k # <<Blank>>)
    <3>1. m = k
      BY <2>2
    <3> HIDE DEF m
    <3>2. k = <<Blank>> => Last(k) = Blank
      BY <1>2, <1>3
    <3> QED BY <1>4, <1>5, <2>2, <3>1, <3>2
  <2> QED BY <2>1, <2>2
<1> HIDE DEF m
<1>7. Same(m, kept)
  BY <1>5, <1>6, SameOn
<1>8. CASE absolute
  <2>1. r = <<Blank>> \o m
    BY <1>1, <1>8
  <2>2. r \in Seq(Parts) /\ r # <<>> /\ r[1] = Blank /\ Last(r) = Last(m)
    BY <1>3, <1>6, <2>1, Prefixed
  <2>3. Len(r) = Len(m) + 1 /\ Len(m) \in Nat /\ Len(m) > 0
    BY <1>3, <1>6, <2>1, Prefixed, Bounds
  <2>4. Len(r) > 1
    BY <2>3
  <2>5. IsAbsolute(r)
    BY <2>2, <2>4, AbsoluteIs
  <2>6. r # <<Blank>>
    <3>1. Len(<<Blank>>) = 1
      BY <1>2, <1>3
    <3>2. Len(r) # 1
      BY <2>3
    <3> QED BY <3>1, <3>2
  <2>7. Same(r, m)
    BY <1>3, <1>6, <2>1, SameIdle
  <2>8. Same(r, kept)
    BY <1>7, <2>7, SameOn
  <2> QED BY <1>5, <1>6, <1>8, <2>2, <2>5, <2>6, <2>8
<1>9. CASE ~absolute
  <2>1. r = m
    BY <1>1, <1>9
  <2>2. k # <<Blank>> /\ m # <<Blank>> /\ m[1] # Blank
    BY <1>5, <1>6, <1>9
  <2>3. ~IsAbsolute(m)
    BY <2>2, AbsoluteIs
  <2>4. (Last(m) = Blank) = slash
    BY <1>6, <2>2
  <2>5. (slash \/ (kept = <<>> /\ absolute)) = slash
    BY <1>9
  <2>6. (r # <<Blank>> /\ Last(r) = Blank) = (slash \/ (kept = <<>> /\ absolute))
    BY <2>1, <2>2, <2>4, <2>5
  <2>7. IsAbsolute(r) = absolute
    BY <1>9, <2>1, <2>3, AbsoluteIs
  <2> QED BY <1>6, <1>7, <2>1, <2>6, <2>7
<1> QED BY <1>8, <1>9

\* normalize() keeps what a path means and whether it is absolute, and
\* normalising twice is normalising once.
LEMMA Normalizing ==
  ASSUME NEW path \in Seq(Parts)
  PROVE  /\ \A at \in Places : Walk(at, Normalize(path)) = Walk(at, path)
         /\ IsAbsolute(Normalize(path)) = IsAbsolute(path)
         /\ Normalize(Normalize(path)) = Normalize(path)
         /\ Normalize(path) \in Seq(Parts) /\ Normalize(path) # <<>>
<1> DEFINE absolute == IsAbsolute(path)
           kept == NormalizeArray(path, ~absolute)
           slash == path # <<Blank>> /\ Last(path) = Blank
           r == Normalize(path)
<1>1. absolute \in BOOLEAN /\ slash \in BOOLEAN
  BY DEF IsAbsolute
<1>2. kept \in Seq(Kept) /\ kept \in Seq(Parts) /\ \A i \in 1 .. Len(kept) : kept[i] # Blank
  BY <1>1, KeptType
<1>3. r = Rebuilt(kept, absolute, slash)
  BY NormalizeRebuilds
<1>4. NormalizeArray(kept, ~absolute) = kept
  BY ArrayOnce
<1>5. \A at \in Places : ~absolute => From(at, kept) = From(at, path)
  BY ArrayLeads
<1>6. absolute => From(<<>>, kept) = From(<<>>, path)
  <2>1. ASSUME absolute PROVE kept = From(<<>>, path) /\ From(<<>>, kept) = kept
    <3>1. kept = From(<<>>, path) /\ From(<<>>, path) \in Places
      <4> DEFINE up == ~absolute
      <4>1. ~up
        BY <2>1
      <4> HIDE DEF up
      <4>2. NormalizeArray(path, up) = From(<<>>, path) /\ From(<<>>, path) \in Places
        BY <4>1, ArrayWalks
      <4> QED BY <4>2 DEF up
    <3> QED BY <3>1, FromNamesRoot
  <2> QED BY <2>1
<1>7. <<>> \in Places /\ (~absolute) \in BOOLEAN
  BY <1>1, EmptySeq DEF Places
<1>8. \A at, q : Walk(at, q) = From(IF IsAbsolute(q) THEN <<>> ELSE at, q)
  BY WalkFrom
<1>9. Normalize(r) = Rebuilt(NormalizeArray(r, ~IsAbsolute(r)), IsAbsolute(r),
                             r # <<Blank>> /\ Last(r) = Blank)
  BY NormalizeRebuilds
<1> HIDE DEF absolute, kept, slash, r
<1>10. /\ r \in Seq(Parts) /\ r # <<>>
       /\ IsAbsolute(r) = absolute
       /\ (r # <<Blank>> /\ Last(r) = Blank) = (slash \/ (kept = <<>> /\ absolute))
       /\ \A at \in Places : From(at, r) = From(at, kept)
       /\ NormalizeArray(r, ~absolute) = kept
  <2>1. /\ r \in Seq(Parts) /\ r # <<>>
        /\ IsAbsolute(r) = absolute
        /\ (r # <<Blank>> /\ Last(r) = Blank) = (slash \/ (kept = <<>> /\ absolute))
        /\ Same(r, kept)
    BY <1>1, <1>2, <1>3, RebuiltProperties
  <2> QED BY <1>4, <1>7, <2>1 DEF Same
<1>11. ASSUME NEW at \in Places PROVE Walk(at, r) = Walk(at, path)
  BY <1>5, <1>6, <1>7, <1>8, <1>10 DEF absolute
<1>12. Normalize(r) = r
  <2>1. Normalize(r) = Rebuilt(kept, absolute, slash \/ (kept = <<>> /\ absolute))
    BY <1>9, <1>10
  <2>2. CASE kept = <<>> /\ absolute
    BY <1>3, <2>1, <2>2 DEF Rebuilt
  <2>3. CASE ~(kept = <<>> /\ absolute)
    <3>1. (slash \/ (kept = <<>> /\ absolute)) = slash
      BY <1>1, <2>3
    <3> QED BY <1>3, <2>1, <3>1
  <2> QED BY <2>2, <2>3
<1> QED BY <1>10, <1>11, <1>12 DEF absolute, r

-----------------------------------------------------------------------------
(* Joining, and the split into dirname() and basename().                   *)

\* One step of join(), and ...
Glued(path, segment) == IF segment = <<Blank>> THEN path ELSE path \o segment

\* ... the same as a function.
GlueStep == [x \in Seq(Parts) \X Seq(Parts) |-> Glued(x[1], x[2])]

\* Glued paths are paths.
LEMMA GlueStepType ==
  /\ GlueStep \in [Seq(Parts) \X Seq(Parts) -> Seq(Parts)]
  /\ \A path, segment \in Seq(Parts) : GlueStep[path, segment] = Glued(path, segment)
BY ConcatProperties DEF GlueStep, Glued

\* join() glues its two segments and normalises.
LEMMA JoinGlues ==
  ASSUME NEW a \in Seq(Parts), NEW b \in Seq(Parts)
  PROVE  Join(<<a, b>>) = Normalize(Joined(Glued(Glued(<<>>, a), b)))
<1> DEFINE path == <<a, b>>
           Iter(iter) == iter = [s \in SUBSET DOMAIN path |->
                                   IF s = {} THEN <<>>
                                   ELSE Glued(iter[s \ {Max(s)}], path[Max(s)])]
           it == CHOOSE iter : Iter(iter)
<1>1. <<>> \in Seq(Parts) /\ path \in Seq(Seq(Parts)) /\ Len(path) = 2
      /\ path[1] = a /\ path[2] = b
  OBVIOUS
<1>2. Join(path) = Normalize(Joined(it[DOMAIN path]))
  BY DEF Join, Glued, FoldLeft, MapThenFoldSet, EmptyPath, Blank
<1> HIDE DEF path
<1>3. /\ DOMAIN path = 1 .. Len(path)
      /\ \A s \in SUBSET DOMAIN path : s # {} => path[Max(s)] \in Seq(Parts)
  BY <1>1, PartsOf
<1>4. PICK g : Recursion(g, GlueStep, <<>>, path, Seq(Parts))
  BY <1>1, GlueStepType, FoldExists
<1>5. Iter(g)
  BY <1>3, <1>4, GlueStepType DEF Recursion
<1>6. Iter(it)
  <2> HIDE DEF Iter
  <2> QED BY <1>5
<1> HIDE DEF it
<1>7. it[{}] = <<>> /\ \A s \in SUBSET (1 .. Len(path)) :
        s # {} => it[s] = Glued(it[s \ {Max(s)}], path[Max(s)])
  BY <1>3, <1>6
<1>8. it[1 .. 2] = Glued(it[1 .. 1], b) /\ it[1 .. 1] = Glued(it[1 .. 0], a) /\ it[1 .. 0] = <<>>
  <2>1. Max(1 .. 2) = 2 /\ (1 .. 2) \ {2} = 1 .. 1 /\ Max(1 .. 1) = 1 /\ (1 .. 1) \ {1} = 1 .. 0
    BY UptoTwo
  <2>2. 1 .. 0 = {} /\ 1 .. 1 # {} /\ 1 .. 2 # {}
        /\ 1 .. 1 \in SUBSET (1 .. 2) /\ 1 .. 2 \in SUBSET (1 .. 2)
    OBVIOUS
  <2> HIDE DEF Iter
  <2> QED BY <1>1, <1>7, <2>1, <2>2
<1> QED BY <1>1, <1>3, <1>2, <1>8 DEF path

\* A relative path behind another, which may be empty.
LEMMA GluedLeads ==
  ASSUME NEW a \in Seq(Parts), a # <<>>, NEW b \in Seq(Parts), b # <<>>, ~IsAbsolute(b)
  PROVE  LET j == Joined(Glued(Glued(<<>>, a), b))
         IN  /\ j \in Seq(Parts) /\ j # <<>>
             /\ IsAbsolute(j) = IsAbsolute(a)
             /\ \A at \in Places : From(at, j) = From(From(at, a), b)
<1> DEFINE j == Joined(Glued(Glued(<<>>, a), b))
<1>1. Blank \in Idle /\ Blank \in Parts /\ <<Blank>> \in Seq(Parts) /\ <<Blank>> # <<>>
      /\ Len(<<Blank>>) = 1
  BY IdleParts, SingleSeq
<1>2. \A at \in Places : From(at, <<Blank>>) = at /\ From(at, a) \in Places
  <2>1. <<>> \in Seq(Parts)
    OBVIOUS
  <2> QED BY <1>1, <2>1, FromBlank, FromProperties
<1>3. IsAbsolute(<<Blank>>) = FALSE /\ IsAbsolute(b) = FALSE
  <2>1. ~(Len(<<Blank>>) > 1)
    BY <1>1
  <2> QED BY <2>1, AbsoluteIs
<1>4. CASE a = <<Blank>> /\ b = <<Blank>>
  <2>1. Glued(Glued(<<>>, a), b) = <<>>
    BY <1>4 DEF Glued
  <2>2. j = <<Blank>>
    BY <2>1 DEF Joined, EmptyPath, Blank
  <2> QED BY <1>1, <1>2, <1>3, <1>4, <2>2
<1>5. CASE a = <<Blank>> /\ b # <<Blank>>
  <2>1. Glued(Glued(<<>>, a), b) = <<>> \o b
    BY <1>5 DEF Glued
  <2>2. j = b
    BY <2>1, ConcatEmptySeq DEF Joined
  <2>3. IsAbsolute(j) = IsAbsolute(a)
    BY <1>3, <1>5, <2>2
  <2>4. \A at \in Places : From(at, a) = at
    BY <1>2, <1>5
  <2> QED BY <2>2, <2>3, <2>4
<1>6. CASE a # <<Blank>> /\ b = <<Blank>>
  <2>1. Glued(Glued(<<>>, a), b) = <<>> \o a
    BY <1>6 DEF Glued
  <2>2. j = a
    BY <2>1, ConcatEmptySeq DEF Joined
  <2> QED BY <1>2, <1>6, <2>2
<1>7. CASE a # <<Blank>> /\ b # <<Blank>>
  <2>1. <<>> \o a = a /\ a \o b \in Seq(Parts) /\ a \o b # <<>>
    BY ConcatEmptySeq, ConcatProperties, ConcatEqualIffEmpty
  <2>2. Glued(Glued(<<>>, a), b) = a \o b
    BY <1>7, <2>1 DEF Glued
  <2>3. j = a \o b
    BY <2>1, <2>2 DEF Joined
  <2>4. IsAbsolute(a \o b) = IsAbsolute(a)
    <3>1. Len(a) \in Nat /\ Len(a) > 0 /\ Len(b) \in Nat /\ Len(b) > 0
      BY Bounds
    <3>2. (a \o b)[1] = a[1] /\ Len(a \o b) > 1
      BY <3>1, ConcatProperties
    <3>3. a[1] = Blank => Len(a) > 1
      <4>1. a[1] = Blank => Len(a) # 1
        BY <1>7, Bounds
      <4>2. Len(a) # 1 => Len(a) > 1
        <5>1. Len(a) # 0 /\ (Len(a) = 0 \/ Len(a) = 1 \/ Len(a) > 1)
          BY <3>1, Bounds
        <5> QED BY <5>1
      <4> QED BY <4>1, <4>2
    <3> QED BY <3>2, <3>3, AbsoluteIs
  <2>5. \A at \in Places : From(at, a \o b) = From(From(at, a), b)
    BY FromConcat
  <2> QED BY <2>1, <2>3, <2>4, <2>5
<1> HIDE DEF j
<1> QED BY <1>4, <1>5, <1>6, <1>7 DEF j

\* join() leads where its segments lead in turn.
LEMMA Joining ==
  ASSUME NEW a \in Seq(Parts), a # <<>>, NEW b \in Seq(Parts), b # <<>>, ~IsAbsolute(b),
         NEW at \in Places
  PROVE  Walk(at, Join(<<a, b>>)) = Walk(Walk(at, a), b)
<1> DEFINE j == Joined(Glued(Glued(<<>>, a), b))
<1>1. /\ j \in Seq(Parts) /\ j # <<>> /\ IsAbsolute(j) = IsAbsolute(a)
      /\ \A place \in Places : From(place, j) = From(From(place, a), b)
  BY GluedLeads
<1>2. Join(<<a, b>>) = Normalize(j)
  BY JoinGlues
<1> HIDE DEF j
<1>3. Walk(at, Normalize(j)) = Walk(at, j)
  BY <1>1, Normalizing
<1>4. <<>> \in Places
  BY EmptySeq DEF Places
<1>5. Walk(at, j) = From(Walk(at, a), b)
  BY <1>1, <1>4, WalkFrom
<1> QED BY <1>2, <1>3, <1>5, WalkFrom

\* What is split: the path behind its first slash.
Rest(path) == IF IsAbsolute(path) THEN Tail(path) ELSE path

\* The split: the last part that is not blank, and those before it.
LEMMA Splitting ==
  ASSUME NEW path \in Seq(Parts), path # <<>>
  PROVE  LET rest == Rest(path)
             split == SplitPath(path)
         IN
         /\ rest \in Seq(Parts) /\ split.dir \in Seq(Parts) /\ split.base \in Parts
         /\ split.root = IsAbsolute(path)
         /\ split.dir # <<>> => split.dir[1] = rest[1] /\ Len(rest) > 1
         /\ \A at \in Places : From(at, rest) = From(at, split.dir \o <<split.base>>)
<1> DEFINE rest == Rest(path)
           split == SplitPath(path)
           last == Max({0} \cup {i \in DOMAIN rest : rest[i] # Blank})
<1>1. rest \in Seq(Parts) /\ Len(rest) \in Nat /\ DOMAIN rest = 1 .. Len(rest)
  BY HeadTailProperties, Bounds DEF Rest
<1>2. split = [root |-> IsAbsolute(path), dir |-> SubSeq(rest, 1, last - 1),
               base |-> IF last = 0 THEN Blank ELSE rest[last]]
  BY DEF SplitPath, Rest, Blank
<1> HIDE DEF rest, split
<1>3. /\ last \in 0 .. Len(rest) /\ (last # 0 => rest[last] # Blank)
      /\ \A i \in last + 1 .. Len(rest) : rest[i] \in Idle
  <2> DEFINE s == {0} \cup {i \in DOMAIN rest : rest[i] # Blank}
  <2>1. s \in SUBSET (0 .. Len(rest)) /\ s # {} /\ 0 \in s
    <3>1. 0 \in s
      OBVIOUS
    <3>2. ASSUME NEW i \in s PROVE i \in 0 .. Len(rest)
      BY <1>1
    <3> QED BY <3>1, <3>2
  <2>2. \A i \in s : i # 0 => rest[i] # Blank
    OBVIOUS
  <2>3. \A i \in 1 .. Len(rest) : rest[i] # Blank => i \in s
    BY <1>1
  <2> HIDE DEF s
  <2>4. last = Max(s)
    BY DEF s
  <2> HIDE DEF last
  <2>5. last \in s /\ \A j \in s : last >= j
    BY <1>1, <2>1, <2>4, MaxIn
  <2>6. last \in 0 .. Len(rest)
    BY <2>1, <2>5
  <2>7. ASSUME NEW i \in last + 1 .. Len(rest) PROVE rest[i] \in Idle
    <3>1. i \in 1 .. Len(rest) /\ ~(last >= i)
      BY <1>1, <2>6
    <3>2. rest[i] = Blank
      BY <2>3, <2>5, <3>1
    <3> QED BY <3>2, IdleParts
  <2> QED BY <2>2, <2>5, <2>6, <2>7
<1> HIDE DEF last
<1>4. split.root = IsAbsolute(path) /\ split.dir = SubSeq(rest, 1, last - 1)
      /\ split.base = IF last = 0 THEN Blank ELSE rest[last]
  BY <1>2
<1>5. CASE last = 0
  <2>1. split.dir = <<>>
    BY <1>4, <1>5, SubSeqEmpty
  <2>2. split.base = Blank /\ Blank \in Parts /\ Blank \in Idle
    BY <1>4, <1>5, IdleParts
  <2>3. <<>> \o <<Blank>> = <<Blank>> /\ <<>> \in Seq(Parts)
    BY <2>2, SingleSeq, ConcatEmptySeq
  <2>4. ASSUME NEW at \in Places PROVE From(at, rest) = From(at, <<Blank>>)
    <3>1. From(at, rest) = From(at, SubSeq(rest, 1, 0))
      BY <1>1, <1>3, <1>5, IdleEnd
    <3>2. SubSeq(rest, 1, 0) = <<>>
      BY SubSeqEmpty
    <3>3. From(at, <<>>) = at
      BY FromProperties
    <3>4. From(at, <<Blank>>) = at
      BY <2>2, <2>3, FromBlank
    <3> QED BY <3>1, <3>2, <3>3, <3>4
  <2> QED BY <1>1, <1>4, <2>1, <2>2, <2>3, <2>4 DEF rest, split
<1>6. CASE last # 0
  <2>1. last \in 1 .. Len(rest) /\ last \in Int
    BY <1>1, <1>3, <1>6
  <2>2. split.base = rest[last] /\ rest[last] \in Parts
    BY <1>1, <1>4, <1>6, <2>1, ElementOfSeq
  <2>3. split.dir \in Seq(Parts) /\ Len(split.dir) = last - 1
        /\ \A i \in 1 .. last - 1 : split.dir[i] = rest[i]
    BY <1>1, <1>4, <2>1
  <2>4. split.dir # <<>> => split.dir[1] = rest[1] /\ Len(rest) > 1
    <3>1. split.dir # <<>> => Len(split.dir) > 0
      BY <2>3, Bounds
    <3>2. split.dir # <<>> => 1 \in 1 .. last - 1
      BY <2>1, <2>3, <3>1
    <3> QED BY <1>1, <2>1, <2>3, <3>2
  <2>5. SubSeq(rest, 1, last) = split.dir \o <<split.base>>
    <3>1. 1 \in 1 .. Len(rest) /\ last \in 1 .. Len(rest)
      BY <1>1, <2>1
    <3> QED BY <1>1, <1>4, <2>2, <3>1, SubSeqRecursiveSecond
  <2>6. \A at \in Places : From(at, rest) = From(at, SubSeq(rest, 1, last))
    BY <1>1, <1>3, IdleEnd
  <2> QED BY <1>1, <1>4, <2>2, <2>3, <2>4, <2>5, <2>6 DEF rest, split
<1> QED BY <1>5, <1>6

\* The two parts of the split, joined, lead where the path leads.
LEMMA JoiningSplit ==
  ASSUME NEW path \in Seq(Parts), path # <<>>, NEW at \in Places
  PROVE  Walk(at, Join(<<Dirname(path), Basename(path)>>)) = Walk(at, path)
<1> DEFINE absolute == IsAbsolute(path)
           rest == Rest(path)
           split == SplitPath(path)
           dir == Dirname(path)
           base == Basename(path)
<1>1. /\ rest \in Seq(Parts) /\ split.dir \in Seq(Parts) /\ split.base \in Parts
      /\ split.root = absolute
      /\ split.dir # <<>> => split.dir[1] = rest[1] /\ Len(rest) > 1
      /\ \A place \in Places : From(place, rest) = From(place, split.dir \o <<split.base>>)
  BY Splitting
<1>2. base = <<split.base>> /\ base \in Seq(Parts) /\ base # <<>> /\ ~IsAbsolute(base)
  <2>1. base = <<split.base>>
    BY DEF Basename
  <2>2. Len(<<split.base>>) = 1 /\ <<split.base>> \in Seq(Parts) /\ <<split.base>> # <<>>
    BY <1>1, SingleSeq
  <2>3. ~(1 > 1)
    OBVIOUS
  <2> QED BY <2>1, <2>2, <2>3, AbsoluteIs
<1>3. <<>> \in Places /\ Blank \in Parts /\ Dot \in Parts /\ Blank \in Idle /\ Dot \in Idle
      /\ <<Blank>> \in Seq(Parts) /\ <<Dot>> \in Seq(Parts) /\ <<>> \in Seq(Parts)
  BY IdleParts, EmptySeq, SingleSeq DEF Places
<1>4. dir = IF ~split.root /\ split.dir = <<>> THEN <<Dot>>
            ELSE IF split.root THEN <<Blank>> \o Joined(split.dir)
            ELSE split.dir
  BY DEF Dirname, Here, Dot, Blank
<1>5. Joined(split.dir) = IF split.dir = <<>> THEN <<Blank>> ELSE split.dir
  BY DEF Joined, EmptyPath, Blank
<1>6. absolute => path = <<Blank>> \o rest
  <2>1. absolute => path[1] = Blank
    BY AbsoluteIs
  <2>2. absolute => path[1] = Blank /\ Head(path) = path[1]
    BY <2>1
  <2> HIDE DEF absolute
  <2>3. \A q \in Seq(Parts) : q # <<>> => q = <<Head(q)>> \o Tail(q)
    OBVIOUS
  <2> QED BY <2>2, <2>3 DEF Rest, absolute
<1>7. ~absolute => path = rest
  BY DEF Rest
<1>8. absolute = (Len(path) > 1 /\ path[1] = Blank)
  BY AbsoluteIs
<1> HIDE DEF absolute, rest, split, dir, base
<1>9. /\ dir \in Seq(Parts) /\ dir # <<>> /\ IsAbsolute(dir) = absolute
      /\ \A place \in Places : From(place, dir) = From(place, split.dir)
  <2>1. CASE ~absolute /\ split.dir = <<>>
    <3>1. dir = <<Dot>>
      BY <1>1, <1>4, <2>1
    <3>2. Len(<<Dot>>) = 1 /\ <<Dot>> # <<>> /\ ~(1 > 1)
      BY <1>3, SingleSeq
    <3>3. IsAbsolute(<<Dot>>) = FALSE
      BY <3>2, AbsoluteIs
    <3>4. \A place \in Places : From(place, <<Dot>>) = From(place, <<>>)
      BY <1>3, FromBlank, FromProperties
    <3> QED BY <1>3, <1>8, <2>1, <3>1, <3>2, <3>3, <3>4
  <2>2. CASE absolute
    <3> DEFINE j == Joined(split.dir)
    <3>1. j \in Seq(Parts) /\ j # <<>>
          /\ \A place \in Places : From(place, j) = From(place, split.dir)
      BY <1>1, <1>3, <1>5, FromBlank, FromProperties, SingleSeq
    <3>2. dir = <<Blank>> \o j
      BY <1>1, <1>4, <2>2
    <3> HIDE DEF j
    <3>3. dir \in Seq(Parts) /\ dir # <<>> /\ dir[1] = Blank /\ Len(dir) = Len(j) + 1
          /\ Len(j) \in Nat /\ Len(j) > 0
      BY <1>3, <3>1, <3>2, Prefixed, Bounds
    <3>4. Len(dir) > 1
      BY <3>3
    <3>5. IsAbsolute(dir) = TRUE
      BY <3>3, <3>4, AbsoluteIs
    <3>6. \A place \in Places : From(place, dir) = From(place, j)
      BY <1>3, <3>1, <3>2, FromBlank
    <3> QED BY <1>8, <2>2, <3>1, <3>3, <3>5, <3>6
  <2>3. CASE ~absolute /\ split.dir # <<>>
    <3>1. dir = split.dir
      BY <1>1, <1>4, <2>3
    <3>2. IsAbsolute(dir) = FALSE
      BY <1>1, <1>7, <1>8, <2>3, <3>1, AbsoluteIs
    <3> QED BY <1>1, <1>8, <2>3, <3>1, <3>2
  <2> QED BY <2>1, <2>2, <2>3
<1>10. Walk(at, Join(<<dir, base>>)) = Walk(Walk(at, dir), base)
  BY <1>2, <1>9, Joining
<1>11. ASSUME NEW place \in Places PROVE From(From(place, dir), base) = From(place, path)
  <2>1. From(From(place, split.dir), base) = From(place, split.dir \o base)
    BY <1>1, <1>2, FromConcat
  <2>2. From(place, path) = From(place, rest)
    <3>1. From(place, <<Blank>> \o rest) = From(place, rest)
      BY <1>1, <1>3, FromBlank
    <3> QED BY <1>6, <1>7, <3>1
  <2> QED BY <1>1, <1>2, <1>9, <2>1, <2>2
<1>12. Walk(Walk(at, dir), base) = Walk(at, path)
  <2>1. Walk(Walk(at, dir), base) = From(Walk(at, dir), base)
    BY <1>2, WalkFrom
  <2>2. Walk(at, dir) = From(IF absolute THEN <<>> ELSE at, dir)
    BY <1>9, WalkFrom
  <2>3. Walk(at, path) = From(IF absolute THEN <<>> ELSE at, path)
    BY WalkFrom DEF absolute
  <2> QED BY <1>3, <1>11, <2>1, <2>2, <2>3
<1> QED BY <1>10, <1>12 DEF dir, base

-----------------------------------------------------------------------------
(* Resolving.                                                              *)

\* One step of resolve().
Prepended(segment, acc) ==
  IF acc.absolute \/ segment = EmptyPath THEN acc
  ELSE [path |-> segment \o acc.path, absolute |-> IsAbsolute(segment)]

\* What resolve() has found so far.
Accumulated == [path : Seq(Parts), absolute : BOOLEAN]

\* Prepending keeps the types.
LEMMA PrependedType ==
  ASSUME NEW segment \in Seq(Parts), NEW acc \in Accumulated
  PROVE  Prepended(segment, acc) \in Accumulated
<1>1. segment \o acc.path \in Seq(Parts)
  BY ConcatProperties DEF Accumulated
<1>2. IsAbsolute(segment) \in BOOLEAN
  BY DEF IsAbsolute
<1> QED BY <1>1, <1>2 DEF Prepended, Accumulated

\* The loop of resolve(), from the last segment back.
AllOf(segments) == FoldRight(Prepended, segments, [path |-> EmptyPath, absolute |-> FALSE])

\* Its recursive function, for the segments from the first position on.
LEMMA AllOfRecursion ==
  ASSUME NEW segments \in Seq(Seq(Parts))
  PROVE  \E it : /\ AllOf(segments) = it[1 .. Len(segments)]
                 /\ it[{}] = [path |-> EmptyPath, absolute |-> FALSE]
                 /\ \A s \in SUBSET (1 .. Len(segments)) : s # {} =>
                      it[s] = Prepended(segments[Min(s)], it[s \ {Min(s)}])
<1> DEFINE b == [path |-> EmptyPath, absolute |-> FALSE]
           n == Len(segments)
           D == 1 .. n
           G == [x \in Accumulated \X D |-> Prepended(segments[x[2]], x[1])]
           c == [s \in SUBSET D |-> Min(s)]
           Iter(iter) == iter = [s \in SUBSET DOMAIN segments |->
                                   IF s = {} THEN b
                                   ELSE Prepended(segments[Min(s)], iter[s \ {Min(s)}])]
           it == CHOOSE iter : Iter(iter)
<1>1. n \in Nat /\ DOMAIN segments = D /\ IsFiniteSet(D) /\ \A i \in D : segments[i] \in Seq(Parts)
  BY FS_Interval
<1>2. b \in Accumulated
  <2>1. EmptyPath \in Seq(Parts)
    BY IdleParts, SingleSeq
  <2> QED BY <2>1 DEF Accumulated
<1>3. G \in [Accumulated \X D -> Accumulated]
  BY <1>1, PrependedType
<1>4. \A s \in SUBSET D : s # {} => Min(s) \in s
  BY <1>1, MinIn
<1>5. \A s \in SUBSET D : c[s] = Min(s)
  OBVIOUS
<1>6. \A acc \in Accumulated, i \in D : G[acc, i] = Prepended(segments[i], acc)
  OBVIOUS
<1>7. AllOf(segments) = it[DOMAIN segments]
  BY DEF AllOf, FoldRight, MapThenFoldSet
<1> HIDE DEF b, n, D, G, c
<1>8. PICK g : Folding(g, D, Accumulated, b, G, c)
  <2>1. \A s \in SUBSET D : s # {} => c[s] \in s
    BY <1>4, <1>5
  <2> QED BY <1>1, <1>2, <1>3, <2>1, IterExists
<1>9. Iter(g)
  <2>1. ASSUME NEW s \in SUBSET D, s # {}
        PROVE  g[s] = Prepended(segments[Min(s)], g[s \ {Min(s)}])
    <3>1. Min(s) \in D /\ s \ {Min(s)} \in SUBSET D /\ g[s \ {Min(s)}] \in Accumulated
      BY <1>4, <1>8, <2>1 DEF Folding
    <3>2. g[s] = G[g[s \ {Min(s)}], Min(s)]
      BY <1>5, <1>8, <2>1 DEF Folding
    <3> QED BY <1>6, <3>1, <3>2
  <2>2. g = [s \in SUBSET D |-> g[s]] /\ g[{}] = b
    BY <1>8 DEF Folding
  <2> QED BY <1>1, <2>1, <2>2
<1>10. Iter(it)
  <2> HIDE DEF Iter
  <2> QED BY <1>9
<1> HIDE DEF it
<1>11. it[{}] = b /\ \A s \in SUBSET D : s # {} =>
         it[s] = Prepended(segments[Min(s)], it[s \ {Min(s)}])
  BY <1>1, <1>10
<1> QED BY <1>1, <1>7, <1>11 DEF b, n, D

\* resolve() normalises what the loop has found.
LEMMA ResolveIs ==
  ASSUME NEW segments
  PROVE  Resolve(segments) =
           <<Blank>> \o Joined(NormalizeArray(AllOf(<<Root>> \o segments).path, FALSE))
BY DEF Resolve, AllOf, Prepended, Blank

\* The root in front changes nothing on the way from the root.
LEMMA RootFacts ==
  /\ Root \in Seq(Parts) /\ IsAbsolute(Root) = TRUE /\ Root # <<Blank>>
  /\ \A at \in Places, path \in Seq(Parts) :
       Root \o path \in Seq(Parts) /\ From(at, Root \o path) = From(at, path)
<1>1. Root = <<Blank, Blank>> /\ Len(Root) = 2 /\ Root[1] = Blank
  BY DEF Root, Blank
<1>2. Root = <<Blank>> \o <<Blank>>
  BY <1>1
<1>3. Blank \in Parts /\ Blank \in Idle /\ <<Blank>> \in Seq(Parts) /\ Len(<<Blank>>) = 1
  BY IdleParts, SingleSeq
<1>4. Root \in Seq(Parts)
  BY <1>2, <1>3, ConcatProperties
<1>5. IsAbsolute(Root) = TRUE
  <2>1. 2 > 1
    OBVIOUS
  <2> QED BY <1>1, <2>1, AbsoluteIs
<1>6. Root # <<Blank>>
  <2>1. 2 # 1
    OBVIOUS
  <2> QED BY <1>1, <1>3, <2>1
<1>7. ASSUME NEW at \in Places, NEW path \in Seq(Parts)
      PROVE  Root \o path \in Seq(Parts) /\ From(at, Root \o path) = From(at, path)
  <2>1. From(at, Root \o path) = From(From(at, Root), path)
    BY <1>4, FromConcat
  <2>2. From(at, Root) = at
    BY <1>2, <1>3, FromBlank
  <2> QED BY <1>4, <2>1, <2>2, ConcatProperties
<1> QED BY <1>4, <1>5, <1>6, <1>7

\* acc stands for the way from wherever the segments before it lead: one more
\* segment is walked first, unless acc is absolute already.
LEMMA PrependedLeads ==
  ASSUME NEW segment \in Seq(Parts), NEW acc \in Accumulated, NEW at \in Places
  PROVE  LET next == Prepended(segment, acc)
         IN  /\ next.absolute = (acc.absolute \/ IsAbsolute(segment))
             /\ From(at, next.path) =
                  IF acc.absolute THEN From(at, acc.path) ELSE From(From(at, segment), acc.path)
<1> DEFINE next == Prepended(segment, acc)
<1>1. acc.path \in Seq(Parts) /\ acc.absolute \in BOOLEAN
  BY DEF Accumulated
<1>2. EmptyPath = <<Blank>> /\ Blank \in Idle /\ <<>> \in Seq(Parts)
      /\ Len(<<Blank>>) = 1 /\ ~(1 > 1)
  BY IdleParts, SingleSeq
<1>3. IsAbsolute(<<Blank>>) = FALSE
  BY <1>2, AbsoluteIs
<1>4. From(at, <<Blank>>) = at
  BY <1>2, FromBlank
<1>5. From(at, segment \o acc.path) = From(From(at, segment), acc.path)
  BY <1>1, FromConcat
<1>6. CASE acc.absolute
  <2>1. next = acc
    BY <1>6 DEF Prepended
  <2> QED BY <1>1, <1>6, <2>1
<1>7. CASE ~acc.absolute /\ segment = <<Blank>>
  <2>1. next = acc
    BY <1>2, <1>7 DEF Prepended
  <2> QED BY <1>1, <1>3, <1>4, <1>7, <2>1
<1>8. CASE ~acc.absolute /\ segment # <<Blank>>
  <2>1. next = [path |-> segment \o acc.path, absolute |-> IsAbsolute(segment)]
    BY <1>2, <1>8 DEF Prepended
  <2>2. next.path = segment \o acc.path /\ next.absolute = IsAbsolute(segment)
    BY <2>1
  <2>3. IsAbsolute(segment) \in BOOLEAN
    BY DEF IsAbsolute
  <2>4. From(at, next.path) = From(From(at, segment), acc.path)
    BY <1>5, <2>2
  <2>5. next.absolute = (acc.absolute \/ IsAbsolute(segment))
    BY <1>8, <2>2, <2>3
  <2> HIDE DEF next
  <2> QED BY <1>8, <2>4, <2>5 DEF next
<1> QED BY <1>6, <1>7, <1>8

\* What the loop starts with.
Nowhere == [path |-> EmptyPath, absolute |-> FALSE]

\* The loop with the root and one segment ...
LEMMA AllOfOne ==
  ASSUME NEW a \in Seq(Parts), NEW b \in Seq(Parts)
  PROVE  AllOf(<<a, b>>) = Prepended(a, Prepended(b, Nowhere))
<1> DEFINE segments == <<a, b>>
<1>1. segments \in Seq(Seq(Parts)) /\ Len(segments) = 2
      /\ segments[1] = a /\ segments[2] = b
  OBVIOUS
<1> HIDE DEF segments
<1>2. PICK it : /\ AllOf(segments) = it[1 .. Len(segments)]
                /\ it[{}] = Nowhere
                /\ \A s \in SUBSET (1 .. Len(segments)) : s # {} =>
                     it[s] = Prepended(segments[Min(s)], it[s \ {Min(s)}])
  BY <1>1, AllOfRecursion DEF Nowhere
<1>3. 1 .. Len(segments) = {1, 2}
  BY <1>1
<1>4. {1, 2} \in SUBSET {1, 2} /\ {1, 2} # {} /\ {2} \in SUBSET {1, 2} /\ {2} # {}
  OBVIOUS
<1>5. AllOf(segments) = it[{1, 2}] /\ \A s \in SUBSET {1, 2} : s # {} =>
        it[s] = Prepended(segments[Min(s)], it[s \ {Min(s)}])
  BY <1>2, <1>3
<1>6. it[{1, 2}] = Prepended(a, it[{2}]) /\ it[{2}] = Prepended(b, it[{}])
  <2>1. it[{1, 2}] = Prepended(segments[Min({1, 2})], it[{1, 2} \ {Min({1, 2})}])
    BY <1>4, <1>5
  <2>2. it[{1, 2}] = Prepended(a, it[{2}])
    BY <1>1, <2>1, OneUp
  <2>3. it[{2}] = Prepended(segments[Min({2})], it[{2} \ {Min({2})}])
    BY <1>4, <1>5
  <2>4. it[{2}] = Prepended(b, it[{}])
    BY <1>1, <2>3, OneUp
  <2> QED BY <2>2, <2>4
<1> QED BY <1>2, <1>5, <1>6 DEF segments

\* ... and with the root and two.
LEMMA AllOfTwo ==
  ASSUME NEW a \in Seq(Parts), NEW b \in Seq(Parts), NEW d \in Seq(Parts)
  PROVE  AllOf(<<a, b, d>>) = Prepended(a, Prepended(b, Prepended(d, Nowhere)))
<1> DEFINE segments == <<a, b, d>>
<1>1. segments \in Seq(Seq(Parts)) /\ Len(segments) = 3
      /\ segments[1] = a /\ segments[2] = b /\ segments[3] = d
  OBVIOUS
<1> HIDE DEF segments
<1>2. PICK it : /\ AllOf(segments) = it[1 .. Len(segments)]
                /\ it[{}] = Nowhere
                /\ \A s \in SUBSET (1 .. Len(segments)) : s # {} =>
                     it[s] = Prepended(segments[Min(s)], it[s \ {Min(s)}])
  BY <1>1, AllOfRecursion DEF Nowhere
<1>3. 1 .. Len(segments) = {1, 2, 3}
  BY <1>1
<1>4. /\ {1, 2, 3} \in SUBSET {1, 2, 3} /\ {1, 2, 3} # {}
      /\ {2, 3} \in SUBSET {1, 2, 3} /\ {2, 3} # {}
      /\ {3} \in SUBSET {1, 2, 3} /\ {3} # {}
  OBVIOUS
<1>5. AllOf(segments) = it[{1, 2, 3}] /\ \A s \in SUBSET {1, 2, 3} : s # {} =>
        it[s] = Prepended(segments[Min(s)], it[s \ {Min(s)}])
  BY <1>2, <1>3
<1>6. /\ it[{1, 2, 3}] = Prepended(a, it[{2, 3}])
      /\ it[{2, 3}] = Prepended(b, it[{3}])
      /\ it[{3}] = Prepended(d, it[{}])
  <2>1. it[{1, 2, 3}] = Prepended(segments[Min({1, 2, 3})], it[{1, 2, 3} \ {Min({1, 2, 3})}])
    BY <1>4, <1>5
  <2>2. it[{1, 2, 3}] = Prepended(a, it[{2, 3}])
    BY <1>1, <2>1, OneUp
  <2>3. it[{2, 3}] = Prepended(segments[Min({2, 3})], it[{2, 3} \ {Min({2, 3})}])
    BY <1>4, <1>5
  <2>4. it[{2, 3}] = Prepended(b, it[{3}])
    BY <1>1, <2>3, OneUp
  <2>5. it[{3}] = Prepended(segments[Min({3})], it[{3} \ {Min({3})}])
    BY <1>4, <1>5
  <2>6. it[{3}] = Prepended(d, it[{}])
    BY <1>1, <2>5, OneUp
  <2> QED BY <2>2, <2>4, <2>6
<1> QED BY <1>2, <1>5, <1>6 DEF segments

\* The last segment by itself.
LEMMA NowhereLeads ==
  /\ Nowhere \in Accumulated
  /\ \A segment \in Seq(Parts) :
       LET acc == Prepended(segment, Nowhere)
       IN  /\ acc \in Accumulated
           /\ acc.absolute = IsAbsolute(segment)
           /\ \A at \in Places : From(at, acc.path) = From(at, segment)
<1>1. EmptyPath = <<Blank>> /\ Blank \in Idle /\ <<Blank>> \in Seq(Parts)
  BY IdleParts, SingleSeq
<1>2. Nowhere \in Accumulated /\ Nowhere.path = <<Blank>> /\ Nowhere.absolute = FALSE
  BY <1>1 DEF Nowhere, Accumulated
<1>3. ASSUME NEW segment \in Seq(Parts)
      PROVE  LET acc == Prepended(segment, Nowhere)
             IN  /\ acc \in Accumulated
                 /\ acc.absolute = IsAbsolute(segment)
                 /\ \A at \in Places : From(at, acc.path) = From(at, segment)
  <2> DEFINE acc == Prepended(segment, Nowhere)
  <2>1. acc \in Accumulated
    BY <1>2, PrependedType
  <2>2. IsAbsolute(segment) \in BOOLEAN
    BY DEF IsAbsolute
  <2>3. ASSUME NEW at \in Places
        PROVE  /\ acc.absolute = IsAbsolute(segment)
               /\ From(at, acc.path) = From(at, segment)
    <3>1. /\ acc.absolute = (Nowhere.absolute \/ IsAbsolute(segment))
          /\ From(at, acc.path) = IF Nowhere.absolute THEN From(at, Nowhere.path)
                                  ELSE From(From(at, segment), Nowhere.path)
      BY <1>2, PrependedLeads
    <3>2. From(From(at, segment), <<Blank>>) = From(at, segment)
      <4>1. From(at, segment) \in Places
        BY FromProperties
      <4> QED BY <1>1, <4>1, FromBlank
    <3> QED BY <1>2, <2>2, <3>1, <3>2
  <2>4. <<>> \in Places
    BY EmptySeq DEF Places
  <2> HIDE DEF acc
  <2> QED BY <2>1, <2>3, <2>4 DEF acc
<1> QED BY <1>2, <1>3

\* The root in front of the segments makes every path absolute.
LEMMA FromRoot ==
  ASSUME NEW acc \in Accumulated
  PROVE  LET all == Prepended(Root, acc)
         IN  /\ all.path \in Seq(Parts)
             /\ From(<<>>, all.path) = From(<<>>, acc.path)
<1> DEFINE all == Prepended(Root, acc)
<1>1. Root \in Seq(Parts) /\ <<>> \in Places /\ <<>> \in Seq(Parts)
  BY RootFacts, EmptySeq DEF Places
<1>2. all \in Accumulated
  BY <1>1, PrependedType
<1>3. From(<<>>, all.path) = IF acc.absolute THEN From(<<>>, acc.path)
                             ELSE From(From(<<>>, Root), acc.path)
  BY <1>1, PrependedLeads
<1>4. From(<<>>, Root) = <<>>
  <2>1. Root \o <<>> = Root
    BY <1>1, ConcatEmptySeq
  <2>2. From(<<>>, Root \o <<>>) = From(<<>>, <<>>)
    BY <1>1, RootFacts
  <2> QED BY <1>1, <2>1, <2>2, FromProperties
<1> HIDE DEF all
<1>5. all.path \in Seq(Parts)
  BY <1>2 DEF Accumulated
<1> QED BY <1>3, <1>4, <1>5 DEF all

\* A place, written as an absolute path.
Written(place) == <<Blank>> \o Joined(place)

\* resolve() of one segment writes the place the segment leads to ...
LEMMA ResolvedOne ==
  ASSUME NEW path \in Seq(Parts)
  PROVE  Resolve(<<path>>) = Written(Place(path)) /\ Place(path) \in Places
<1>1. <<>> \in Places /\ Root \in Seq(Parts)
  BY EmptySeq, RootFacts DEF Places
<1> DEFINE acc == Prepended(path, Nowhere)
           all == Prepended(Root, acc)
<1>2. <<Root>> \o <<path>> = <<Root, path>>
  BY <1>1, Tuples
<1>3. AllOf(<<Root, path>>) = all
  BY <1>1, AllOfOne
<1>4. acc \in Accumulated /\ From(<<>>, acc.path) = From(<<>>, path)
  BY <1>1, NowhereLeads
<1>5. Resolve(<<path>>) = <<Blank>> \o Joined(NormalizeArray(all.path, FALSE))
  BY <1>2, <1>3, ResolveIs
<1> HIDE DEF acc
<1>6. all.path \in Seq(Parts) /\ From(<<>>, all.path) = From(<<>>, path)
  BY <1>4, FromRoot
<1> HIDE DEF all
<1>7. NormalizeArray(all.path, FALSE) = From(<<>>, path) /\ From(<<>>, path) \in Places
  BY <1>6, ArrayWalks
<1>8. Place(path) = From(<<>>, path)
  BY WalkFrom DEF Place
<1> QED BY <1>5, <1>7, <1>8 DEF Written

\* ... and of two, the place they lead to in turn.
LEMMA ResolvedTwo ==
  ASSUME NEW a \in Seq(Parts), NEW b \in Seq(Parts)
  PROVE  Resolve(<<a, b>>) = Written(Walk(Place(a), b)) /\ Walk(Place(a), b) \in Places
<1>1. <<>> \in Places /\ Root \in Seq(Parts)
  BY EmptySeq, RootFacts DEF Places
<1> DEFINE last == Prepended(b, Nowhere)
           acc == Prepended(a, last)
           all == Prepended(Root, acc)
<1>2. <<Root>> \o <<a, b>> = <<Root, a, b>>
  BY <1>1, Tuples
<1>3. AllOf(<<Root, a, b>>) = all
  BY <1>1, AllOfTwo
<1>4. /\ last \in Accumulated /\ last.absolute = IsAbsolute(b)
      /\ \A at \in Places : From(at, last.path) = From(at, b)
  BY NowhereLeads
<1>5. Resolve(<<a, b>>) = <<Blank>> \o Joined(NormalizeArray(all.path, FALSE))
  BY <1>2, <1>3, ResolveIs
<1> HIDE DEF last
<1>6. /\ acc \in Accumulated
      /\ From(<<>>, acc.path) = IF last.absolute THEN From(<<>>, last.path)
                                ELSE From(From(<<>>, a), last.path)
  BY <1>1, <1>4, PrependedType, PrependedLeads
<1> HIDE DEF acc
<1>7. all.path \in Seq(Parts) /\ From(<<>>, all.path) = From(<<>>, acc.path)
  BY <1>6, FromRoot
<1> HIDE DEF all
<1>8. Place(a) = From(<<>>, a) /\ From(<<>>, a) \in Places
  BY <1>1, WalkFrom, FromProperties DEF Place
<1>9. Walk(Place(a), b) = From(<<>>, all.path)
  <2>1. Walk(Place(a), b) = From(IF IsAbsolute(b) THEN <<>> ELSE From(<<>>, a), b)
    BY <1>8, WalkFrom
  <2> QED BY <1>1, <1>4, <1>6, <1>7, <1>8, <2>1
<1>10. NormalizeArray(all.path, FALSE) = From(<<>>, all.path) /\ From(<<>>, all.path) \in Places
  BY <1>7, ArrayWalks
<1> QED BY <1>5, <1>9, <1>10 DEF Written

\* What is written leads to the place, and relative() reads it back.
LEMMA WrittenLeads ==
  ASSUME NEW place \in Places
  PROVE  /\ Place(Written(place)) = place
         /\ Written(place) \in Seq(Parts)
         /\ Tail(Written(place)) = Joined(place)
<1> DEFINE j == Joined(place)
<1>1. Blank \in Idle /\ Blank \in Parts /\ <<Blank>> \in Seq(Parts) /\ <<Blank>> # <<>>
      /\ <<>> \in Places /\ <<>> \in Seq(Parts)
  BY IdleParts, SingleSeq, EmptySeq DEF Places
<1>2. j = IF place = <<>> THEN <<Blank>> ELSE place
  BY DEF Joined, EmptyPath, Blank
<1>3. place \in Seq(Parts) /\ From(<<>>, place) = place
  BY KeptParts, FromNamesRoot DEF Places
<1> HIDE DEF j
<1>4. j \in Seq(Parts) /\ From(<<>>, j) = place
  BY <1>1, <1>2, <1>3, FromBlank
<1>5. Written(place) = <<Blank>> \o j
  BY DEF Written, j
<1>6. Place(Written(place)) = From(<<>>, Written(place))
  BY WalkFrom DEF Place
<1>7. From(<<>>, <<Blank>> \o j) = From(<<>>, j)
  BY <1>1, <1>4, FromBlank
<1>8. \A q \in Seq(Parts), x \in Parts : Tail(<<x>> \o q) = q
  OBVIOUS
<1> QED BY <1>1, <1>4, <1>5, <1>6, <1>7, <1>8, ConcatProperties DEF j

-----------------------------------------------------------------------------
(* From one path to another.                                               *)

\* samePartsLength counts parts that the two have in common, from the start.
LEMMA SharedParts ==
  ASSUME NEW f \in Places, NEW t \in Places
  PROVE  /\ Shared(f, t) \in 0 .. Len(f) /\ Shared(f, t) \in 0 .. Len(t)
         /\ SubSeq(f, 1, Shared(f, t)) = SubSeq(t, 1, Shared(f, t))
<1> DEFINE S == CommonPrefixes({f, t})
           D == {Len(f) - Len(q) : q \in S}
           longest == LongestCommonPrefix({f, t})
<1>1. f \in Seq(Names) /\ t \in Seq(Names) /\ Len(f) \in Nat /\ Len(t) \in Nat
  BY DEF Places
<1>2. \A q \in S : /\ q \in Seq(Names) /\ Len(q) \in Nat
                   /\ IsPrefix(q, f) /\ IsPrefix(q, t)
  <2> SUFFICES ASSUME NEW q \in S
               PROVE  q \in Seq(Names) /\ Len(q) \in Nat /\ IsPrefix(q, f) /\ IsPrefix(q, t)
    OBVIOUS
  <2>1. IsPrefix(q, f) /\ IsPrefix(q, t)
    BY DEF CommonPrefixes
  <2>2. PICK r \in {f, t} : q \in Prefixes(r)
    BY DEF CommonPrefixes
  <2>3. PICK l \in 0 .. Len(r) : q = SubSeq(r, 1, l)
    BY <2>2 DEF Prefixes
  <2>4. r \in Seq(Names)
    BY <1>1
  <2>5. q \in Seq(Names)
    <3>1. \A i \in 1 .. l : r[i] \in Names
      BY <2>4
    <3>2. 1 \in Int /\ l \in Int
      BY <2>3, <2>4
    <3> QED BY <2>3, <3>1, <3>2, SubSeqProperties
  <2> QED BY <2>1, <2>5, Bounds
<1>3. <<>> \in S
  <2>1. <<>> = SubSeq(f, 1, 0) /\ 0 \in 0 .. Len(f)
    BY <1>1
  <2>2. \A r \in {f, t} : IsPrefix(<<>>, r)
    <3>1. \A r \in {f, t} : Len(<<>>) <= Len(r) /\ SubSeq(<<>>, 1, 0) = <<>>
                            /\ SubSeq(r, 1, 0) = <<>> /\ Len(<<>>) = 0
      BY <1>1
    <3> QED BY <3>1 DEF IsPrefix
  <2>3. <<>> \in Prefixes(f)
    BY <2>1 DEF Prefixes
  <2> QED BY <2>2, <2>3 DEF CommonPrefixes
<1>4. \A q \in S : Len(q) <= Len(f)
  BY <1>2 DEF IsPrefix
<1> HIDE DEF S
<1>5. D \in SUBSET Nat /\ D # {}
  <2>1. \A q \in S : Len(f) - Len(q) \in Nat
    BY <1>1, <1>2, <1>4
  <2> QED BY <1>3, <2>1
<1>6. PICK d \in D : \A y \in D : ~(y < d)
  <2> HIDE DEF D
  <2> QED BY <1>5, Least
<1>7. PICK q \in S : d = Len(f) - Len(q)
  OBVIOUS
<1>8. \A r \in S : Len(f) - Len(r) \in D
  OBVIOUS
<1>9. ASSUME NEW r \in S PROVE Len(r) <= Len(q)
  <2>1. ~(Len(f) - Len(r) < Len(f) - Len(q))
    BY <1>6, <1>7, <1>8
  <2>2. Len(r) \in Nat /\ Len(q) \in Nat
    BY <1>2
  <2> QED BY <1>1, <2>1, <2>2
<1>10. longest \in S
  <2>1. longest = CHOOSE l \in S : \A other_ \in S : Len(other_) <= Len(l)
    BY DEF LongestCommonPrefix, S
  <2> HIDE DEF longest
  <2> QED BY <1>7, <1>9, <2>1
<1>11. Shared(f, t) = Len(longest)
  BY DEF Shared
<1> HIDE DEF longest
<1>12. /\ Len(longest) \in Nat /\ Len(longest) <= Len(f) /\ Len(longest) <= Len(t)
       /\ SubSeq(f, 1, Len(longest)) = SubSeq(t, 1, Len(longest))
  BY <1>2, <1>10 DEF IsPrefix
<1> QED BY <1>1, <1>11, <1>12

\* The way up.
Up == ".."

\* k levels up.
Ups(k) == [i \in 1 .. k |-> Up]

\* A step up.
LEMMA UpFacts ==
  /\ Up \in Parts /\ Up # Blank
  /\ \A at \in Places : Stepped(at, Up) = IF at = <<>> THEN at ELSE Front(at)
BY DEF Up, Parts, Blank, Stepped

\* One level more is one part more.
LEMMA UpsOn ==
  ASSUME NEW k \in Nat, Ups(k) \in Seq(Parts)
  PROVE  Ups(k + 1) = Append(Ups(k), Up) /\ Ups(k + 1) \in Seq(Parts)
<1>1. Append([i \in 1 .. k |-> Up], Up) = [i \in 1 .. k + 1 |-> Up]
  OBVIOUS
<1>2. Append(Ups(k), Up) \in Seq(Parts)
  BY UpFacts, AppendProperties
<1> QED BY <1>1, <1>2 DEF Ups

\* Climbing up from where one is leads to the places on the way there.
LEMMA FromUps ==
  ASSUME NEW at \in Places, NEW k \in 0 .. Len(at)
  PROVE  /\ Ups(k) \in Seq(Parts)
         /\ From(at, Ups(k)) = SubSeq(at, 1, Len(at) - k)
<1> DEFINE T == {n \in Nat : n =< Len(at) => /\ Ups(n) \in Seq(Parts)
                                            /\ From(at, Ups(n)) = SubSeq(at, 1, Len(at) - n)}
<1>1. at \in Seq(Names) /\ Len(at) \in Nat
  BY DEF Places
<1>2. 0 \in T
  <2>1. Ups(0) = <<>> /\ <<>> \in Seq(Parts)
    BY DEF Ups
  <2>2. SubSeq(at, 1, Len(at) - 0) = at
    BY <1>1, SubSeqFull
  <2> QED BY <2>1, <2>2, FromProperties
<1>3. ASSUME NEW n \in T PROVE n + 1 \in T
  <2>1. n \in Nat /\ n + 1 \in Nat
    BY <1>3
  <2>2. SUFFICES ASSUME n + 1 =< Len(at)
                 PROVE  /\ Ups(n + 1) \in Seq(Parts)
                        /\ From(at, Ups(n + 1)) = SubSeq(at, 1, Len(at) - (n + 1))
    BY <2>1
  <2>3. n =< Len(at)
    BY <1>1, <2>1, <2>2
  <2>4. Ups(n) \in Seq(Parts) /\ From(at, Ups(n)) = SubSeq(at, 1, Len(at) - n)
    BY <1>3, <2>3
  <2>5. Ups(n + 1) = Append(Ups(n), Up) /\ Ups(n + 1) \in Seq(Parts) /\ Up \in Parts
    BY <2>1, <2>4, UpsOn, UpFacts
  <2>6. From(at, Ups(n + 1)) = Stepped(From(at, Ups(n)), Up)
    <3>1. From(at, Append(Ups(n), Up)) = Stepped(From(at, Ups(n)), Up)
      BY <2>4, <2>5, FromProperties
    <3> QED BY <2>5, <3>1
  <2> DEFINE m == Len(at) - n
             here == SubSeq(at, 1, m)
  <2>7. m \in 1 .. Len(at)
    BY <1>1, <2>1, <2>2
  <2>8. here # <<>> /\ Front(here) = SubSeq(at, 1, m - 1)
    <3>1. Len(here) = m /\ here \in Places
      BY <1>1, <2>7 DEF Places
    <3>2. SubSeq(here, 1, m - 1) = SubSeq(at, 1, m - 1)
      BY <1>1, <2>7
    <3> HIDE DEF here, m
    <3>3. here # <<>>
      BY <2>7, <3>1
    <3> QED BY <3>1, <3>2, <3>3 DEF Front
  <2>9. Stepped(here, Up) = Front(here)
    <3>1. here \in Places
      BY <1>1, <2>7 DEF Places
    <3> HIDE DEF here
    <3> QED BY <2>8, <3>1, UpFacts
  <2>10. m - 1 = Len(at) - (n + 1)
    BY <1>1, <2>1
  <2> QED BY <2>4, <2>5, <2>6, <2>8, <2>9, <2>10
<1> HIDE DEF T
<1>4. T \in SUBSET Nat
  BY DEF T
<1>5. T = Nat
  BY <1>2, <1>3, <1>4, NatSet
<1> QED BY <1>1, <1>5 DEF T

\* relative(from, to) leads from the one to the other.
LEMMA Relating ==
  ASSUME NEW from \in Seq(Parts), NEW to \in Seq(Parts)
  PROVE  Walk(Place(from), Relative(from, to)) = Place(to)
<1> DEFINE Trimmed(path) == LET parts == Tail(Resolve(<<path>>))
                            IN  IF parts = EmptyPath THEN <<>> ELSE parts
           f == Place(from)
           t == Place(to)
           same == Shared(f, t)
           ups == Ups(Len(f) - same)
           down == SubSeq(t, same + 1, Len(t))
           rel == Relative(from, to)
<1>1. EmptyPath = <<Blank>> /\ Blank \notin Names /\ Blank \in Idle /\ <<Blank>> \in Seq(Parts)
      /\ <<Blank>>[1] = Blank
  BY IdleParts, SingleSeq DEF Kept
<1>2. \A path \in Seq(Parts) : Trimmed(path) = Place(path) /\ Place(path) \in Places
  <2> SUFFICES ASSUME NEW path \in Seq(Parts)
               PROVE  Trimmed(path) = Place(path) /\ Place(path) \in Places
    OBVIOUS
  <2>1. Place(path) \in Places /\ Tail(Resolve(<<path>>)) = Joined(Place(path))
    BY ResolvedOne, WrittenLeads
  <2>2. Place(path) # <<Blank>>
    <3>1. \A q \in Seq(Names) : q # <<>> => q[1] \in Names
      OBVIOUS
    <3>2. <<Blank>> # <<>>
      OBVIOUS
    <3> QED BY <1>1, <2>1, <3>1, <3>2 DEF Places
  <2> QED BY <1>1, <2>1, <2>2 DEF Joined
<1>3. f \in Places /\ t \in Places /\ Trimmed(from) = f /\ Trimmed(to) = t
  BY <1>2
<1>4. rel = Joined([i \in 1 .. Len(Trimmed(from)) - Shared(Trimmed(from), Trimmed(to)) |-> ".."]
                   \o SubSeq(Trimmed(to), Shared(Trimmed(from), Trimmed(to)) + 1,
                             Len(Trimmed(to))))
  BY DEF Relative
<1> HIDE DEF Trimmed, rel, f, t
<1>5. rel = Joined(ups \o down)
  BY <1>3, <1>4 DEF Ups, Up
<1>6. /\ same \in 0 .. Len(f) /\ same \in 0 .. Len(t)
      /\ SubSeq(f, 1, same) = SubSeq(t, 1, same)
      /\ Len(f) \in Nat /\ Len(t) \in Nat
  BY <1>3, SharedParts DEF Places
<1> HIDE DEF same
<1>7. Len(f) - same \in 0 .. Len(f) /\ Len(f) - (Len(f) - same) = same
  BY <1>6
<1>8. ups \in Seq(Parts) /\ From(f, ups) = SubSeq(f, 1, same)
  BY <1>3, <1>7, FromUps
<1>9. down \in Places /\ SubSeq(t, 1, same) \o down = t /\ SubSeq(t, 1, same) \in Places
  <2>1. t \in Seq(Names)
    BY <1>3 DEF Places
  <2>2. down \in Seq(Names) /\ SubSeq(t, 1, same) \in Seq(Names)
    BY <1>6, <2>1
  <2>3. 1 \in 1 .. Len(t) + 1 /\ same \in 1 - 1 .. Len(t) /\ Len(t) \in same .. Len(t)
    BY <1>6
  <2>4. SubSeq(t, 1, same) \o SubSeq(t, same + 1, Len(t)) = SubSeq(t, 1, Len(t))
    BY <2>1, <2>3, ConcatAdjacentSubSeq
  <2>5. SubSeq(t, 1, Len(t)) = t
    BY <2>1, SubSeqFull
  <2> QED BY <2>2, <2>4, <2>5 DEF Places
<1> HIDE DEF down
<1>10. down \in Seq(Parts)
  BY <1>9, KeptParts DEF Places
<1>11. From(f, ups \o down) = t
  <2>1. From(f, ups \o down) = From(From(f, ups), down)
    BY <1>3, <1>8, <1>10, FromConcat
  <2>2. From(SubSeq(t, 1, same), down) = SubSeq(t, 1, same) \o down
    BY <1>9, FromNames
  <2> QED BY <1>6, <1>8, <1>9, <2>1, <2>2
<1>12. \A i \in 1 .. Len(ups) : ups[i] # Blank
  <2>1. \A k \in Nat : Len(Ups(k)) = k /\ \A i \in 1 .. k : Ups(k)[i] = Up
    BY DEF Ups
  <2>2. Len(f) - same \in Nat
    BY <1>6
  <2> QED BY <2>1, <2>2, UpFacts
<1> HIDE DEF ups
<1>13. rel = IF ups \o down = <<>> THEN <<Blank>> ELSE ups \o down
  BY <1>1, <1>5 DEF Joined
<1>14. IsAbsolute(rel) = FALSE
  <2>1. CASE ups \o down = <<>>
    <3>1. Len(<<Blank>>) = 1 /\ ~(1 > 1)
      BY IdleParts, SingleSeq
    <3> QED BY <1>13, <2>1, <3>1, AbsoluteIs
  <2>2. CASE ups \o down # <<>>
    <3>1. (ups \o down)[1] # Blank
      <4>1. CASE ups = <<>>
        <5>1. ups \o down = down /\ down # <<>>
          BY <1>10, <2>2, <4>1, ConcatEmptySeq
        <5>2. down[1] \in Names
          BY <1>9, <5>1, Bounds DEF Places
        <5> QED BY <1>1, <5>1, <5>2
      <4>2. CASE ups # <<>>
        <5>1. Len(ups) \in Nat /\ Len(ups) > 0 /\ Len(down) \in Nat
          BY <1>8, <1>10, <4>2, Bounds
        <5>2. (ups \o down)[1] = ups[1] /\ 1 \in 1 .. Len(ups)
          BY <1>8, <1>10, <5>1, ConcatProperties
        <5> QED BY <1>12, <5>2
      <4> QED BY <4>1, <4>2
    <3> QED BY <1>13, <2>2, <3>1, AbsoluteIs
  <2> QED BY <2>1, <2>2
<1>15. From(f, rel) = t
  <2>1. CASE ups \o down = <<>>
    <3>1. From(f, <<Blank>>) = f /\ From(f, <<>>) = f
      BY <1>1, <1>3, FromBlank, FromProperties
    <3> QED BY <1>11, <1>13, <2>1, <3>1
  <2>2. CASE ups \o down # <<>>
    BY <1>11, <1>13, <2>2
  <2> QED BY <2>1, <2>2
<1>16. Walk(f, rel) = From(f, rel)
  BY <1>14, WalkFrom
<1> QED BY <1>15, <1>16 DEF f, t, rel

-----------------------------------------------------------------------------
(* The properties.                                                         *)

\* Both inputs are paths of at most MaxParts parts.
PathInv == one \in Paths /\ other \in Paths

\* The bound is a number.
LEMMA MaxPartsType == MaxParts \in Nat
BY PathAssumption

\* Paths are nonempty sequences of parts.
LEMMA PathsAreSequences ==
  ASSUME NEW path \in Paths
  PROVE  path \in Seq(Parts) /\ path # <<>>
<1>1. PICK n \in 1 .. MaxParts : path \in [1 .. n -> Parts]
  BY DEF Paths
<1>2. n \in Nat /\ n > 0
  BY MaxPartsType
<1> QED BY <1>1, <1>2

\* The inputs stay what they are.
THEOREM PathsStay == PathSpec => []PathInv
<1>1. PathInit => PathInv
  BY DEF PathInit, PathInv
<1>2. PathInv /\ [PathNext]_pathVars => PathInv'
  BY DEF PathInv, PathNext, pathVars
<1> QED BY <1>1, <1>2, PTL DEF PathSpec

\* For all pairs of paths, resolve() names the place they lead to in turn, and
\* relative() leads from the one's place to the other's.
THEOREM PathsAlwaysLead == PathSpec => []PathsLead
<1>1. PathInv => PathsLead
  <2> SUFFICES ASSUME PathInv PROVE PathsLead
    OBVIOUS
  <2>1. one \in Seq(Parts) /\ other \in Seq(Parts)
    BY PathsAreSequences DEF PathInv
  <2>2. /\ Resolve(<<one, other>>) = Written(Walk(Place(one), other))
        /\ Walk(Place(one), other) \in Places
    BY <2>1, ResolvedTwo
  <2>3. Place(Written(Walk(Place(one), other))) = Walk(Place(one), other)
    BY <2>2, WrittenLeads
  <2>4. Walk(Place(one), Relative(one, other)) = Place(other)
    BY <2>1, Relating
  <2> QED BY <2>2, <2>3, <2>4 DEF PathsLead, Written, Blank
<1> QED BY <1>1, PathsStay, PTL

\* For all paths, normalize(), join(), dirname() and basename() keep what they mean;
\* normalising twice is normalising once.
THEOREM RewritingAlwaysKeepsMeaning == PathSpec => []RewritingKeepsMeaning
<1>1. PathInv => RewritingKeepsMeaning
  <2> SUFFICES ASSUME PathInv PROVE RewritingKeepsMeaning
    OBVIOUS
  <2>1. /\ one \in Seq(Parts) /\ one # <<>> /\ other \in Seq(Parts) /\ other # <<>>
    BY PathsAreSequences DEF PathInv
  <2>3. ASSUME NEW place \in Places
        PROVE  /\ Walk(place, Normalize(one)) = Walk(place, one)
               /\ Normalize(Normalize(one)) = Normalize(one)
               /\ IsAbsolute(Normalize(one)) = IsAbsolute(one)
               /\ Walk(place, Join(<<Dirname(one), Basename(one)>>)) = Walk(place, one)
               /\ ~IsAbsolute(other) =>
                    Walk(place, Join(<<one, other>>)) = Walk(Walk(place, one), other)
    <3>1. ~IsAbsolute(other) =>
            Walk(place, Join(<<one, other>>)) = Walk(Walk(place, one), other)
      BY <2>1, Joining
    <3>2. Walk(place, Join(<<Dirname(one), Basename(one)>>)) = Walk(place, one)
      BY <2>1, JoiningSplit
    <3> QED BY <2>1, <3>1, <3>2, Normalizing
  <2>4. ASSUME NEW place \in {[i \in 1 .. n |-> name] : n \in 0 .. MaxParts, name \in Names}
        PROVE  place \in Places
    <3>1. PICK n \in 0 .. MaxParts, name \in Names : place = [i \in 1 .. n |-> name]
      OBVIOUS
    <3>2. n \in Nat
      BY MaxPartsType
    <3> QED BY <3>1, <3>2 DEF Places
  <2> QED BY <2>3, <2>4 DEF RewritingKeepsMeaning
<1> QED BY <1>1, PathsStay, PTL
=============================================================================
