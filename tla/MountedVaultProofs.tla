------------------------- MODULE MountedVaultProofs -------------------------
(***************************************************************************)
(* What the namespace of a router is, for every table the loader accepts,  *)
(* whatever its mounts hold and whichever of them fail.                    *)
(***************************************************************************)
EXTENDS MountedVault, SequenceTheorems, FiniteSetTheorems, TLAPS

\* What the mounts hold are paths.
AreHeld(table, held, Name) == \A i \in DOMAIN table : held[i] \subseteq Seq(Name)

----------------------------------------------------------------------------
(* Prefixes.                                                               *)

LEMMA LeastNatural ==
  ASSUME NEW T, T \subseteq Nat, T # {}
  PROVE  \E x \in T : \A y \in T : x <= y
<1> DEFINE R == {ss \in Nat \X Nat : ss[1] < ss[2]}
<1>1. IsWellFoundedOn(R, Nat)
  BY NatLessThanWellFounded DEF OpToRel
<1> HIDE DEF R
<1>2. PICK x \in T : \A y \in T : ~(<<y, x>> \in R)
  BY <1>1, WFMin
<1>3. SUFFICES ASSUME NEW y \in T, ~(x <= y) PROVE FALSE
  BY <1>2
<1>4. <<y, x>> \in R
  <2>1. x \in Nat /\ y \in Nat
    OBVIOUS
  <2>2. y < x
    BY <1>3, <2>1
  <2> QED BY <2>1, <2>2 DEF R
<1> QED BY <1>2, <1>4

LEMMA PrefixesAreComparable ==
  ASSUME NEW Name, NEW a \in Seq(Name), NEW b \in Seq(Name), NEW path \in Seq(Name),
         Contains(a, path), Contains(b, path), Len(a) <= Len(b)
  PROVE  Contains(a, b)
<1>1. \A k \in 1 .. Len(a) : k \in 1 .. Len(b)
  OBVIOUS
<1> QED BY <1>1 DEF Contains

LEMMA PrefixesOfOneLength ==
  ASSUME NEW Name, NEW a \in Seq(Name), NEW b \in Seq(Name), NEW path \in Seq(Name),
         Contains(a, path), Contains(b, path), Len(a) = Len(b)
  PROVE  a = b
<1>1. \A k \in 1 .. Len(a) : a[k] = b[k]
  BY DEF Contains
<1> QED BY <1>1

LEMMA ContainsTransitively ==
  ASSUME NEW Name, NEW a \in Seq(Name), NEW b \in Seq(Name), NEW path \in Seq(Name),
         Contains(a, b), Contains(b, path)
  PROVE  Contains(a, path)
<1>1. \A k \in 1 .. Len(a) : k \in 1 .. Len(b)
  BY DEF Contains
<1> QED BY <1>1 DEF Contains

LEMMA ContainsWhatIsBelow ==
  ASSUME NEW Name, NEW a \in Seq(Name), NEW rest \in Seq(Name)
  PROVE  a \o rest \in Seq(Name) /\ Len(a \o rest) = Len(a) + Len(rest) /\ Contains(a, a \o rest)
<1>1. a \o rest \in Seq(Name) /\ Len(a \o rest) = Len(a) + Len(rest)
  OBVIOUS
<1>2. \A k \in 1 .. Len(a) : (a \o rest)[k] = a[k]
  OBVIOUS
<1> QED BY <1>1, <1>2 DEF Contains

LEMMA Split ==
  ASSUME NEW Name, NEW a \in Seq(Name), NEW path \in Seq(Name), Contains(a, path)
  PROVE  /\ SubSeq(path, Len(a) + 1, Len(path)) \in Seq(Name)
         /\ a \o SubSeq(path, Len(a) + 1, Len(path)) = path
<1>1. Len(a) \in Nat /\ Len(path) \in Nat /\ Len(a) <= Len(path)
  BY LenProperties DEF Contains
<1>2. \A k \in 1 .. Len(path) : path[k] \in Name
  BY ElementOfSeq
<1>3. /\ SubSeq(path, 1, Len(a)) \in Seq(Name)
      /\ Len(SubSeq(path, 1, Len(a))) = Len(a)
      /\ \A k \in 1 .. Len(a) : SubSeq(path, 1, Len(a))[k] = path[k]
  <2>1. \A k \in 1 .. Len(a) : path[k] \in Name
    BY <1>1, <1>2
  <2>2. /\ SubSeq(path, 1, Len(a)) \in Seq(Name)
        /\ Len(SubSeq(path, 1, Len(a))) = IF 1 <= Len(a) THEN Len(a) - 1 + 1 ELSE 0
        /\ \A k \in 1 .. Len(a) - 1 + 1 : SubSeq(path, 1, Len(a))[k] = path[1 + k - 1]
    BY <1>1, <2>1, SubSeqProperties
  <2> QED BY <1>1, <2>2
<1>4. SubSeq(path, 1, Len(a)) = a
  <2>1. \A k \in 1 .. Len(SubSeq(path, 1, Len(a))) : SubSeq(path, 1, Len(a))[k] = a[k]
    BY <1>3 DEF Contains
  <2> QED BY <1>3, <2>1, SeqEqual
<1>5. SubSeq(path, Len(a) + 1, Len(path)) \in Seq(Name)
  <2>1. \A k \in Len(a) + 1 .. Len(path) : path[k] \in Name
    BY <1>1, <1>2
  <2> QED BY <1>1, <2>1, SubSeqProperties
<1>6. SubSeq(path, 1, Len(a)) \o SubSeq(path, Len(a) + 1, Len(path)) = SubSeq(path, 1, Len(path))
  <2>1. 1 \in 1 .. Len(path) + 1 /\ Len(a) \in 1 - 1 .. Len(path) /\ Len(path) \in Len(a) .. Len(path)
    BY <1>1
  <2> QED BY <2>1, ConcatAdjacentSubSeq
<1>7. SubSeq(path, 1, Len(path)) = path
  BY SubSeqFull
<1> QED BY <1>4, <1>5, <1>6, <1>7

LEMMA RoundTrip ==
  ASSUME NEW Name, NEW mount, mount.at \in Seq(Name), NEW path \in Seq(Name), Contains(mount.at, path)
  PROVE  Relative(mount, path) \in Seq(Name) /\ Logical(mount, Relative(mount, path)) = path
BY Split DEF Relative, Logical

LEMMA RoundTripBack ==
  ASSUME NEW Name, NEW mount, mount.at \in Seq(Name), NEW rest \in Seq(Name)
  PROVE  Relative(mount, Logical(mount, rest)) = rest
<1>1. mount.at \o rest \in Seq(Name) /\ Contains(mount.at, mount.at \o rest)
  BY ContainsWhatIsBelow
<1>2. /\ Relative(mount, mount.at \o rest) \in Seq(Name)
      /\ mount.at \o Relative(mount, mount.at \o rest) = mount.at \o rest
  BY <1>1, RoundTrip DEF Logical
<1>3. \A s, t, v \in Seq(Name) : s \o t = s \o v => t = v
  BY ConcatSimplifications
<1> QED BY <1>2, <1>3 DEF Logical

----------------------------------------------------------------------------
(* Owners.                                                                 *)

\* Every path has an owner, and one only (router.rs:366).
THEOREM EveryPathIsOwned ==
  ASSUME NEW Name, NEW table, IsTable(table, Name), NEW path \in Seq(Name)
  PROVE  /\ Owner(table, path) \in DOMAIN table
         /\ IsOwner(table, path, Owner(table, path))
         /\ \A i \in DOMAIN table : IsOwner(table, path, i) => i = Owner(table, path)
<1> DEFINE Spare(i) == Len(path) - Len(table[i].at)
           T == {Spare(i) : i \in Serving(table, path)}
<1>1. \A i \in Serving(table, path) :
        i \in DOMAIN table /\ table[i].at \in Seq(Name) /\ Spare(i) \in Nat /\ Contains(table[i].at, path)
  BY LenProperties DEF Serving, Contains, IsTable
<1>2. T # {} /\ T \subseteq Nat
  <2>1. PICK i \in DOMAIN table : table[i].at = <<>>
    BY DEF IsTable
  <2>2. Contains(<<>>, path)
    BY LenProperties, EmptySeq DEF Contains
  <2>3. i \in Serving(table, path)
    BY <2>1, <2>2 DEF Serving
  <2> QED BY <1>1, <2>3
<1>3. PICK least \in T : \A y \in T : least <= y
  BY <1>2, LeastNatural
<1>4. PICK i \in Serving(table, path) : least = Spare(i)
  OBVIOUS
<1>5. IsOwner(table, path, i)
  <2>1. \A j \in Serving(table, path) : Spare(i) <= Spare(j)
    BY <1>3, <1>4
  <2>2. \A j \in Serving(table, path) : Len(table[j].at) <= Len(table[i].at)
    BY <1>1, <2>1, LenProperties
  <2> QED BY <2>2 DEF IsOwner
<1>6. \A j, k \in DOMAIN table : IsOwner(table, path, j) /\ IsOwner(table, path, k) => j = k
  <2> SUFFICES ASSUME NEW j \in DOMAIN table, NEW k \in DOMAIN table,
                      IsOwner(table, path, j), IsOwner(table, path, k)
               PROVE  j = k
    OBVIOUS
  <2>1. j \in Serving(table, path) /\ k \in Serving(table, path)
    BY DEF IsOwner
  <2>2. Len(table[j].at) = Len(table[k].at)
    BY <1>1, <2>1, LenProperties DEF IsOwner
  <2>3. table[j].at = table[k].at
    BY <1>1, <2>1, <2>2, PrefixesOfOneLength
  <2> QED BY <2>3 DEF IsTable
<1>7. i \in DOMAIN table
  BY <1>1
<1>8. Owner(table, path) \in DOMAIN table /\ IsOwner(table, path, Owner(table, path))
  BY <1>5, <1>7 DEF Owner
<1> QED BY <1>6, <1>8

LEMMA OwnerServes ==
  ASSUME NEW Name, NEW table, IsTable(table, Name), NEW path \in Seq(Name)
  PROVE  /\ Owner(table, path) \in DOMAIN table
         /\ table[Owner(table, path)].at \in Seq(Name)
         /\ Contains(table[Owner(table, path)].at, path)
         /\ \A j \in DOMAIN table : Contains(table[j].at, path) =>
              Len(table[j].at) <= Len(table[Owner(table, path)].at)
BY EveryPathIsOwned DEF IsOwner, Serving, IsTable

\* A note a mount holds is found by a read of its logical path, if the mount is
\* the longest that contains it.
LEMMA HeldIsFound ==
  ASSUME NEW Name, NEW table, IsTable(table, Name), NEW held, AreHeld(table, held, Name),
         NEW i \in DOMAIN table, NEW n \in held[i],
         \A j \in DOMAIN table : Contains(table[j].at, Logical(table[i], n)) =>
           Len(table[j].at) <= Len(table[i].at)
  PROVE  Found(table, held, Logical(table[i], n))
<1> DEFINE path == Logical(table[i], n)
<1>1. table[i].at \in Seq(Name) /\ n \in Seq(Name)
  BY DEF IsTable, AreHeld
<1>2. path \in Seq(Name) /\ Contains(table[i].at, path)
  BY <1>1, ContainsWhatIsBelow DEF Logical
<1>3. IsOwner(table, path, i)
  BY <1>2 DEF IsOwner, Serving
<1>4. Owner(table, path) = i
  BY <1>2, <1>3, EveryPathIsOwned
<1>5. Relative(table[i], path) = n
  BY <1>1, RoundTripBack
<1> QED BY <1>4, <1>5 DEF Found

LEMMA OneMore ==
  \A a, b \in Nat : a + (b + 1) = (a + b) + 1
OBVIOUS

LEMMA ContainsTogether ==
  ASSUME NEW Name, NEW a \in Seq(Name), NEW b \in Seq(Name), NEW c \in Seq(Name), Contains(b, c)
  PROVE  Contains(a \o b, a \o c)
<1>1. /\ Len(a) \in Nat /\ Len(b) \in Nat /\ Len(c) \in Nat /\ Len(b) <= Len(c)
      /\ Len(a \o b) = Len(a) + Len(b) /\ Len(a \o c) = Len(a) + Len(c)
  BY LenProperties, ConcatProperties DEF Contains
<1>2. \A k \in 1 .. Len(a) + Len(b) : (a \o b)[k] = IF k <= Len(a) THEN a[k] ELSE b[k - Len(a)]
  BY ConcatProperties
<1>3. \A k \in 1 .. Len(a) + Len(c) : (a \o c)[k] = IF k <= Len(a) THEN a[k] ELSE c[k - Len(a)]
  BY ConcatProperties
<1>4. ASSUME NEW k \in 1 .. Len(a) + Len(b) PROVE (a \o b)[k] = (a \o c)[k]
  <2>1. k \in 1 .. Len(a) + Len(c)
    BY <1>1
  <2>2. ~(k <= Len(a)) => k - Len(a) \in 1 .. Len(b)
    BY <1>1
  <2>3. ~(k <= Len(a)) => b[k - Len(a)] = c[k - Len(a)]
    BY <2>2 DEF Contains
  <2> QED BY <1>2, <1>3, <2>1, <2>3
<1> QED BY <1>1, <1>4 DEF Contains

----------------------------------------------------------------------------
(* Listings and greps show what a read finds.                              *)

\* A note that a listing shows is the one a read of its path finds: what a mount
\* below shadows is not shown, whichever mounts fail (router.rs:676).
THEOREM ListedIsFound ==
  ASSUME NEW Name, NEW table, IsTable(table, Name), NEW held, AreHeld(table, held, Name),
         NEW down, NEW folder \in Seq(Name),
         NEW note \in ChildListing(table, held, down, folder).notes
  PROVE  Found(table, held, note)
<1> DEFINE i == Owner(table, folder)
           rel == Relative(table[i], folder)
           own == IF i \in down THEN Failed ELSE OwnChildren(table[i], held[i], rel)
<1>1. /\ i \in DOMAIN table /\ table[i].at \in Seq(Name) /\ Contains(table[i].at, folder)
      /\ \A j \in DOMAIN table : Contains(table[j].at, folder) => Len(table[j].at) <= Len(table[i].at)
  BY OwnerServes
<1>2. rel \in Seq(Name) /\ table[i].at \o rel = folder
  BY <1>1, RoundTrip DEF Logical
<1>3. PICK n \in own.notes : note = Logical(table[i], n) /\ note \notin Synthesized(table, folder)
  <2>1. CASE ~own.ok /\ Synthesized(table, folder) = {}
    BY <2>1 DEF ChildListing, Failed
  <2>2. CASE ~(~own.ok /\ Synthesized(table, folder) = {})
    BY <2>2 DEF ChildListing, Listed
  <2> QED BY <2>1, <2>2
<1>4. n \in held[i] /\ Contains(rel, n) /\ Len(n) = Len(rel) + 1
  BY <1>3 DEF OwnChildren, Failed, Listed
<1>5. n \in Seq(Name)
  BY <1>1, <1>4 DEF AreHeld
<1>6. /\ note \in Seq(Name) /\ Len(note) = Len(table[i].at) + Len(n)
      /\ Len(folder) = Len(table[i].at) + Len(rel)
  BY <1>1, <1>2, <1>3, <1>5, ContainsWhatIsBelow DEF Logical
<1>7. Contains(folder, note)
  BY <1>1, <1>2, <1>3, <1>4, <1>5, ContainsTogether DEF Logical
<1>8. ASSUME NEW j \in DOMAIN table, Contains(table[j].at, note)
      PROVE  Len(table[j].at) <= Len(table[i].at)
  <2> table[j].at \in Seq(Name)
    BY DEF IsTable
  <2>1. CASE Len(table[j].at) <= Len(folder)
    BY <1>1, <1>6, <1>7, <1>8, <2>1, PrefixesAreComparable
  <2>2. CASE ~(Len(table[j].at) <= Len(folder))
    <3>1. Len(table[j].at) = Len(note) /\ Len(note) = Len(folder) + 1
      <4>1. Len(table[j].at) <= Len(note)
        BY <1>8 DEF Contains
      <4>2. /\ Len(table[i].at) \in Nat /\ Len(rel) \in Nat /\ Len(n) \in Nat
            /\ Len(table[j].at) \in Nat
        BY <1>1, <1>2, <1>5, LenProperties
      <4>3. Len(note) = Len(folder) + 1
        <5>1. Len(n) = Len(rel) + 1
          BY <1>4
        <5>2. Len(note) = Len(table[i].at) + (Len(rel) + 1)
          BY <1>6, <5>1
        <5>3. Len(folder) = Len(table[i].at) + Len(rel)
          BY <1>6
        <5> QED BY <4>2, <5>2, <5>3, OneMore, Zenon
      <4>4. Len(folder) \in Nat /\ Len(note) \in Nat
        BY <1>6, LenProperties
      <4> QED BY <2>2, <4>1, <4>2, <4>3, <4>4
    <3>2. Contains(note, note)
      BY <1>6, LenProperties DEF Contains
    <3>3. table[j].at = note
      BY <1>6, <1>8, <3>1, <3>2, PrefixesOfOneLength
    <3>4. Upto(table[j].at, Len(folder) + 1) = table[j].at
      BY <3>1, <3>3, SubSeqFull DEF Upto
    <3>5. table[j].at # folder
      BY <3>1, <3>3, LenProperties
    <3>6. note \in Synthesized(table, folder)
      BY <1>7, <3>3, <3>4, <3>5 DEF Synthesized
    <3> QED BY <1>3, <3>6
  <2> QED BY <2>1, <2>2
<1> QED BY <1>1, <1>3, <1>4, <1>8, HeldIsFound

\* A note that a grep of a folder shows is the one a read of its path finds, and
\* in that folder: a scope with a second mount in it is refused (router.rs:861).
THEOREM GrepedIsFound ==
  ASSUME NEW Name, NEW table, IsTable(table, Name), NEW held, AreHeld(table, held, Name),
         NEW down, NEW anchored, NEW prefix \in Seq(Name), NEW deep \in BOOLEAN,
         NEW note \in ScopedGrep(table, held, down, anchored, prefix, deep).notes
  PROVE  Found(table, held, note) /\ Contains(prefix, note)
<1> DEFINE i == Owner(table, prefix)
           rel == Relative(table[i], prefix)
<1>1. /\ i \in DOMAIN table /\ table[i].at \in Seq(Name) /\ Contains(table[i].at, prefix)
      /\ \A j \in DOMAIN table : Contains(table[j].at, prefix) => Len(table[j].at) <= Len(table[i].at)
  BY OwnerServes
<1>2. rel \in Seq(Name) /\ table[i].at \o rel = prefix
  BY <1>1, RoundTrip DEF Logical
<1>3. ~ContainsOther(table, i, prefix)
  BY DEF ScopedGrep, Failed
<1>4. PICK n \in Matches(table[i], held[i], rel, deep, i \in anchored) : note = Logical(table[i], n)
  BY <1>3 DEF ScopedGrep, Failed, Listed
<1>5. n \in held[i] /\ n \in Seq(Name)
  BY <1>1, <1>4 DEF Matches, AreHeld
<1>6. Contains(rel, n)
  <2>1. CASE rel = <<>>
    BY <1>5, <2>1, LenProperties, EmptySeq DEF Contains
  <2>2. CASE rel # <<>>
    BY <1>4, <2>2 DEF Matches
  <2> QED BY <2>1, <2>2
<1>7. note \in Seq(Name) /\ Contains(prefix, note)
  <2>1. note = table[i].at \o n
    BY <1>4 DEF Logical
  <2>2. note \in Seq(Name)
    BY <1>1, <1>5, <2>1, ContainsWhatIsBelow
  <2> QED BY <1>1, <1>2, <1>5, <1>6, <2>1, <2>2, ContainsTogether
<1>8. ASSUME NEW j \in DOMAIN table, Contains(table[j].at, note)
      PROVE  Len(table[j].at) <= Len(table[i].at)
  <2> table[j].at \in Seq(Name)
    BY DEF IsTable
  <2>1. CASE Len(table[j].at) <= Len(prefix)
    BY <1>1, <1>7, <1>8, <2>1, PrefixesAreComparable
  <2>2. CASE ~(Len(table[j].at) <= Len(prefix))
    <3>1. Contains(prefix, table[j].at)
      BY <1>7, <1>8, <2>2, PrefixesAreComparable, LenProperties
    <3>2. table[j].id = table[i].id
      BY <1>3, <3>1 DEF ContainsOther
    <3>3. j = i
      BY <1>1, <3>2 DEF IsTable
    <3> QED BY <1>1, <3>3, LenProperties
  <2> QED BY <2>1, <2>2
<1> QED BY <1>1, <1>4, <1>5, <1>7, <1>8, HeldIsFound

\* A walk that does not fail names every note that a read finds (router.rs:796).
THEOREM WalkMissesNothing ==
  ASSUME NEW Name, NEW table, IsTable(table, Name), NEW held, NEW down,
         NEW path \in Seq(Name), Found(table, held, path), WalkMarkdown(table, held, down).ok
  PROVE  path \in WalkMarkdown(table, held, down).notes
<1> DEFINE i == Owner(table, path)
<1>1. i \in DOMAIN table /\ table[i].at \in Seq(Name) /\ Contains(table[i].at, path)
  BY OwnerServes
<1>2. Logical(table[i], Relative(table[i], path)) = path
  BY <1>1, RoundTrip
<1>3. Relative(table[i], path) \in held[i]
  BY DEF Found
<1>4. path \in UNION {{Logical(table[k], n) : n \in held[k]} : k \in DOMAIN table}
  BY <1>1, <1>2, <1>3
<1> QED BY <1>4 DEF WalkMarkdown, Failed, Listed

----------------------------------------------------------------------------
(* Listings in logical paths.                                              *)

LEMMA Beginnings ==
  ASSUME NEW Name, NEW path \in Seq(Name), NEW k \in 0 .. Len(path)
  PROVE  /\ Upto(path, k) \in Seq(Name) /\ Len(Upto(path, k)) = k
         /\ Contains(Upto(path, k), path)
         /\ \A a \in Seq(Name) : Contains(a, path) /\ Len(a) = k => a = Upto(path, k)
<1>1. Len(path) \in Nat /\ k \in Nat /\ k <= Len(path)
  BY LenProperties
<1>2. \A x \in 1 .. k : path[x] \in Name
  BY <1>1, ElementOfSeq
<1>3. /\ SubSeq(path, 1, k) \in Seq(Name)
      /\ Len(SubSeq(path, 1, k)) = IF 1 <= k THEN k - 1 + 1 ELSE 0
      /\ \A x \in 1 .. k - 1 + 1 : SubSeq(path, 1, k)[x] = path[1 + x - 1]
  BY <1>1, <1>2, SubSeqProperties
<1>4. /\ Upto(path, k) \in Seq(Name) /\ Len(Upto(path, k)) = k
      /\ \A x \in 1 .. k : Upto(path, k)[x] = path[x]
  BY <1>1, <1>3 DEF Upto
<1>5. Contains(Upto(path, k), path)
  BY <1>1, <1>4 DEF Contains
<1> QED BY <1>4, <1>5, PrefixesOfOneLength

LEMMA ContainsItself ==
  ASSUME NEW Name, NEW path \in Seq(Name)
  PROVE  Contains(path, path) /\ Contains(<<>>, path)
BY LenProperties, EmptySeq DEF Contains

\* Of two folders of a path the longer is in the shorter.
LEMMA Nested ==
  ASSUME NEW Name, NEW path \in Seq(Name), NEW k \in 0 .. Len(path), NEW l \in 0 .. k
  PROVE  Upto(Upto(path, k), l) = Upto(path, l) /\ Contains(Upto(path, l), Upto(path, k))
<1>1. l \in 0 .. Len(path)
  BY LenProperties
<1>2. /\ Upto(path, k) \in Seq(Name) /\ Len(Upto(path, k)) = k /\ Contains(Upto(path, k), path)
      /\ Upto(path, l) \in Seq(Name) /\ Len(Upto(path, l)) = l /\ Contains(Upto(path, l), path)
  BY <1>1, Beginnings
<1>3. Contains(Upto(path, l), Upto(path, k))
  BY <1>2, PrefixesAreComparable
<1>4. l \in 0 .. Len(Upto(path, k))
  BY <1>2
<1>5. Upto(path, l) = Upto(Upto(path, k), l)
  BY <1>2, <1>3, <1>4, Beginnings
<1> QED BY <1>3, <1>5

\* What is below a folder within a mount is below it in the namespace.
LEMMA ContainsApart ==
  ASSUME NEW Name, NEW a \in Seq(Name), NEW b \in Seq(Name), NEW c \in Seq(Name), Contains(a \o b, a \o c)
  PROVE  Contains(b, c)
<1>1. /\ Len(a) \in Nat /\ Len(b) \in Nat /\ Len(c) \in Nat
      /\ Len(a \o b) = Len(a) + Len(b) /\ Len(a \o c) = Len(a) + Len(c)
  BY LenProperties, ConcatProperties
<1>2. Len(b) <= Len(c)
  BY <1>1 DEF Contains
<1>3. \A k \in 1 .. Len(a) + Len(b) : (a \o b)[k] = IF k <= Len(a) THEN a[k] ELSE b[k - Len(a)]
  BY ConcatProperties
<1>4. \A k \in 1 .. Len(a) + Len(c) : (a \o c)[k] = IF k <= Len(a) THEN a[k] ELSE c[k - Len(a)]
  BY ConcatProperties
<1>5. ASSUME NEW k \in 1 .. Len(b) PROVE b[k] = c[k]
  <2>1. /\ Len(a) + k \in 1 .. Len(a) + Len(b) /\ Len(a) + k \in 1 .. Len(a) + Len(c)
        /\ ~(Len(a) + k <= Len(a)) /\ Len(a) + k - Len(a) = k
    BY <1>1, <1>2
  <2>2. (a \o b)[Len(a) + k] = b[k] /\ (a \o c)[Len(a) + k] = c[k]
    BY <1>3, <1>4, <2>1
  <2>3. (a \o b)[Len(a) + k] = (a \o c)[Len(a) + k]
    BY <1>1, <2>1 DEF Contains
  <2> QED BY <2>2, <2>3
<1> QED BY <1>2, <1>5 DEF Contains

\* The logical paths of what a mount holds.
Mounted(table, held, i) == {Logical(table[i], n) : n \in held[i]}

\* A note of a mount, and a folder that the mount contains.
LEMMA InsideMount ==
  ASSUME NEW Name, NEW mount, mount.at \in Seq(Name),
         NEW folder \in Seq(Name), Contains(mount.at, folder), NEW n \in Seq(Name)
  PROVE  LET rel == Relative(mount, folder)
             p == Logical(mount, n)
         IN  /\ rel \in Seq(Name) /\ p \in Seq(Name)
             /\ Len(rel) \in Nat /\ Len(n) \in Nat /\ Len(p) \in Nat /\ Len(folder) \in Nat
             /\ Contains(rel, n) <=> Contains(folder, p)
             /\ Len(n) = Len(rel) + 1 <=> Len(p) = Len(folder) + 1
             /\ Len(n) > Len(rel) + 1 <=> Len(p) > Len(folder) + 1
             /\ n = rel <=> p = folder
             /\ Contains(rel, n) /\ Len(n) > Len(rel) + 1 =>
                  Logical(mount, Upto(n, Len(rel) + 1)) = Upto(p, Len(folder) + 1)
<1> DEFINE rel == Relative(mount, folder)
           p == Logical(mount, n)
<1>1. rel \in Seq(Name) /\ folder = mount.at \o rel
  BY RoundTrip DEF Logical
<1>2. p = mount.at \o n /\ p \in Seq(Name)
  BY ContainsWhatIsBelow DEF Logical
<1>3. /\ Len(rel) \in Nat /\ Len(n) \in Nat /\ Len(mount.at) \in Nat
      /\ Len(p) = Len(mount.at) + Len(n) /\ Len(folder) = Len(mount.at) + Len(rel)
  BY <1>1, <1>2, LenProperties, ConcatProperties
<1> HIDE DEF rel, p
<1>4. Contains(rel, n) <=> Contains(folder, p)
  BY <1>1, <1>2, ContainsTogether, ContainsApart
<1>5. /\ Len(n) = Len(rel) + 1 <=> Len(p) = Len(folder) + 1
      /\ Len(n) > Len(rel) + 1 <=> Len(p) > Len(folder) + 1
      /\ Len(p) \in Nat /\ Len(folder) \in Nat
  <2>1. PICK x, y, z \in Nat : x = Len(mount.at) /\ y = Len(n) /\ z = Len(rel)
    BY <1>3
  <2>2. PICK u, v : u = Len(p) /\ v = Len(folder)
    OBVIOUS
  <2>3. u = x + y /\ v = x + z
    BY <1>3, <2>1, <2>2
  <2>4. y = z + 1 <=> u = v + 1
    BY <2>3
  <2>5. y > z + 1 <=> u > v + 1
    BY <2>3
  <2>6. u \in Nat /\ v \in Nat
    BY <2>3
  <2> QED BY <2>1, <2>2, <2>4, <2>5, <2>6, Zenon
<1>6. n = rel <=> p = folder
  <2>1. \A s, t, v \in Seq(Name) : s \o t = s \o v => t = v
    BY ConcatSimplifications
  <2> QED BY <1>1, <1>2, <2>1
<1>7. ASSUME Contains(rel, n), Len(n) > Len(rel) + 1
      PROVE  Logical(mount, Upto(n, Len(rel) + 1)) = Upto(p, Len(folder) + 1)
  <2>1. Len(rel) + 1 \in 0 .. Len(n) /\ Len(folder) + 1 \in 0 .. Len(p)
    BY <1>3, <1>7
  <2>2. /\ Upto(n, Len(rel) + 1) \in Seq(Name) /\ Len(Upto(n, Len(rel) + 1)) = Len(rel) + 1
        /\ Contains(Upto(n, Len(rel) + 1), n)
    BY <2>1, Beginnings
  <2> DEFINE q == mount.at \o Upto(n, Len(rel) + 1)
  <2>3. q \in Seq(Name) /\ Len(q) = Len(mount.at) + Len(Upto(n, Len(rel) + 1)) /\ Contains(q, p)
    <3>1. q \in Seq(Name) /\ Len(q) = Len(mount.at) + Len(Upto(n, Len(rel) + 1))
      BY <2>2, ConcatProperties
    <3>2. Contains(q, p)
      BY <1>2, <2>2, ContainsTogether
    <3> QED BY <3>1, <3>2
  <2> HIDE DEF q
  <2>4. Len(q) = Len(folder) + 1
    <3>1. Len(q) = Len(mount.at) + (Len(rel) + 1)
      BY <2>2, <2>3
    <3>2. \A x, y : x \in Nat /\ y \in Nat => x + (y + 1) = (x + y) + 1
      OBVIOUS
    <3>3. Len(mount.at) + (Len(rel) + 1) = (Len(mount.at) + Len(rel)) + 1
      BY <1>3, <3>2, Zenon
    <3> QED BY <1>3, <3>1, <3>3, Zenon
  <2>5. q = Upto(p, Len(folder) + 1)
    <3>1. PICK k : k = Len(folder) + 1
      OBVIOUS
    <3>2. k \in 0 .. Len(p) /\ Len(q) = k
      BY <2>1, <2>4, <3>1
    <3>3. p \in Seq(Name) /\ q \in Seq(Name) /\ Contains(q, p)
      BY <1>2, <2>3
    <3>4. \A a \in Seq(Name) : Contains(a, p) /\ Len(a) = k => a = Upto(p, k)
      BY <3>2, <3>3, Beginnings, Zenon
    <3>5. q = Upto(p, k)
      BY <3>2, <3>3, <3>4, Zenon
    <3> QED BY <3>1, <3>5
  <2> QED BY <2>5 DEF q, Logical
<1> QED BY <1>1, <1>2, <1>3, <1>4, <1>5, <1>6, <1>7 DEF rel, p

\* Where a listing grafts: folders that lead to a mount.
LEMMA Grafts ==
  ASSUME NEW Name, NEW table, IsTable(table, Name), NEW folder \in Seq(Name), NEW g
  PROVE  g \in Synthesized(table, folder) <=>
           \E j \in DOMAIN table : /\ Contains(folder, table[j].at) /\ Len(table[j].at) > Len(folder)
                                   /\ g = Upto(table[j].at, Len(folder) + 1)
<1>1. ASSUME NEW j \in DOMAIN table, Contains(folder, table[j].at)
      PROVE  table[j].at # folder <=> Len(table[j].at) > Len(folder)
  <2>1. table[j].at \in Seq(Name)
    BY DEF IsTable
  <2>2. Len(folder) <= Len(table[j].at) /\ Len(folder) \in Nat /\ Len(table[j].at) \in Nat
    BY <1>1, <2>1, LenProperties DEF Contains
  <2>3. Contains(table[j].at, table[j].at)
    BY <2>1, ContainsItself
  <2>4. Len(table[j].at) = Len(folder) => table[j].at = folder
    BY <1>1, <2>1, <2>3, PrefixesOfOneLength
  <2> QED BY <2>2, <2>4
<1> QED BY <1>1 DEF Synthesized

\* What child_listing shows, in logical paths.
LEMMA ListingOf ==
  ASSUME NEW Name, NEW table, IsTable(table, Name), NEW held, AreHeld(table, held, Name),
         NEW down, NEW folder \in Seq(Name), NEW i, i = Owner(table, folder)
  PROVE  LET listing == ChildListing(table, held, down, folder)
         IN  /\ \A g : g \in listing.folders <=>
                  \/ g \in Synthesized(table, folder)
                  \/ i \notin down /\ \E p \in Mounted(table, held, i) :
                       Contains(folder, p) /\ Len(p) > Len(folder) + 1 /\ g = Upto(p, Len(folder) + 1)
             /\ \A p : p \in listing.notes <=>
                  /\ i \notin down /\ p \in Mounted(table, held, i) /\ Contains(folder, p)
                  /\ Len(p) = Len(folder) + 1 /\ p \notin Synthesized(table, folder)
             /\ listing.ok <=>
                  \/ Synthesized(table, folder) # {}
                  \/ i \notin down /\ \/ table[i].kind # "filesystem" \/ folder = table[i].at
                                      \/ \E p \in Mounted(table, held, i) : Contains(folder, p) /\ p # folder
<1> DEFINE rel == Relative(table[i], folder)
           own == IF i \in down THEN Failed ELSE OwnChildren(table[i], held[i], rel)
           grafted == Synthesized(table, folder)
           below == {n \in held[i] : Contains(rel, n) /\ n # rel}
           deeper == {m \in below : Len(m) > Len(rel) + 1}
           listing == ChildListing(table, held, down, folder)
<1>1. /\ i \in DOMAIN table /\ table[i].at \in Seq(Name) /\ Contains(table[i].at, folder)
      /\ held[i] \subseteq Seq(Name)
  BY OwnerServes DEF AreHeld
<1>2. \A n \in held[i] :
        /\ Contains(rel, n) <=> Contains(folder, Logical(table[i], n))
        /\ Len(n) = Len(rel) + 1 <=> Len(Logical(table[i], n)) = Len(folder) + 1
        /\ Len(n) > Len(rel) + 1 <=> Len(Logical(table[i], n)) > Len(folder) + 1
        /\ n = rel <=> Logical(table[i], n) = folder
        /\ Contains(rel, n) /\ Len(n) > Len(rel) + 1 =>
             Logical(table[i], Upto(n, Len(rel) + 1)) = Upto(Logical(table[i], n), Len(folder) + 1)
        /\ Len(folder) \in Nat
  BY <1>1, InsideMount
<1>3. rel = <<>> <=> folder = table[i].at
  <2>1. <<>> \in Seq(Name) /\ Logical(table[i], <<>>) = table[i].at
    BY <1>1, EmptySeq, ConcatEmptySeq DEF Logical
  <2>2. <<>> = rel <=> Logical(table[i], <<>>) = folder
    <3>1. PICK nothing \in Seq(Name) : nothing = <<>>
      BY <2>1
    <3>2. nothing = rel <=> Logical(table[i], nothing) = folder
      BY <1>1, InsideMount
    <3> QED BY <3>1, <3>2
  <2> QED BY <2>1, <2>2
<1>4. listing = IF ~own.ok /\ grafted = {} THEN Failed
                ELSE Listed({Logical(table[i], f) : f \in own.folders} \cup grafted,
                            {Logical(table[i], n) : n \in own.notes} \ grafted)
  BY DEF ChildListing
<1>5. /\ i \in down => own = Failed
      /\ i \notin down => own = IF table[i].kind = "filesystem" /\ below = {} /\ rel # <<>> THEN Failed
                                ELSE Listed({Upto(n, Len(rel) + 1) : n \in deeper},
                                            {n \in below : Len(n) = Len(rel) + 1})
  BY DEF OwnChildren
<1>6. below = {} => deeper = {} /\ {n \in below : Len(n) = Len(rel) + 1} = {}
  OBVIOUS
<1>7. /\ ~own.ok => own.folders = {} /\ own.notes = {}
      /\ \A f : f \in own.folders <=> i \notin down /\ \E n \in deeper : f = Upto(n, Len(rel) + 1)
      /\ \A n : n \in own.notes <=> i \notin down /\ n \in below /\ Len(n) = Len(rel) + 1
      /\ own.ok <=> i \notin down /\ (table[i].kind # "filesystem" \/ below # {} \/ rel = <<>>)
  <2>1. CASE i \in down
    BY <1>5, <2>1 DEF Failed
  <2>2. CASE i \notin down /\ table[i].kind = "filesystem" /\ below = {} /\ rel # <<>>
    BY <1>5, <1>6, <2>2 DEF Failed
  <2>3. CASE i \notin down /\ ~(table[i].kind = "filesystem" /\ below = {} /\ rel # <<>>)
    BY <1>5, <2>3 DEF Listed
  <2> QED BY <2>1, <2>2, <2>3
<1> HIDE DEF own, rel, grafted, listing
<1>8. /\ \A g : g \in listing.folders <=> g \in grafted \/ \E f \in own.folders : g = Logical(table[i], f)
      /\ \A p : p \in listing.notes <=> p \notin grafted /\ \E n \in own.notes : p = Logical(table[i], n)
      /\ listing.ok <=> own.ok \/ grafted # {}
  <2>1. CASE ~own.ok /\ grafted = {}
    BY <1>4, <1>7, <2>1 DEF Failed
  <2>2. CASE ~(~own.ok /\ grafted = {})
    BY <1>4, <2>2 DEF Listed
  <2> QED BY <2>1, <2>2
<1>9. \A n : n \in below <=> n \in held[i] /\ Contains(folder, Logical(table[i], n)) /\ Logical(table[i], n) # folder
  BY <1>2
<1>10. \A g : g \in listing.folders <=>
         \/ g \in grafted
         \/ i \notin down /\ \E p \in Mounted(table, held, i) :
              Contains(folder, p) /\ Len(p) > Len(folder) + 1 /\ g = Upto(p, Len(folder) + 1)
  <2>1. \A n : n \in deeper <=> /\ n \in held[i] /\ Contains(folder, Logical(table[i], n))
                                /\ Len(Logical(table[i], n)) > Len(folder) + 1
    BY <1>2, <1>9
  <2>2. \A n \in deeper : Logical(table[i], Upto(n, Len(rel) + 1)) = Upto(Logical(table[i], n), Len(folder) + 1)
    BY <1>2
  <2> HIDE DEF deeper
  <2>3. \A g : (\E f \in own.folders : g = Logical(table[i], f)) <=>
                 i \notin down /\ \E n \in deeper : g = Upto(Logical(table[i], n), Len(folder) + 1)
    BY <1>7, <2>2
  <2> QED BY <1>8, <2>1, <2>3 DEF Mounted
<1>11. \A p : p \in listing.notes <=>
         /\ i \notin down /\ p \in Mounted(table, held, i) /\ Contains(folder, p)
         /\ Len(p) = Len(folder) + 1 /\ p \notin grafted
  <2>1. \A n : n \in own.notes <=> /\ i \notin down /\ n \in held[i] /\ Contains(folder, Logical(table[i], n))
                                   /\ Len(Logical(table[i], n)) = Len(folder) + 1
    BY <1>2, <1>7, <1>9
  <2> QED BY <1>8, <2>1 DEF Mounted
<1>12. below # {} <=> \E p \in Mounted(table, held, i) : Contains(folder, p) /\ p # folder
  BY <1>9 DEF Mounted
<1> HIDE DEF below
<1>13. listing.ok <=>
         \/ grafted # {}
         \/ i \notin down /\ \/ table[i].kind # "filesystem" \/ folder = table[i].at
                             \/ \E p \in Mounted(table, held, i) : Contains(folder, p) /\ p # folder
  BY <1>3, <1>7, <1>8, <1>12
<1> QED BY <1>10, <1>11, <1>13 DEF listing, grafted

----------------------------------------------------------------------------
(* The namespace is whole.                                                 *)

LEMMA TableNames ==
  ASSUME NEW table, IsTable(table, Folders)
  PROVE  IsTable(table, Names)
<1>1. \A s \in Seq(Folders) : s \in Seq(Names)
  BY SeqMonotonic, NamespaceAssumption
<1> QED BY <1>1 DEF IsTable

LEMMA MountedNotes ==
  ASSUME NEW table, IsTable(table, Names), NEW held \in AllHeld(table)
  PROVE  /\ AreHeld(table, held, Names)
         /\ \A i \in DOMAIN table : \A p \in Mounted(table, held, i) :
              /\ p \in LogicalNotes(table) /\ p \in Seq(Names) /\ p[Len(p)] \notin Folders
              /\ Contains(table[i].at, p) /\ Len(p) > Len(table[i].at)
<1>1. \A i \in DOMAIN table : held[i] \subseteq Notes
  BY DEF AllHeld
<1>2. AreHeld(table, held, Names)
  BY <1>1, NamespaceAssumption DEF AreHeld
<1>3. ASSUME NEW i \in DOMAIN table, NEW p \in Mounted(table, held, i)
      PROVE  /\ p \in LogicalNotes(table) /\ p \in Seq(Names) /\ p[Len(p)] \notin Folders
             /\ Contains(table[i].at, p) /\ Len(p) > Len(table[i].at)
  <2>1. PICK n \in Notes : p = table[i].at \o n
    BY <1>1, <1>3 DEF Mounted, Logical
  <2>2. p \in LogicalNotes(table)
    <3>1. p = Logical(table[i], n)
      BY <2>1 DEF Logical
    <3>2. \E x \in DOMAIN table, y \in Notes : p = Logical(table[x], y)
      BY <3>1
    <3> QED BY <3>2 DEF LogicalNotes
  <2>3. n \in Seq(Names) /\ n # <<>> /\ table[i].at \in Seq(Names)
    BY NamespaceAssumption DEF IsTable
  <2>4. p \in Seq(Names) /\ Len(p) = Len(table[i].at) + Len(n) /\ Contains(table[i].at, p)
    BY <2>1, <2>3, ContainsWhatIsBelow
  <2>5. Len(n) \in Nat \ {0} /\ Len(table[i].at) \in Nat
    BY <2>3, EmptySeq, LenProperties
  <2>6. p[Len(p)] = n[Len(n)]
    <3>1. \A x \in 1 .. Len(table[i].at) + Len(n) :
            p[x] = IF x <= Len(table[i].at) THEN table[i].at[x] ELSE n[x - Len(table[i].at)]
      BY <2>1, <2>3, ConcatProperties
    <3>2. /\ Len(p) \in 1 .. Len(table[i].at) + Len(n) /\ ~(Len(p) <= Len(table[i].at))
          /\ Len(p) - Len(table[i].at) = Len(n)
      BY <2>4, <2>5
    <3> QED BY <3>1, <3>2
  <2> QED BY <2>2, <2>4, <2>5, <2>6, NamespaceAssumption
<1> QED BY <1>2, <1>3

LEMMA NotePaths ==
  ASSUME NEW table, IsTable(table, Names)
  PROVE  /\ \A p \in LogicalNotes(table) : p \in Seq(Names) /\ Len(p) \in Nat \ {0}
         /\ \A p \in LogicalNotes(table) : \A k \in 0 .. Len(p) - 1 : Upto(p, k) \in FoldersAbove(LogicalNotes(table))
         /\ FoldersAbove(LogicalNotes(table)) \subseteq Seq(Names)
<1>1. ASSUME NEW p \in LogicalNotes(table) PROVE p \in Seq(Names) /\ Len(p) \in Nat \ {0}
  <2>1. PICK i \in DOMAIN table, n \in Notes : p = table[i].at \o n
    BY <1>1 DEF LogicalNotes, Logical
  <2>2. n \in Seq(Names) /\ n # <<>> /\ table[i].at \in Seq(Names)
    BY NamespaceAssumption DEF IsTable
  <2>3. p \in Seq(Names) /\ Len(p) = Len(table[i].at) + Len(n)
    BY <2>1, <2>2, ContainsWhatIsBelow
  <2>4. Len(n) \in Nat \ {0} /\ Len(table[i].at) \in Nat
    BY <2>2, EmptySeq, LenProperties
  <2> QED BY <2>3, <2>4
<1>2. \A p \in LogicalNotes(table) : \A k \in 0 .. Len(p) - 1 : Upto(p, k) \in FoldersAbove(LogicalNotes(table))
  BY DEF FoldersAbove
<1>3. ASSUME NEW f \in FoldersAbove(LogicalNotes(table)) PROVE f \in Seq(Names)
  <2>1. PICK p \in LogicalNotes(table) : \E k \in 0 .. Len(p) - 1 : f = Upto(p, k)
    BY <1>3 DEF FoldersAbove
  <2>2. PICK k \in 0 .. Len(p) - 1 : f = Upto(p, k)
    BY <2>1
  <2>3. k \in 0 .. Len(p) /\ p \in Seq(Names)
    BY <1>1
  <2> QED BY <2>2, <2>3, Beginnings
<1> QED BY <1>1, <1>2, <1>3

\* A read asks the owner, and finds what it holds.
LEMMA FoundIsMounted ==
  ASSUME NEW table, IsTable(table, Names), NEW held, AreHeld(table, held, Names), NEW path \in Seq(Names)
  PROVE  Found(table, held, path) <=> path \in Mounted(table, held, Owner(table, path))
<1> DEFINE o == Owner(table, path)
<1>1. o \in DOMAIN table /\ table[o].at \in Seq(Names) /\ Contains(table[o].at, path) /\ held[o] \subseteq Seq(Names)
  BY OwnerServes DEF AreHeld
<1>2. Logical(table[o], Relative(table[o], path)) = path
  BY <1>1, RoundTrip
<1>3. \A n \in held[o] : Relative(table[o], Logical(table[o], n)) = n
  BY <1>1, RoundTripBack
<1> QED BY <1>2, <1>3 DEF Found, Mounted

\* A mount that contains a path contains a folder of it, or is below the folder.
LEMMA AboveOrBelow ==
  ASSUME NEW a \in Seq(Names), NEW f \in Seq(Names), NEW p \in Seq(Names), Contains(a, p), Contains(f, p)
  PROVE  \/ Contains(a, f) /\ Len(a) <= Len(f)
         \/ Contains(f, a) /\ Len(a) > Len(f) /\ ~Contains(a, f)
<1>1. Len(a) \in Nat /\ Len(f) \in Nat
  BY LenProperties
<1>2. CASE Len(a) <= Len(f)
  BY <1>2, PrefixesAreComparable
<1>3. CASE Len(f) < Len(a)
  BY <1>1, <1>3, PrefixesAreComparable DEF Contains
<1> QED BY <1>1, <1>2, <1>3

LEMMA OwnsUntilItself ==
  ASSUME NEW table, IsTable(table, Names), NEW p \in Seq(Names), NEW f \in Seq(Names),
         Contains(f, p), Contains(table[Owner(table, p)].at, f)
  PROVE  Owner(table, f) = Owner(table, p)
<1> DEFINE o == Owner(table, p)
<1>1. /\ o \in DOMAIN table
      /\ \A j \in DOMAIN table : Contains(table[j].at, p) => Len(table[j].at) <= Len(table[o].at)
  BY OwnerServes
<1>2. \A j \in DOMAIN table : Contains(table[j].at, f) => Contains(table[j].at, p)
  BY ContainsTransitively DEF IsTable
<1>3. IsOwner(table, f, o)
  BY <1>1, <1>2 DEF IsOwner, Serving
<1> QED BY <1>1, <1>3, EveryPathIsOwned

\* What a listing shows is served, by the mount that was listed.
LEMMA ShownIsServed ==
  ASSUME NEW table, IsTable(table, Names), NEW held \in AllHeld(table), NEW down,
         NEW f \in Seq(Names), NEW p \in ChildListing(table, held, down, f).notes
  PROVE  p \in Served(table, held, down)
<1> DEFINE i == Owner(table, f)
<1>1. AreHeld(table, held, Names) /\ i \in DOMAIN table
  BY MountedNotes, OwnerServes
<1>2. /\ i \notin down /\ p \in Mounted(table, held, i) /\ Contains(f, p)
      /\ Len(p) = Len(f) + 1 /\ p \notin Synthesized(table, f)
  BY <1>1, ListingOf
<1>3. p \in LogicalNotes(table) /\ p \in Seq(Names) /\ Len(f) \in Nat
  BY <1>1, <1>2, MountedNotes, LenProperties
<1> DEFINE o == Owner(table, p)
<1>4. /\ o \in DOMAIN table /\ table[o].at \in Seq(Names) /\ Contains(table[o].at, p)
  BY <1>3, OwnerServes
<1>5. Contains(table[o].at, f)
  <2> SUFFICES ASSUME ~Contains(table[o].at, f) PROVE FALSE
    OBVIOUS
  <2>1. Contains(f, table[o].at) /\ Len(table[o].at) > Len(f)
    BY <1>2, <1>3, <1>4, AboveOrBelow
  <2>2. Len(table[o].at) \in Nat /\ Len(table[o].at) <= Len(p)
    BY <1>3, <1>4, LenProperties DEF Contains
  <2>3. Len(table[o].at) = Len(f) + 1
    BY <1>2, <1>3, <2>1, <2>2
  <2>4. Upto(table[o].at, Len(f) + 1) = table[o].at
    BY <1>4, <2>3, SubSeqFull DEF Upto
  <2>5. table[o].at = p
    <3>1. Contains(p, p)
      BY <1>3, ContainsItself
    <3> QED BY <1>2, <1>3, <1>4, <2>3, <3>1, PrefixesOfOneLength
  <2>6. p \in Synthesized(table, f)
    BY <1>4, <2>1, <2>4, <2>5, Grafts
  <2> QED BY <1>2, <2>6
<1>6. o = i
  BY <1>2, <1>3, <1>5, OwnsUntilItself
<1>7. Found(table, held, p)
  BY <1>1, <1>2, <1>3, <1>6, FoundIsMounted
<1> QED BY <1>2, <1>3, <1>6, <1>7 DEF Served

\* What is served is shown: every folder on the way is listed by the one before.
LEMMA ServedIsShown ==
  ASSUME NEW table, IsTable(table, Folders), NEW held \in AllHeld(table), NEW down,
         NEW p \in Served(table, held, down)
  PROVE  /\ \A k \in 1 .. Len(p) - 1 : Upto(p, k) \in ChildListing(table, held, down, Upto(p, k - 1)).folders
         /\ p \in ChildListing(table, held, down, Upto(p, Len(p) - 1)).notes
<1> DEFINE o == Owner(table, p)
           at == table[o].at
<1>0. IsTable(table, Names)
  BY TableNames
<1> USE <1>0
<1>1. p \in Seq(Names) /\ Len(p) \in Nat \ {0} /\ o \notin down /\ Found(table, held, p)
  BY NotePaths DEF Served
<1>2. AreHeld(table, held, Names)
  BY MountedNotes
<1>3. o \in DOMAIN table /\ at \in Seq(Names) /\ Contains(at, p) /\ Len(at) \in Nat
  BY <1>1, OwnerServes, LenProperties
<1>4. p \in Mounted(table, held, o)
  BY <1>1, <1>2, FoundIsMounted
<1>5. Len(p) > Len(at) /\ p[Len(p)] \notin Folders
  BY <1>3, <1>4, MountedNotes
<1> HIDE DEF at
<1>6. ASSUME NEW k \in 0 .. Len(p) - 1, NEW f, f = Upto(p, k)
      PROVE  /\ f \in Seq(Names) /\ Len(f) = k /\ Contains(f, p)
             /\ \/ Owner(table, f) = o /\ Contains(at, f)
                \/ Contains(f, at) /\ Len(at) > k
  <2>1. k \in 0 .. Len(p)
    BY <1>1
  <2>2. f \in Seq(Names) /\ Len(f) = k /\ Contains(f, p)
    BY <1>1, <1>6, <2>1, Beginnings
  <2>3. Contains(at, f) \/ (Contains(f, at) /\ Len(at) > k)
    BY <1>1, <1>3, <2>2, AboveOrBelow
  <2>4. Contains(at, f) => Owner(table, f) = o
    BY <1>1, <2>2, OwnsUntilItself DEF at
  <2> QED BY <2>2, <2>3, <2>4
<1>7. ASSUME NEW k \in 1 .. Len(p) - 1
      PROVE  Upto(p, k) \in ChildListing(table, held, down, Upto(p, k - 1)).folders
  <2>1. PICK f : f = Upto(p, k - 1)
    OBVIOUS
  <2>2. k - 1 \in 0 .. Len(p) - 1 /\ k \in 0 .. Len(p) /\ k - 1 + 1 = k /\ k \in Nat
    BY <1>1
  <2>3. /\ f \in Seq(Names) /\ Len(f) = k - 1 /\ Contains(f, p)
        /\ \/ Owner(table, f) = o /\ Contains(at, f)
           \/ Contains(f, at) /\ Len(at) > k - 1
    BY <1>6, <2>1, <2>2
  <2>4. Len(f) + 1 = k
    BY <2>2, <2>3
  <2>5. CASE Owner(table, f) = o
    <3>1. Len(p) > Len(f) + 1
      BY <1>1, <2>4
    <3> QED BY <1>1, <1>2, <1>4, <2>1, <2>3, <2>4, <2>5, <3>1, ListingOf
  <2>6. CASE Contains(f, at) /\ Len(at) > k - 1
    <3>1. k \in 0 .. Len(at) /\ Len(at) > Len(f)
      BY <1>3, <2>2, <2>3, <2>6
    <3>2. Upto(at, k) \in Seq(Names) /\ Len(Upto(at, k)) = k /\ Contains(Upto(at, k), at)
      BY <1>3, <3>1, Beginnings
    <3>3. Upto(at, k) = Upto(p, k)
      <4>1. Contains(Upto(at, k), p)
        BY <1>1, <1>3, <3>2, ContainsTransitively
      <4> QED BY <1>1, <2>2, <3>2, <4>1, Beginnings
    <3>4. Upto(p, k) \in Synthesized(table, f)
      BY <1>3, <2>3, <2>4, <2>6, <3>1, <3>3, Grafts DEF at
    <3> QED BY <1>2, <2>1, <2>3, <3>4, ListingOf
  <2> QED BY <2>3, <2>5, <2>6
<1>8. p \in ChildListing(table, held, down, Upto(p, Len(p) - 1)).notes
  <2>1. PICK f : f = Upto(p, Len(p) - 1)
    OBVIOUS
  <2>2. Len(p) - 1 \in 0 .. Len(p) - 1 /\ Len(p) - 1 + 1 = Len(p)
    BY <1>1
  <2>3. /\ f \in Seq(Names) /\ Len(f) = Len(p) - 1 /\ Contains(f, p)
        /\ \/ Owner(table, f) = o /\ Contains(at, f)
           \/ Contains(f, at) /\ Len(at) > Len(p) - 1
    BY <1>6, <2>1, <2>2
  <2>4. Owner(table, f) = o /\ Len(p) = Len(f) + 1
    BY <1>1, <1>3, <1>5, <2>3
  <2>5. p \notin Synthesized(table, f)
    <3> SUFFICES ASSUME NEW j \in DOMAIN table, Contains(f, table[j].at), Len(table[j].at) > Len(f),
                        p = Upto(table[j].at, Len(f) + 1)
                 PROVE  FALSE
      BY <2>3, Grafts
    <3>1. table[j].at \in Seq(Names) /\ Len(table[j].at) \in Nat
      BY LenProperties DEF IsTable
    <3>2. Len(p) \in 0 .. Len(table[j].at)
      BY <1>1, <2>4, <3>1
    <3>3. Contains(p, table[j].at)
      BY <2>4, <3>1, <3>2, Beginnings
    <3>4. p[Len(p)] = table[j].at[Len(p)]
      BY <1>1, <3>3 DEF Contains
    <3>5. table[j].at[Len(p)] \in Folders
      <4>1. table[j].at \in Seq(Folders) /\ Len(p) \in 1 .. Len(table[j].at)
        BY <1>1, <3>2 DEF IsTable
      <4> QED BY <4>1, ElementOfSeq
    <3> QED BY <1>5, <3>4, <3>5
  <2> QED BY <1>1, <1>2, <1>4, <2>1, <2>3, <2>4, <2>5, ListingOf
<1> QED BY <1>7, <1>8

LEMMA DiscoversAll ==
  ASSUME NEW table, IsTable(table, Folders), NEW held \in AllHeld(table), NEW down
  PROVE  DiscoversWhatIsServed(table, held, down)
<1> USE TableNames
<1> DEFINE folders == FoldersAbove(LogicalNotes(table))
<1>1. ASSUME NEW p \in Discovered(table, held, down) PROVE p \in Served(table, held, down)
  <2>1. PICK f \in folders : p \in ChildListing(table, held, down, f).notes
    BY <1>1 DEF Discovered
  <2>2. f \in Seq(Names)
    BY NotePaths
  <2> QED BY <2>1, <2>2, ShownIsServed
<1>2. ASSUME NEW p \in Served(table, held, down) PROVE p \in Discovered(table, held, down)
  <2>1. p \in LogicalNotes(table) /\ p \in Seq(Names) /\ Len(p) \in Nat \ {0}
    BY NotePaths DEF Served
  <2>2. PICK f : f = Upto(p, Len(p) - 1)
    OBVIOUS
  <2>3. Len(p) - 1 \in 0 .. Len(p) - 1 /\ Len(p) - 1 \in 0 .. Len(p)
    BY <2>1
  <2>4. f \in folders /\ Len(f) = Len(p) - 1
    BY <2>1, <2>2, <2>3, NotePaths, Beginnings
  <2>5. Reachable(table, held, down, f)
    <3> SUFFICES ASSUME NEW k \in 1 .. Len(f)
                 PROVE  Upto(f, k) \in ChildListing(table, held, down, Upto(f, k - 1)).folders
      BY DEF Reachable
    <3>1. k \in 0 .. Len(p) - 1 /\ k - 1 \in 0 .. Len(p) - 1 /\ k \in 1 .. Len(p) - 1
      BY <2>1, <2>4
    <3>2. Upto(f, k) = Upto(p, k) /\ Upto(f, k - 1) = Upto(p, k - 1)
      BY <2>1, <2>2, <2>3, <3>1, Nested
    <3> QED BY <3>1, <3>2, ServedIsShown
  <2>6. p \in ChildListing(table, held, down, f).notes
    BY <2>2, ServedIsShown
  <2> QED BY <2>4, <2>5, <2>6 DEF Discovered
<1>3. \A p \in Discovered(table, held, down) : p \in Served(table, held, down)
  BY <1>1
<1>4. \A p \in Served(table, held, down) : p \in Discovered(table, held, down)
  BY <1>2
<1>5. Discovered(table, held, down) = Served(table, held, down)
  BY <1>3, <1>4, Zenon
<1> QED BY <1>5 DEF DiscoversWhatIsServed

\* A mount at the folder itself, or below it, makes it a folder that lists.
LEMMA MountsList ==
  ASSUME NEW table, IsTable(table, Names), NEW held \in AllHeld(table), NEW down,
         NEW g \in Seq(Names), NEW j \in DOMAIN table, Contains(g, table[j].at), Owner(table, g) \notin down
  PROVE  ChildListing(table, held, down, g).ok
<1>1. AreHeld(table, held, Names) /\ table[j].at \in Seq(Names) /\ Len(table[j].at) \in Nat /\ Len(g) \in Nat
  BY MountedNotes, LenProperties DEF IsTable
<1>2. CASE Len(table[j].at) > Len(g)
  <2>1. Synthesized(table, g) # {}
    BY <1>2, Grafts
  <2> QED BY <1>1, <2>1, ListingOf
<1>3. CASE ~(Len(table[j].at) > Len(g))
  <2>1. Len(table[j].at) = Len(g)
    BY <1>1, <1>3 DEF Contains
  <2>2. table[j].at = g
    BY <1>1, <2>1, ContainsItself, PrefixesOfOneLength
  <2>3. IsOwner(table, g, j)
    <3>1. Contains(g, g)
      BY ContainsItself
    <3>2. \A k \in DOMAIN table : Contains(table[k].at, g) => Len(table[k].at) <= Len(g)
      BY DEF Contains
    <3> QED BY <2>2, <3>1, <3>2 DEF IsOwner, Serving
  <2>4. Owner(table, g) = j
    BY <2>3, EveryPathIsOwned
  <2> QED BY <1>1, <2>2, <2>4, ListingOf
<1> QED BY <1>2, <1>3

LEMMA ListsAll ==
  ASSUME NEW table, IsTable(table, Names), NEW held \in AllHeld(table), NEW down
  PROVE  ListsWhatItAdvertises(table, held, down)
<1> SUFFICES ASSUME NEW f \in Seq(Names), NEW g \in ChildListing(table, held, down, f).folders,
                    Owner(table, g) \notin down
             PROVE  ChildListing(table, held, down, g).ok
  BY NotePaths DEF ListsWhatItAdvertises
<1> DEFINE i == Owner(table, f)
<1>1. AreHeld(table, held, Names) /\ i \in DOMAIN table /\ Len(f) \in Nat
  BY MountedNotes, OwnerServes, LenProperties
<1>2. CASE g \in Synthesized(table, f)
  <2>1. PICK j \in DOMAIN table : Len(table[j].at) > Len(f) /\ g = Upto(table[j].at, Len(f) + 1)
    BY <1>2, Grafts
  <2>2. table[j].at \in Seq(Names) /\ Len(table[j].at) \in Nat
    BY LenProperties DEF IsTable
  <2>3. Len(f) + 1 \in 0 .. Len(table[j].at)
    BY <1>1, <2>1, <2>2
  <2>4. g \in Seq(Names) /\ Contains(g, table[j].at)
    BY <2>1, <2>2, <2>3, Beginnings
  <2> QED BY <2>4, MountsList
<1>3. CASE g \notin Synthesized(table, f)
  <2>1. PICK p \in Mounted(table, held, i) : Contains(f, p) /\ Len(p) > Len(f) + 1 /\ g = Upto(p, Len(f) + 1)
    BY <1>1, <1>3, ListingOf
  <2>2. p \in Seq(Names) /\ Len(p) \in Nat /\ Contains(table[i].at, p)
    BY <1>1, <2>1, MountedNotes, LenProperties
  <2>3. Len(f) + 1 \in 0 .. Len(p)
    BY <1>1, <2>1, <2>2
  <2>4. g \in Seq(Names) /\ Len(g) = Len(f) + 1 /\ Contains(g, p)
    BY <2>1, <2>2, <2>3, Beginnings
  <2>5. p # g
    BY <1>1, <2>1, <2>4
  <2> DEFINE o == Owner(table, g)
  <2>6. o \in DOMAIN table /\ table[o].at \in Seq(Names) /\ Contains(table[o].at, g)
    BY <2>4, OwnerServes
  <2>7. CASE o = i
    BY <1>1, <2>1, <2>4, <2>5, <2>7, ListingOf
  <2>8. CASE o # i
    <3>1. Contains(f, g)
      BY <1>1, <2>1, <2>2, <2>4, PrefixesAreComparable
    <3>2. ~Contains(table[o].at, f)
      BY <2>8, <2>4, <3>1, OwnsUntilItself
    <3>3. Len(table[o].at) > Len(f) /\ Len(table[o].at) \in Nat /\ Len(table[o].at) <= Len(g)
      BY <2>4, <2>6, <3>1, <3>2, AboveOrBelow, LenProperties DEF Contains
    <3>4. Len(table[o].at) = Len(g)
      BY <1>1, <2>4, <3>3
    <3>5. Contains(g, g)
      BY <2>4, ContainsItself
    <3>6. table[o].at = g
      BY <2>4, <2>6, <3>4, <3>5, PrefixesOfOneLength
    <3> QED BY <2>4, <2>6, <3>5, <3>6, MountsList
  <2> QED BY <2>7, <2>8
<1> QED BY <1>2, <1>3

\* The root mount is the owner of the root.
LEMMA RootOwner ==
  ASSUME NEW table, IsTable(table, Names)
  PROVE  LET r == Owner(table, <<>>)
         IN  /\ r \in DOMAIN table /\ table[r].at = <<>>
             /\ \A i \in DOMAIN table : table[i].at = <<>> => i = r
<1> DEFINE r == Owner(table, <<>>)
<1>1. PICK root \in Seq(Names) : root = <<>> /\ Len(root) = 0
  BY EmptySeq
<1>2. r \in DOMAIN table /\ table[r].at \in Seq(Names) /\ Contains(table[r].at, root)
  BY <1>1, OwnerServes
<1>3. Len(table[r].at) = 0
  BY <1>1, <1>2, LenProperties DEF Contains
<1>4. table[r].at = <<>>
  BY <1>2, <1>3, EmptySeq
<1> QED BY <1>2, <1>4 DEF IsTable

LEMMA WalkIsWhole ==
  ASSUME NEW table, IsTable(table, Names), NEW held \in AllHeld(table), NEW down
  PROVE  WalksAll(table, held, down)
<1> DEFINE walk == WalkMarkdown(table, held, down)
           r == Owner(table, <<>>)
<1>1. AreHeld(table, held, Names)
  BY MountedNotes
<1>2. /\ walk.ok <=> down = {}
      /\ walk.ok => \A p \in walk.notes : \E i \in DOMAIN table : p \in Mounted(table, held, i)
  BY DEF WalkMarkdown, Failed, Listed, Mounted
<1>3. ASSUME walk.ok, NEW p \in Served(table, held, down) PROVE p \in walk.notes
  <2>1. p \in Seq(Names) /\ Found(table, held, p)
    BY NotePaths DEF Served
  <2> QED BY <1>3, <2>1, WalkMissesNothing
<1>4. ASSUME walk.ok, NEW p \in walk.notes, Owner(table, p) = r PROVE p \in Served(table, held, down)
  <2>1. PICK i \in DOMAIN table : p \in Mounted(table, held, i)
    BY <1>2, <1>4
  <2>2. p \in LogicalNotes(table) /\ p \in Seq(Names) /\ Contains(table[i].at, p)
    BY <2>1, MountedNotes
  <2>3. Len(table[i].at) <= Len(table[r].at)
    BY <1>4, <2>2, OwnerServes
  <2>4. table[r].at = <<>> /\ table[i].at \in Seq(Names) /\ Len(table[i].at) \in Nat /\ Len(<<>>) = 0
    BY RootOwner, LenProperties, EmptySeq DEF IsTable
  <2>5. table[i].at = <<>>
    BY <2>3, <2>4, EmptySeq
  <2>6. i = r
    BY <2>5, RootOwner
  <2>7. Found(table, held, p)
    BY <1>1, <1>4, <2>1, <2>2, <2>6, FoundIsMounted
  <2> QED BY <1>2, <1>4, <2>2, <2>7 DEF Served
<1> HIDE DEF walk
<1> QED BY <1>2, <1>3, <1>4 DEF WalksAll, walk

LEMMA TopLevelIsWhole ==
  ASSUME NEW table, IsTable(table, Names), NEW held \in AllHeld(table), NEW down
  PROVE  TopLevelAgrees(table, held, down)
<1> DEFINE top == TopLevelFolders(table, held, down)
           r == Owner(table, <<>>)
           own == OwnChildren(table[r], held[r], <<>>)
           roots == {i \in DOMAIN table : table[i].at = <<>>}
<1>1. AreHeld(table, held, Names) /\ <<>> \in Seq(Names) /\ Len(<<>>) = 0
  BY MountedNotes, EmptySeq
<1>2. r \in DOMAIN table /\ table[r].at = <<>> /\ roots = {r} /\ held[r] \subseteq Seq(Names)
  BY <1>1, RootOwner DEF AreHeld
<1>3. Mounted(table, held, r) = held[r]
  <2>1. \A n \in held[r] : Logical(table[r], n) = n
    BY <1>2, ConcatEmptySeq DEF Logical
  <2> QED BY <2>1 DEF Mounted
<1>4. \A g : g \in own.folders <=>
        \E n \in held[r] : Contains(<<>>, n) /\ n # <<>> /\ Len(n) > Len(<<>>) + 1 /\ g = Upto(n, Len(<<>>) + 1)
  BY DEF OwnChildren, Listed
<1>5. /\ top.ok <=> r \notin down
      /\ top.ok => top.folders = Synthesized(table, <<>>) \cup own.folders
  <2>1. top = IF roots \cap down # {} THEN Failed
              ELSE Listed(Synthesized(table, <<>>) \cup UNION {OwnChildren(table[i], held[i], <<>>).folders : i \in roots}, {})
    BY DEF TopLevelFolders
  <2>2. UNION {OwnChildren(table[i], held[i], <<>>).folders : i \in roots} = own.folders
    BY <1>2
  <2>3. roots \cap down # {} <=> r \in down
    BY <1>2
  <2> HIDE DEF own, top, roots
  <2> QED BY <2>1, <2>2, <2>3 DEF Failed, Listed
<1>6. \A g : g \in ChildListing(table, held, down, <<>>).folders <=>
        \/ g \in Synthesized(table, <<>>)
        \/ r \notin down /\ \E p \in Mounted(table, held, r) :
             Contains(<<>>, p) /\ Len(p) > Len(<<>>) + 1 /\ g = Upto(p, Len(<<>>) + 1)
  <2>1. PICK root \in Seq(Names) : root = <<>>
    BY <1>1
  <2>2. PICK i : i = Owner(table, root)
    OBVIOUS
  <2>3. \A g : g \in ChildListing(table, held, down, root).folders <=>
          \/ g \in Synthesized(table, root)
          \/ i \notin down /\ \E p \in Mounted(table, held, i) :
               Contains(root, p) /\ Len(p) > Len(root) + 1 /\ g = Upto(p, Len(root) + 1)
    BY <1>1, <2>2, ListingOf
  <2> QED BY <2>1, <2>2, <2>3
<1> HIDE DEF own, top, roots
<1>7. \A n \in held[r] : Len(n) > Len(<<>>) + 1 => n # <<>>
  BY <1>1
<1>8. ASSUME top.ok PROVE \A g : g \in top.folders <=> g \in ChildListing(table, held, down, <<>>).folders
  BY <1>3, <1>4, <1>5, <1>6, <1>7, <1>8
<1>9. top.ok => top.folders = ChildListing(table, held, down, <<>>).folders
  <2>1. ASSUME top.ok PROVE top.folders = ChildListing(table, held, down, <<>>).folders
    <3>1. PICK A, B : A = top.folders /\ B = ChildListing(table, held, down, <<>>).folders
      OBVIOUS
    <3>2. \A g : g \in A <=> g \in B
      BY <1>8, <2>1, <3>1
    <3>3. A = B
      BY <3>2
    <3> QED BY <3>1, <3>3
  <2> QED BY <2>1
<1> QED BY <1>9 DEF TopLevelAgrees, top

\* A folder that no second mount is in is its owner's, with all that is below.
LEMMA ScopeHasOneOwner ==
  ASSUME NEW table, IsTable(table, Names), NEW prefix \in Seq(Names), NEW p \in Seq(Names),
         Contains(prefix, p), ~ContainsOther(table, Owner(table, prefix), prefix)
  PROVE  Owner(table, p) = Owner(table, prefix)
<1> DEFINE o == Owner(table, p)
<1>1. o \in DOMAIN table /\ table[o].at \in Seq(Names) /\ Contains(table[o].at, p)
  BY OwnerServes
<1>2. CASE Contains(table[o].at, prefix)
  BY <1>2, OwnsUntilItself
<1>3. CASE Contains(prefix, table[o].at)
  <2>1. table[o].id = table[Owner(table, prefix)].id
    BY <1>1, <1>3 DEF ContainsOther
  <2>2. Owner(table, prefix) \in DOMAIN table
    BY OwnerServes
  <2> QED BY <1>1, <2>1, <2>2 DEF IsTable
<1> QED BY <1>1, <1>2, <1>3, AboveOrBelow

LEMMA GrepIsWhole ==
  ASSUME NEW table, IsTable(table, Names), NEW held \in AllHeld(table), NEW down
  PROVE  ScopedGrepIsWhole(table, held, down)
<1> SUFFICES ASSUME NEW prefix \in Seq(Names), NEW deep \in BOOLEAN, NEW outside, NEW anchored,
                    anchored = DOMAIN table \ outside,
                    ScopedGrep(table, held, down, anchored, prefix, deep).ok
             PROVE  LET grep == ScopedGrep(table, held, down, anchored, prefix, deep)
                        inside == {p \in Served(table, held, down) : Contains(prefix, p)}
                    IN  /\ grep.notes \subseteq inside
                        /\ (Owner(table, prefix) \notin outside \/ table[Owner(table, prefix)].at = prefix)
                             => {p \in inside : deep \/ Parent(p) = prefix} \subseteq grep.notes
  BY NotePaths DEF ScopedGrepIsWhole
<1>0. PICK i : i = Owner(table, prefix)
  OBVIOUS
<1> DEFINE grep == ScopedGrep(table, held, down, anchored, prefix, deep)
           rel == Relative(table[i], prefix)
<1>1. AreHeld(table, held, Names)
  BY MountedNotes
<1>2. /\ i \in DOMAIN table /\ table[i].at \in Seq(Names) /\ Contains(table[i].at, prefix)
      /\ held[i] \subseteq Seq(Names)
  BY <1>0, <1>1, OwnerServes DEF AreHeld
<1>3. i \notin down /\ ~ContainsOther(table, i, prefix)
  BY <1>0 DEF ScopedGrep, Failed
<1>4. grep.notes = {Logical(table[i], n) : n \in Matches(table[i], held[i], rel, deep, i \in anchored)}
  BY <1>0, <1>3 DEF ScopedGrep, Listed
<1>5. rel = <<>> <=> prefix = table[i].at
  <2>1. PICK nothing \in Seq(Names) : nothing = <<>>
    BY EmptySeq
  <2>2. Logical(table[i], <<>>) = table[i].at
    BY <1>2, ConcatEmptySeq DEF Logical
  <2>3. nothing = rel <=> Logical(table[i], nothing) = prefix
    BY <1>2, InsideMount
  <2> QED BY <2>1, <2>2, <2>3
<1>6. ASSUME NEW p \in grep.notes PROVE p \in Served(table, held, down) /\ Contains(prefix, p)
  <2>1. Found(table, held, p) /\ Contains(prefix, p)
    BY <1>1, <1>6, GrepedIsFound
  <2>2. p \in Mounted(table, held, i)
    BY <1>4, <1>6 DEF Matches, Mounted
  <2>3. p \in LogicalNotes(table) /\ p \in Seq(Names)
    BY <1>2, <2>2, MountedNotes
  <2>4. Owner(table, p) = i
    BY <1>0, <1>3, <2>1, <2>3, ScopeHasOneOwner
  <2> QED BY <1>3, <2>1, <2>3, <2>4 DEF Served
<1>7. ASSUME i \notin outside \/ table[i].at = prefix,
             NEW p \in Served(table, held, down), Contains(prefix, p), deep \/ Parent(p) = prefix
      PROVE  p \in grep.notes
  <2>1. p \in Seq(Names) /\ Len(p) \in Nat \ {0} /\ Found(table, held, p)
    BY NotePaths DEF Served
  <2>2. Owner(table, p) = i
    BY <1>0, <1>3, <1>7, <2>1, ScopeHasOneOwner
  <2>3. p \in Mounted(table, held, i)
    BY <1>1, <2>1, <2>2, FoundIsMounted
  <2>4. PICK n \in held[i] : p = Logical(table[i], n)
    BY <2>3 DEF Mounted
  <2>5. n \in Seq(Names)
    BY <1>2
  <2>6. /\ rel \in Seq(Names) /\ Len(rel) \in Nat /\ Len(n) \in Nat
        /\ Contains(rel, n) /\ (Len(n) = Len(rel) + 1 <=> Len(p) = Len(prefix) + 1)
    <3>1. /\ rel \in Seq(Names) /\ Len(rel) \in Nat /\ Len(n) \in Nat
          /\ Contains(rel, n) <=> Contains(prefix, Logical(table[i], n))
          /\ Len(n) = Len(rel) + 1 <=> Len(Logical(table[i], n)) = Len(prefix) + 1
      BY <1>2, <2>5, InsideMount
    <3> QED BY <1>7, <2>4, <3>1
  <2>7. deep \/ Parent(n) = rel
    <3> SUFFICES ASSUME Parent(p) = prefix PROVE Parent(n) = rel
      BY <1>7
    <3>1. Len(p) - 1 \in 0 .. Len(p)
      BY <2>1
    <3>2. Len(prefix) = Len(p) - 1
      BY <2>1, <3>1, Beginnings DEF Parent
    <3>3. Len(n) = Len(rel) + 1
      BY <2>1, <2>6, <3>2
    <3>4. PICK k : k = Len(n) - 1
      OBVIOUS
    <3>5. k \in 0 .. Len(n) /\ Len(rel) = k
      BY <2>6, <3>3, <3>4
    <3>6. rel = Upto(n, k)
      BY <2>5, <2>6, <3>5, Beginnings
    <3> QED BY <3>4, <3>6 DEF Parent
  <2>8. rel = <<>> \/ i \in anchored
    <3>1. CASE i \notin outside
      BY <1>2, <3>1
    <3>2. CASE table[i].at = prefix
      BY <1>5, <3>2
    <3> QED BY <1>7, <3>1, <3>2
  <2>9. n \in Matches(table[i], held[i], rel, deep, i \in anchored)
    BY <2>6, <2>7, <2>8 DEF Matches
  <2> QED BY <1>4, <2>4, <2>9
<1> HIDE DEF grep
<1> QED BY <1>0, <1>6, <1>7 DEF grep

\* The namespace of any table is whole, whatever its mounts hold and whichever
\* of them fail: a client that descends the listings discovers what a read finds
\* and nothing else, no listing shows a folder that cannot be listed, a walk
\* names every note, and the grep of a folder finds all there is in it and
\* nothing that is shadowed (router.rs, child_listing, walk_markdown, grep).
THEOREM EveryTableIsWhole ==
  ASSUME NEW table, IsTable(table, Folders)
  PROVE  TableIsWhole(table)
BY TableNames, DiscoversAll, ListsAll, WalkIsWhole, TopLevelIsWhole, GrepIsWhole DEF TableIsWhole

----------------------------------------------------------------------------
(* The commands.  No credential is forgotten but by a rollback or disabling *)
(* auth, so what a reference held it holds or is gone; and what a command   *)
(* is about to write was validated after it was last put together.          *)

Known == stored \cup gone

\* What a command that is past its validation is building.
Sound(k, known) ==
  /\ k \in Cmd
  /\ Refs(k.next) \cup k.mine \subseteq known
  /\ k.at \in {"store", "probe", "provision", "write", "backed", "writing"} => Loads(k.next)
  /\ k.at = "store" => k.next.mounts[k.id] # NoMount

FilesInv ==
  /\ config.is = "whole" => Loads(config.conf) /\ last = config
  /\ config.is # "whole" => config.conf = Empty
  /\ bak.is = "whole" => Loads(bak.conf)
  /\ Refs(config.conf) \subseteq Known /\ Refs(bak.conf) \subseteq Known
  /\ config.is = "absent" => bak = last
  /\ config.is = "torn" /\ ~excused => bak = last
  /\ cmd.at = "backed" /\ ~excused => bak = last

CliInv == TypeOK /\ Sound(cmd, Known) /\ FilesInv

LEMMA ConfTypes ==
  /\ Empty \in Conf /\ Refs(Empty) = {} /\ NoMount \notin Mount
  /\ Idle \in Cmd /\ Idle.at = "idle" /\ Idle.name = "none" /\ Idle.next = Empty /\ Idle.mine = {}
  /\ Absent \in File /\ Torn \in File /\ \A c \in Conf : Whole(c) \in File
<1>1. Empty \in Conf /\ Refs(Empty) = {}
  BY DEF Empty, Conf, Refs, NoMount
<1>2. NoMount \notin Mount
  BY DEF NoMount, Mount, Kinds
<1>3. Idle \in Cmd /\ Idle.at = "idle" /\ Idle.name = "none" /\ Idle.next = Empty /\ Idle.mine = {}
  BY <1>1, CliAssumption DEF Idle, Cmd
<1> QED BY <1>1, <1>2, <1>3 DEF Absent, Torn, Whole, File

LEMMA IdleIsSound ==
  ASSUME NEW known PROVE Sound(Idle, known)
BY ConfTypes DEF Sound

\* A configuration loads whatever its references are.
LEMMA RefsDoNotMatter ==
  ASSUME NEW c \in Conf, NEW d \in Conf, c.vault = d.vault, c.flags = d.flags,
         \A i \in Ids : /\ c.mounts[i] = NoMount <=> d.mounts[i] = NoMount
                        /\ c.mounts[i].at = d.mounts[i].at /\ c.mounts[i].kind = d.mounts[i].kind
  PROVE  Declared(c.mounts) = Declared(d.mounts) /\ (Loads(c) <=> Loads(d))
<1>1. Declared(c.mounts) = Declared(d.mounts)
  BY DEF Declared
<1>2. TableLoads(c.mounts) <=> TableLoads(d.mounts)
  BY <1>1 DEF TableLoads, Declared
<1>3. (\A i \in Declared(c.mounts) : Gate(c.mounts[i].kind) \subseteq c.flags)
        <=> (\A i \in Declared(d.mounts) : Gate(d.mounts[i].kind) \subseteq d.flags)
  BY <1>1 DEF Declared
<1> QED BY <1>1, <1>2, <1>3 DEF Loads

LEMMA RefsAre ==
  ASSUME NEW c \in Conf
  PROVE  /\ \A r : r \in Refs(c) <=> (\E i \in Ids : r \in c.mounts[i].refs) \/ r \in c.auth \/ r \in c.embedding
         /\ Refs(c) \subseteq Ref
<1>1. \A i \in Ids : c.mounts[i].refs \subseteq Ref
  BY DEF Conf, Mount, NoMount
<1>2. c.auth \subseteq Ref /\ c.embedding \subseteq Ref
  BY DEF Conf
<1>3. ASSUME NEW r
      PROVE  r \in Refs(c) <=> (\E i \in Ids : r \in c.mounts[i].refs) \/ r \in c.auth \/ r \in c.embedding
  <2>1. r \in UNION {c.mounts[i].refs : i \in Ids} <=> \E i \in Ids : r \in c.mounts[i].refs
    OBVIOUS
  <2> DEFINE held == UNION {c.mounts[i].refs : i \in Ids}
  <2>2. Refs(c) = held \cup c.auth \cup c.embedding
    BY DEF Refs
  <2> HIDE DEF held
  <2>3. r \in Refs(c) <=> r \in held \/ r \in c.auth \/ r \in c.embedding
    BY <2>2
  <2> QED BY <2>1, <2>3 DEF held
<1>4. \A r \in Refs(c) : r \in Ref
  BY <1>1, <1>2, <1>3
<1> QED BY <1>3, <1>4

LEMMA CandidateIs ==
  ASSUME NEW c \in Conf, NEW a \in [id : Ids, at : Places, kind : Kinds]
  PROVE  /\ Candidate(c, a) \in Conf /\ Refs(Candidate(c, a)) \subseteq Refs(c)
         /\ Candidate(c, a).mounts[a.id] # NoMount
<1> DEFINE new == [at |-> a.at, kind |-> a.kind, refs |-> {}]
           root == [at |-> Top, kind |-> "filesystem", refs |-> {}]
           table == [BaseTable(c) EXCEPT ![a.id] = new]
           d == Candidate(c, a)
<1>1. new \in Mount /\ root \in Mount /\ new.refs = {} /\ root.refs = {}
  BY CliAssumption DEF Mount, Kinds
<1>2. c.mounts \in [Ids -> Mount \cup {NoMount}] /\ c.flags \subseteq Flags
  BY DEF Conf
<1> HIDE DEF new, root
<1>3. BaseTable(c) = IF c.vault THEN [c.mounts EXCEPT ![Legacy] = root] ELSE c.mounts
  BY DEF BaseTable, root
<1>4. /\ BaseTable(c) \in [Ids -> Mount \cup {NoMount}]
      /\ \A i \in Ids : BaseTable(c)[i] \in {root, c.mounts[i]}
  BY <1>1, <1>2, <1>3, CliAssumption
<1>5. /\ table \in [Ids -> Mount \cup {NoMount}] /\ table[a.id] = new
      /\ \A i \in Ids : table[i] \in {new, root, c.mounts[i]}
  BY <1>1, <1>4
<1> HIDE DEF table
<1>6. d = [c EXCEPT !.vault = FALSE, !.mounts = table,
                    !.flags = c.flags \cup Gate(a.kind) \cup
                              (IF Cardinality(Declared(table)) > 1 THEN {"multiVault"} ELSE {})]
  BY DEF Candidate, table, new
<1>7. Gate(a.kind) \subseteq Flags
  BY DEF Gate, Flags
<1>8. c.flags \cup Gate(a.kind) \cup (IF Cardinality(Declared(table)) > 1 THEN {"multiVault"} ELSE {}) \in SUBSET Flags
  BY <1>2, <1>7 DEF Flags
<1> HIDE DEF d
<1>9. d \in Conf /\ d.mounts = table /\ d.auth = c.auth /\ d.embedding = c.embedding
  BY <1>5, <1>6, <1>8 DEF Conf
<1>10. Refs(d) \subseteq Refs(c)
  BY <1>1, <1>5, <1>9, RefsAre
<1>11. d.mounts[a.id] # NoMount
  BY <1>1, <1>5, <1>9, ConfTypes
<1> QED BY <1>9, <1>10, <1>11 DEF d

\* A step that writes no file.
LEMMA FilesStay ==
  ASSUME CliInv, UNCHANGED Files, NEW k, cmd' = k, Sound(k, Known'), k.at # "backed",
         Known \subseteq Known', stored' \subseteq Ref, gone' \subseteq Ref, runs' \in 0 .. MaxCommands
  PROVE  CliInv'
<1>1. UNCHANGED <<config, bak, last, excused>>
  BY DEF Files
<1>2. TypeOK'
  BY <1>1 DEF CliInv, TypeOK, Sound
<1>3. Sound(cmd, Known)'
  BY DEF Sound
<1>4. FilesInv'
  BY <1>1 DEF CliInv, FilesInv
<1> QED BY <1>2, <1>3, <1>4 DEF CliInv

\* The end of a command, whatever it deletes.
LEMMA EndKeeps ==
  ASSUME CliInv, NEW D, Ends(D), UNCHANGED Files
  PROVE  CliInv'
<1>1. stored \subseteq Ref /\ gone \subseteq Ref /\ runs \in 0 .. MaxCommands
  BY DEF CliInv, TypeOK
<1>2. Known \subseteq Known' /\ stored' \subseteq Ref /\ gone' \subseteq Ref /\ runs' \in 0 .. MaxCommands /\ cmd' = Idle
  BY <1>1 DEF Ends, Known
<1> QED BY <1>2, IdleIsSound, ConfTypes, FilesStay

LEMMA RollBackKeeps ==
  ASSUME CliInv, RollsBack \/ Fails, UNCHANGED Files
  PROVE  CliInv'
BY EndKeeps DEF RollsBack, Fails

LEMMA PutIs ==
  ASSUME CliInv, NEW r \in Ref, Puts(r)
  PROVE  Known \subseteq Known' /\ r \in Known' /\ stored' \subseteq Ref /\ gone' \subseteq Ref
BY DEF CliInv, TypeOK, Puts, Known

LEMMA RefTypes ==
  /\ \A s \in Stores, i \in Ids, p \in Purposes : <<s, <<i, p>>>> \in Ref
  /\ \A s \in Stores : <<s, Token>> \in Ref /\ <<s, EmbeddingToken>> \in Ref
BY CliAssumption DEF Ref

\* Other credentials in the same configuration.
LEMMA CredentialsOf ==
  ASSUME NEW c \in Conf, NEW S \in SUBSET Ref
  PROVE  /\ [c EXCEPT !.embedding = S] \in Conf /\ Refs([c EXCEPT !.embedding = S]) \subseteq Refs(c) \cup S
         /\ [c EXCEPT !.auth = S] \in Conf /\ Refs([c EXCEPT !.auth = S]) \subseteq Refs(c) \cup S
         /\ Loads(c) => Loads([c EXCEPT !.auth = S])
<1>1. PICK d : d = [c EXCEPT !.embedding = S]
  OBVIOUS
<1>2. PICK e : e = [c EXCEPT !.auth = S]
  OBVIOUS
<1>3. d \in Conf /\ d.mounts = c.mounts /\ d.auth = c.auth /\ d.embedding = S
  BY <1>1 DEF Conf
<1>4. /\ e \in Conf /\ e.mounts = c.mounts /\ e.auth = S /\ e.embedding = c.embedding
      /\ e.vault = c.vault /\ e.flags = c.flags
  BY <1>2 DEF Conf
<1>5. Refs(d) \subseteq Refs(c) \cup S /\ Refs(e) \subseteq Refs(c) \cup S
  <2>1. \A r \in Refs(d) : r \in Refs(c) \cup S
    BY <1>3, RefsAre
  <2>2. \A r \in Refs(e) : r \in Refs(c) \cup S
    BY <1>4, RefsAre
  <2> QED BY <2>1, <2>2
<1>6. Loads(c) => Loads(e)
  BY <1>4 DEF Loads
<1> QED BY <1>1, <1>2, <1>3, <1>4, <1>5, <1>6

LEMMA CliNext == CliInv /\ [Next]_vars => CliInv'
<1> SUFFICES ASSUME CliInv, [Next]_vars PROVE CliInv'
  OBVIOUS
<1> USE CliAssumption
<1>0. /\ config \in File /\ config.conf \in Conf /\ bak \in File /\ bak.conf \in Conf /\ last \in File
      /\ cmd \in Cmd /\ cmd.next \in Conf /\ cmd.id \in Ids
      /\ cmd.todo \subseteq Purposes /\ cmd.mine \subseteq Ref /\ cmd.undo \subseteq Ref
      /\ stored \subseteq Ref /\ gone \subseteq Ref /\ runs \in 0 .. MaxCommands /\ runs \in Nat /\ excused \in BOOLEAN
      /\ Sound(cmd, Known) /\ Refs(cmd.next) \subseteq Known /\ cmd.mine \subseteq Known
      /\ Refs(config.conf) \subseteq Known /\ Refs(bak.conf) \subseteq Known
  BY DEF CliInv, TypeOK, File, Cmd, Sound, FilesInv
<1>1. ASSUME NEW k, cmd' = k, Sound(k, Known), k.at # "backed", UNCHANGED <<Files, Secrets>>, runs' \in 0 .. MaxCommands
      PROVE  CliInv'
  <2>1. Known' = Known /\ stored' = stored /\ gone' = gone
    BY <1>1 DEF Known, Secrets
  <2> QED BY <1>0, <1>1, <2>1, FilesStay
\* A command begins.
<1>2. ASSUME NEW k, Starts(k) PROVE cmd' = k /\ runs' \in 0 .. MaxCommands
  BY <1>0, <1>2 DEF Starts
<1>3. CASE Add
  <2>0. PICK a \in Additions(config.conf) : \E todo \in Needs(a.kind) :
          Starts([Idle EXCEPT !.name = "add", !.at = "store", !.id = a.id, !.todo = todo,
                              !.next = Candidate(config.conf, a)])
    BY <1>3 DEF Add
  <2>1. PICK todo \in Needs(a.kind) :
          Starts([Idle EXCEPT !.name = "add", !.at = "store", !.id = a.id, !.todo = todo,
                              !.next = Candidate(config.conf, a)])
    BY <2>0
  <2> DEFINE k == [Idle EXCEPT !.name = "add", !.at = "store", !.id = a.id, !.todo = todo,
                               !.next = Candidate(config.conf, a)]
  <2>2. a \in [id : Ids, at : Places, kind : Kinds] /\ Loads(Candidate(config.conf, a))
    BY DEF Additions
  <2>3. todo \subseteq Purposes
    BY DEF Needs, Purposes
  <2>4. /\ Candidate(config.conf, a) \in Conf /\ Refs(Candidate(config.conf, a)) \subseteq Known
        /\ Candidate(config.conf, a).mounts[a.id] # NoMount
    BY <1>0, <2>2, CandidateIs
  <2>5. /\ k \in Cmd /\ k.at = "store" /\ k.mine = {} /\ k.id = a.id
        /\ k.next = Candidate(config.conf, a)
    BY <2>2, <2>3, <2>4, ConfTypes DEF Cmd, Idle
  <2> HIDE DEF k
  <2>6. Sound(k, Known)
    BY <2>2, <2>4, <2>5 DEF Sound
  <2>7. cmd' = k /\ runs' \in 0 .. MaxCommands
    BY <1>2, <2>1 DEF k
  <2> QED BY <1>1, <1>3, <2>5, <2>6, <2>7 DEF Add
<1>4. CASE AddInWizard
  <2>0. PICK a \in Additions(cmd.next) : \E todo \in Needs(a.kind) : cmd' = Adding(a, todo)
    BY <1>4 DEF AddInWizard
  <2>1. PICK todo \in Needs(a.kind) : cmd' = Adding(a, todo)
    BY <2>0
  <2> DEFINE k == Adding(a, todo)
  <2>2. a \in [id : Ids, at : Places, kind : Kinds] /\ Loads(Candidate(cmd.next, a))
    BY DEF Additions
  <2>3. todo \subseteq Purposes
    BY DEF Needs, Purposes
  <2>4. /\ Candidate(cmd.next, a) \in Conf /\ Refs(Candidate(cmd.next, a)) \subseteq Known
        /\ Candidate(cmd.next, a).mounts[a.id] # NoMount
    BY <1>0, <2>2, CandidateIs
  <2>5. /\ k \in Cmd /\ k.at = "store" /\ k.mine = {} /\ k.id = a.id
        /\ k.next = Candidate(cmd.next, a)
    BY <1>0, <2>2, <2>3, <2>4 DEF Cmd, Adding
  <2> HIDE DEF k
  <2>6. Sound(k, Known)
    BY <2>2, <2>4, <2>5 DEF Sound
  <2>7. cmd' = k
    BY <2>1 DEF k
  <2>8. UNCHANGED <<Files, Secrets>> /\ runs' \in 0 .. MaxCommands
    BY <1>0, <1>4 DEF AddInWizard
  <2> QED BY <1>1, <2>5, <2>6, <2>7, <2>8
<1>5. CASE Store
  <2>1. PICK p \in cmd.todo, store \in Stores :
          Puts(<<store, <<cmd.id, p>>>>) /\ cmd' = Stored(<<store, <<cmd.id, p>>>>)
    BY <1>5 DEF Store
  <2>2. PICK r : r = <<store, <<cmd.id, p>>>>
    OBVIOUS
  <2>3. r \in Ref
    BY <1>0, <2>2, RefTypes
  <2>4. Known \subseteq Known' /\ r \in Known' /\ stored' \subseteq Ref /\ gone' \subseteq Ref
    BY <2>1, <2>2, <2>3, PutIs
  <2> DEFINE k == Stored(r)
  <2>5. k \in Cmd /\ k.at = cmd.at /\ k.next = cmd.next /\ k.id = cmd.id /\ k.mine = cmd.mine \cup {r}
    BY <1>0, <2>3 DEF Cmd, Stored
  <2> HIDE DEF k
  <2>6. Sound(k, Known')
    BY <1>0, <2>4, <2>5 DEF Sound
  <2>7. cmd' = k /\ k.at # "backed" /\ UNCHANGED Files /\ runs' \in 0 .. MaxCommands
    BY <1>0, <1>5, <2>1, <2>2, <2>5 DEF Store, k
  <2> QED BY <2>4, <2>6, <2>7, FilesStay
<1>6. CASE AllStored
  <2> DEFINE c == [cmd.next EXCEPT !.mounts[cmd.id].refs = cmd.mine]
             k == [cmd EXCEPT !.at = "probe", !.undo = cmd.undo \cup cmd.mine, !.next = c]
  <2>1. cmd' = k /\ cmd.at = "store" /\ UNCHANGED <<Files, Secrets, runs>>
    BY <1>6 DEF AllStored
  <2>2. Loads(cmd.next) /\ cmd.next.mounts[cmd.id] # NoMount
    BY <1>0, <2>1 DEF Sound
  <2>3. /\ cmd.next.mounts \in [Ids -> Mount \cup {NoMount}] /\ cmd.next.mounts[cmd.id] \in Mount
    BY <1>0, <2>2 DEF Conf
  <2> DEFINE m == [cmd.next.mounts[cmd.id] EXCEPT !.refs = cmd.mine]
             mounts == [cmd.next.mounts EXCEPT ![cmd.id] = m]
  <2>4. /\ m \in Mount /\ m.refs = cmd.mine /\ m.at = cmd.next.mounts[cmd.id].at
        /\ m.kind = cmd.next.mounts[cmd.id].kind
    BY <1>0, <2>3 DEF Mount
  <2>5. c = [cmd.next EXCEPT !.mounts = mounts]
    BY <1>0, <2>3 DEF Conf
  <2> HIDE DEF m
  <2>6. /\ mounts \in [Ids -> Mount \cup {NoMount}] /\ mounts[cmd.id] = m
        /\ \A i \in Ids \ {cmd.id} : mounts[i] = cmd.next.mounts[i]
    BY <1>0, <2>3, <2>4
  <2> HIDE DEF mounts, c
  <2>7. /\ c \in Conf /\ c.mounts = mounts /\ c.vault = cmd.next.vault /\ c.flags = cmd.next.flags
        /\ c.auth = cmd.next.auth /\ c.embedding = cmd.next.embedding
    BY <1>0, <2>5, <2>6 DEF Conf
  <2>8. Loads(c)
    <3>1. m # NoMount
      BY <2>4, ConfTypes
    <3>2. \A i \in Ids : /\ cmd.next.mounts[i] = NoMount <=> c.mounts[i] = NoMount
                         /\ cmd.next.mounts[i].at = c.mounts[i].at /\ cmd.next.mounts[i].kind = c.mounts[i].kind
      BY <2>2, <2>4, <2>6, <2>7, <3>1
    <3> QED BY <1>0, <2>2, <2>7, <3>2, RefsDoNotMatter
  <2>9. Refs(c) \subseteq Known
    <3>1. \A i \in Ids : c.mounts[i].refs \subseteq cmd.next.mounts[i].refs \cup cmd.mine
      BY <2>4, <2>6, <2>7
    <3>2. Refs(c) \subseteq Refs(cmd.next) \cup cmd.mine
      BY <1>0, <2>7, <3>1, RefsAre
    <3> QED BY <1>0, <3>2
  <2>10. k \in Cmd /\ k.at = "probe" /\ k.next = c /\ k.mine = cmd.mine
    BY <1>0, <2>7 DEF Cmd
  <2> HIDE DEF k
  <2>11. Sound(k, Known)
    BY <1>0, <2>8, <2>9, <2>10 DEF Sound
  <2> QED BY <1>0, <1>1, <2>1, <2>10, <2>11
<1>7. CASE StoreFails \/ ProbeFails \/ Abandon \/ ProvisionFails \/ WriteFails \/ InstallFails
  BY <1>7, RollBackKeeps DEF StoreFails, ProbeFails, Abandon, ProvisionFails, WriteFails, InstallFails
<1>8. CASE SkipWrite \/ Install \/ Killed
  BY <1>8, EndKeeps DEF SkipWrite, Install, Killed
<1>9. CASE Probe
  <2> DEFINE k == [cmd EXCEPT !.at = IF cmd.name = "add" THEN "write" ELSE "ask"]
  <2>1. cmd' = k /\ cmd.at = "probe" /\ UNCHANGED <<Files, Secrets, runs>>
    BY <1>9 DEF Probe
  <2>2. k \in Cmd /\ k.at \in {"write", "ask"} /\ k.next = cmd.next /\ k.mine = cmd.mine
    BY <1>0 DEF Cmd
  <2> HIDE DEF k
  <2>3. Sound(k, Known)
    BY <1>0, <2>1, <2>2 DEF Sound
  <2> QED BY <1>0, <1>1, <2>1, <2>2, <2>3
<1>10. CASE Remove
  <2>1. PICK i \in Declared(config.conf.mounts) :
          LET next == [config.conf EXCEPT !.mounts[i] = NoMount]
          IN  Loads(next) /\ Starts([Idle EXCEPT !.name = "remove", !.at = "write", !.next = next])
    BY <1>10 DEF Remove
  <2> DEFINE next == [config.conf EXCEPT !.mounts[i] = NoMount]
             k == [Idle EXCEPT !.name = "remove", !.at = "write", !.next = next]
  <2>2. next \in Conf /\ Refs(next) \subseteq Known
    <3>1. config.conf.mounts \in [Ids -> Mount \cup {NoMount}] /\ i \in Ids /\ NoMount.refs = {}
      BY <1>0 DEF Conf, Declared, NoMount
    <3>2. PICK mounts : mounts = [config.conf.mounts EXCEPT ![i] = NoMount]
      OBVIOUS
    <3>3. /\ mounts \in [Ids -> Mount \cup {NoMount}]
          /\ \A x \in Ids : mounts[x].refs \subseteq config.conf.mounts[x].refs
      BY <3>1, <3>2
    <3>4. next = [config.conf EXCEPT !.mounts = mounts]
      BY <1>0, <3>2 DEF Conf
    <3> HIDE DEF next
    <3>5. next \in Conf /\ next.mounts = mounts /\ next.auth = config.conf.auth /\ next.embedding = config.conf.embedding
      BY <1>0, <3>3, <3>4 DEF Conf
    <3>6. Refs(next) \subseteq Refs(config.conf)
      BY <1>0, <3>3, <3>5, RefsAre
    <3> QED BY <1>0, <3>5, <3>6
  <2>3. Loads(next) /\ Starts(k)
    BY <2>1
  <2> HIDE DEF next
  <2>4. k \in Cmd /\ k.at = "write" /\ k.next = next /\ k.mine = {}
    BY <2>2, ConfTypes DEF Cmd, Idle
  <2> HIDE DEF k
  <2>5. Sound(k, Known)
    BY <2>2, <2>3, <2>4 DEF Sound
  <2> QED BY <1>1, <1>2, <1>10, <2>3, <2>4, <2>5 DEF Remove
<1>11. CASE SecretsSet
  <2>1. PICK r \in Refs(config.conf) : Puts(r)
    BY <1>11 DEF SecretsSet
  <2>2. r \in Ref
    BY <1>0, RefsAre
  <2>3. Known \subseteq Known' /\ stored' \subseteq Ref /\ gone' \subseteq Ref
    BY <2>1, <2>2, PutIs
  <2>4. Starts(Idle) /\ UNCHANGED Files
    BY <1>11 DEF SecretsSet
  <2> QED BY <1>2, <2>3, <2>4, IdleIsSound, ConfTypes, FilesStay
<1>12. CASE SetupService
  <2> DEFINE c == [config.conf EXCEPT !.vault = TRUE]
             k == [Idle EXCEPT !.name = "setup", !.at = "provision", !.next = c]
  <2>1. Starts(k) /\ Declared(config.conf.mounts) = {} /\ UNCHANGED <<Files, Secrets>>
    BY <1>12 DEF SetupService
  <2>2. c \in Conf /\ c.mounts = config.conf.mounts /\ c.auth = config.conf.auth
        /\ c.embedding = config.conf.embedding /\ c.vault = TRUE
    BY <1>0 DEF Conf
  <2> HIDE DEF c
  <2>3. Loads(c) /\ Refs(c) \subseteq Known
    BY <1>0, <2>1, <2>2 DEF Loads, Refs
  <2>4. k \in Cmd /\ k.at = "provision" /\ k.next = c /\ k.mine = {}
    BY <2>2, ConfTypes DEF Cmd, Idle
  <2> HIDE DEF k
  <2>5. Sound(k, Known)
    BY <2>3, <2>4 DEF Sound
  <2> QED BY <1>1, <1>2, <2>1, <2>4, <2>5
<1>13. CASE Wizard
  <2>1. PICK local \in BOOLEAN :
          Starts([Idle EXCEPT !.name = "wizard", !.at = "ask",
                              !.next = [config.conf EXCEPT !.vault = config.conf.vault \/ local]])
    BY <1>13 DEF Wizard
  <2> DEFINE c == [config.conf EXCEPT !.vault = config.conf.vault \/ local]
             k == [Idle EXCEPT !.name = "wizard", !.at = "ask", !.next = c]
  <2>2. config.conf.vault \/ local \in BOOLEAN
    BY <1>0 DEF Conf
  <2>3. /\ c \in Conf /\ c.mounts = config.conf.mounts /\ c.auth = config.conf.auth
        /\ c.embedding = config.conf.embedding
    BY <1>0, <2>2 DEF Conf
  <2>4. Starts(k)
    BY <2>1
  <2> HIDE DEF c
  <2>5. Refs(c) \subseteq Known
    BY <1>0, <2>3 DEF Refs
  <2>6. k \in Cmd /\ k.at = "ask" /\ k.next = c /\ k.mine = {}
    BY <2>3, ConfTypes DEF Cmd, Idle
  <2> HIDE DEF k
  <2>7. Sound(k, Known)
    BY <2>5, <2>6 DEF Sound
  <2> QED BY <1>1, <1>2, <1>13, <2>4, <2>6, <2>7 DEF Wizard
<1>14. CASE EmbeddingKey
  <2>1. PICK store \in Stores :
          /\ Puts(<<store, EmbeddingToken>>)
          /\ cmd' = [cmd EXCEPT !.at = "recap", !.undo = @ \cup {<<store, EmbeddingToken>>},
                                !.next.embedding = {<<store, EmbeddingToken>>}]
    BY <1>14 DEF EmbeddingKey
  <2>2. PICK r \in Ref : r = <<store, EmbeddingToken>>
    BY RefTypes
  <2> DEFINE c == [cmd.next EXCEPT !.embedding = {r}]
             k == [cmd EXCEPT !.at = "recap", !.undo = cmd.undo \cup {r}, !.next = c]
  <2>3. c \in Conf /\ Refs(c) \subseteq Refs(cmd.next) \cup {r}
    BY <1>0, CredentialsOf
  <2>4. cmd' = k /\ Puts(r)
    BY <1>0, <2>1, <2>2 DEF Cmd
  <2> HIDE DEF c
  <2>5. Known \subseteq Known' /\ r \in Known' /\ stored' \subseteq Ref /\ gone' \subseteq Ref
    BY <2>4, PutIs
  <2>6. k \in Cmd /\ k.at = "recap" /\ k.next = c /\ k.mine = cmd.mine
    BY <1>0, <2>3 DEF Cmd
  <2> HIDE DEF k
  <2>7. Sound(k, Known')
    BY <1>0, <2>3, <2>5, <2>6 DEF Sound
  <2>8. UNCHANGED Files /\ runs' \in 0 .. MaxCommands
    BY <1>0, <1>14 DEF EmbeddingKey
  <2> QED BY <2>4, <2>5, <2>6, <2>7, <2>8, FilesStay
<1>15. CASE NoEmbeddingKey
  <2>1. PICK kept : /\ kept = {} \/ kept = cmd.next.embedding
                    /\ cmd' = [cmd EXCEPT !.at = "recap", !.next.embedding = kept]
    BY <1>15 DEF NoEmbeddingKey
  <2> DEFINE c == [cmd.next EXCEPT !.embedding = kept]
             k == [cmd EXCEPT !.at = "recap", !.next = c]
  <2>2. kept \in SUBSET Ref /\ kept \subseteq Known
    <3>1. cmd.next.embedding \subseteq Ref
      BY <1>0 DEF Conf
    <3>2. \A r \in cmd.next.embedding : r \in Known
      BY <1>0, RefsAre
    <3> QED BY <2>1, <3>1, <3>2
  <2>3. c \in Conf /\ Refs(c) \subseteq Refs(cmd.next) \cup kept
    BY <1>0, <2>2, CredentialsOf
  <2>4. cmd' = k
    BY <1>0, <2>1 DEF Cmd
  <2> HIDE DEF c
  <2>5. k \in Cmd /\ k.at = "recap" /\ k.next = c /\ k.mine = cmd.mine
    BY <1>0, <2>3 DEF Cmd
  <2> HIDE DEF k
  <2>6. Sound(k, Known)
    BY <1>0, <2>2, <2>3, <2>5 DEF Sound
  <2>7. UNCHANGED <<Files, Secrets>> /\ runs' \in 0 .. MaxCommands
    BY <1>0, <1>15 DEF NoEmbeddingKey
  <2> QED BY <1>1, <2>4, <2>5, <2>6, <2>7
<1>16. CASE Recap
  <2> DEFINE k == [cmd EXCEPT !.at = "provision"]
  <2>1. cmd' = k /\ Loads(cmd.next) /\ UNCHANGED <<Files, Secrets, runs>>
    BY <1>16 DEF Recap
  <2>2. k \in Cmd /\ k.at = "provision" /\ k.next = cmd.next /\ k.mine = cmd.mine
    BY <1>0 DEF Cmd
  <2> HIDE DEF k
  <2>3. Sound(k, Known)
    BY <1>0, <2>1, <2>2 DEF Sound
  <2> QED BY <1>0, <1>1, <2>1, <2>2, <2>3
\* The token is chosen, and the file is next.
<1>17. ASSUME NEW S \in SUBSET Ref, cmd.at = "provision", Provisioned(S), S \subseteq Known', Known \subseteq Known',
              stored' \subseteq Ref, gone' \subseteq Ref, UNCHANGED <<Files, runs>>
       PROVE  CliInv'
  <2> DEFINE c == [cmd.next EXCEPT !.auth = S]
             k == [cmd EXCEPT !.at = "write", !.next = c]
  <2>1. c \in Conf /\ Refs(c) \subseteq Refs(cmd.next) \cup S /\ (Loads(cmd.next) => Loads(c))
    BY <1>0, CredentialsOf
  <2>2. cmd' = k /\ Loads(cmd.next)
    BY <1>0, <1>17 DEF Cmd, Provisioned, Sound
  <2> HIDE DEF c
  <2>3. k \in Cmd /\ k.at = "write" /\ k.next = c /\ k.mine = cmd.mine
    BY <1>0, <2>1 DEF Cmd
  <2> HIDE DEF k
  <2>4. Sound(k, Known')
    BY <1>0, <1>17, <2>1, <2>2, <2>3 DEF Sound
  <2> QED BY <1>0, <1>17, <2>2, <2>3, <2>4, FilesStay
<1>18. cmd.next.auth \in SUBSET Ref /\ cmd.next.auth \subseteq Known
  BY <1>0, RefsAre DEF Conf, Refs
<1>19. CASE EnableAuth
  <2>1. CASE cmd.next.auth # {}
    <3>1. Provisioned(cmd.next.auth) /\ UNCHANGED Secrets /\ UNCHANGED <<Files, runs>> /\ cmd.at = "provision"
      BY <1>19, <2>1 DEF EnableAuth
    <3>2. stored' = stored /\ gone' = gone /\ Known' = Known
      BY <3>1 DEF Secrets, Known
    <3> QED BY <1>0, <1>17, <1>18, <3>1, <3>2
  <2>2. CASE cmd.next.auth = {}
    <3>1. PICK store \in Stores : Puts(<<store, Token>>) /\ Provisioned({<<store, Token>>})
      BY <1>19, <2>2 DEF EnableAuth
    <3>2. PICK r \in Ref : r = <<store, Token>>
      BY RefTypes
    <3>3. Known \subseteq Known' /\ r \in Known' /\ stored' \subseteq Ref /\ gone' \subseteq Ref
      BY <3>1, <3>2, PutIs
    <3>4. Provisioned({r}) /\ UNCHANGED <<Files, runs>> /\ cmd.at = "provision"
      BY <1>19, <3>1, <3>2 DEF EnableAuth
    <3> QED BY <1>17, <3>3, <3>4
  <2> QED BY <2>1, <2>2
<1>20. CASE DisableAuth
  <2>1. PICK D : stored' = stored \ D /\ gone' = gone \cup (D \cap stored)
    BY <1>20 DEF DisableAuth
  <2>2. Known \subseteq Known' /\ stored' \subseteq Ref /\ gone' \subseteq Ref
    BY <1>0, <2>1 DEF Known
  <2>3. Provisioned({}) /\ UNCHANGED <<Files, runs>> /\ cmd.at = "provision"
    BY <1>20 DEF DisableAuth
  <2>4. {} \in SUBSET Ref
    OBVIOUS
  <2> QED BY <1>17, <2>2, <2>3, <2>4
<1>21. CASE KeepAuth
  <2>1. Provisioned(cmd.next.auth) /\ UNCHANGED Secrets /\ UNCHANGED <<Files, runs>> /\ cmd.at = "provision"
    BY <1>21 DEF KeepAuth
  <2>2. stored' = stored /\ gone' = gone /\ Known' = Known
    BY <2>1 DEF Secrets, Known
  <2> QED BY <1>0, <1>17, <1>18, <2>1, <2>2
\* The files.
<1>22. ASSUME NEW k, cmd' = k, Sound(k, Known'), config' \in File, bak' \in File, last' \in File,
              excused' \in BOOLEAN, stored' \subseteq Ref, gone' \subseteq Ref, runs' \in 0 .. MaxCommands, FilesInv'
       PROVE  CliInv'
  <2>1. TypeOK'
    BY <1>22 DEF TypeOK, Sound
  <2> QED BY <1>22, <2>1 DEF CliInv, Sound
<1>23. CASE BackUp
  <2> DEFINE k == [cmd EXCEPT !.at = "backed"]
  <2>1. /\ cmd' = k /\ cmd.at = "write" /\ UNCHANGED <<config, last, Secrets, runs>>
        /\ bak' = IF config.is = "absent" \/ config = Whole(cmd.next) THEN bak ELSE config
        /\ excused' = (config = Whole(cmd.next) \/ config.is = "torn")
    BY <1>23 DEF BackUp
  <2>2. k \in Cmd /\ k.at = "backed" /\ k.next = cmd.next /\ k.mine = cmd.mine
    BY <1>0 DEF Cmd
  <2>3. UNCHANGED <<stored, gone>> /\ Known' = Known
    BY <2>1 DEF Secrets, Known
  <2> HIDE DEF k
  <2>4. Sound(k, Known')
    BY <1>0, <2>1, <2>2, <2>3 DEF Sound
  <2>5. config.is \in {"absent", "torn", "whole"}
    BY <1>0 DEF File
  <2>6. FilesInv'
    <3>1. FilesInv
      BY DEF CliInv
    <3>2. bak'.is = "whole" => Loads(bak'.conf)
      BY <2>1, <3>1 DEF FilesInv
    <3>3. Refs(bak'.conf) \subseteq Known'
      BY <1>0, <2>1, <2>3
    <3>4. config.is # "torn" /\ config # Whole(cmd.next) => bak' = last
      BY <2>1, <2>5, <3>1 DEF FilesInv
    <3>5. config.is = "absent" => bak' = last
      BY <2>1, <3>1 DEF FilesInv
    <3> QED BY <2>1, <2>2, <2>3, <3>1, <3>2, <3>3, <3>4, <3>5 DEF FilesInv
  <2>7. bak' \in File
    BY <1>0, <2>1
  <2>8. excused' \in BOOLEAN
    BY <2>1
  <2> QED BY <1>0, <1>22, <2>1, <2>3, <2>4, <2>6, <2>7, <2>8
<1>24. CASE BackUpFails
  <2>1. /\ config.is # "absent" /\ bak' = Torn /\ excused' = (excused \/ config.is = "torn")
        /\ Fails /\ UNCHANGED <<config, last>>
    BY <1>24 DEF BackUpFails
  <2>2. PICK D : Ends(D)
    BY <2>1 DEF Fails, RollsBack
  <2>3. /\ Known \subseteq Known' /\ stored' \subseteq Ref /\ gone' \subseteq Ref /\ cmd' = Idle
        /\ runs' \in 0 .. MaxCommands
    BY <1>0, <2>2 DEF Ends, Known
  <2>4. FilesInv'
    <3>1. FilesInv
      BY DEF CliInv
    <3>2. Torn.is = "torn" /\ Torn.conf = Empty /\ Refs(Torn.conf) = {}
      BY ConfTypes DEF Torn
    <3> QED BY <1>0, <2>1, <2>3, <3>1, <3>2, ConfTypes DEF FilesInv
  <2>5. excused' \in BOOLEAN
    BY <2>1
  <2> QED BY <1>0, <1>22, <2>1, <2>3, <2>4, <2>5, IdleIsSound, ConfTypes
<1>25. CASE Truncate
  <2> DEFINE k == [cmd EXCEPT !.at = "writing"]
  <2>1. cmd' = k /\ cmd.at = "backed" /\ config' = Torn /\ UNCHANGED <<bak, last, excused, Secrets, runs>>
    BY <1>25 DEF Truncate
  <2>2. k \in Cmd /\ k.at = "writing" /\ k.next = cmd.next /\ k.mine = cmd.mine
    BY <1>0 DEF Cmd
  <2>3. UNCHANGED <<stored, gone>> /\ Known' = Known
    BY <2>1 DEF Secrets, Known
  <2> HIDE DEF k
  <2>4. Sound(k, Known')
    BY <1>0, <2>1, <2>2, <2>3 DEF Sound
  <2>5. FilesInv'
    <3>1. FilesInv
      BY DEF CliInv
    <3>2. Torn.is = "torn" /\ Torn.conf = Empty /\ Refs(Torn.conf) = {}
      BY ConfTypes DEF Torn
    <3> QED BY <1>0, <2>1, <2>2, <2>3, <3>1, <3>2 DEF FilesInv
  <2> QED BY <1>0, <1>22, <2>1, <2>3, <2>4, <2>5, ConfTypes
<1>26. CASE Fill
  <2> DEFINE k == [cmd EXCEPT !.at = "install"]
  <2>1. /\ cmd.at = "writing" /\ config' = Whole(cmd.next) /\ last' = Whole(cmd.next)
        /\ cmd' = k \/ cmd' = Idle
        /\ UNCHANGED <<bak, excused, Secrets, runs>>
    BY <1>26 DEF Fill
  <2>2. k \in Cmd /\ k.at = "install" /\ k.next = cmd.next /\ k.mine = cmd.mine
    BY <1>0 DEF Cmd
  <2>3. UNCHANGED <<stored, gone>> /\ Known' = Known
    BY <2>1 DEF Secrets, Known
  <2> HIDE DEF k
  <2>4. Sound(cmd', Known') /\ cmd'.at # "backed"
    <3>1. Sound(k, Known')
      BY <1>0, <2>2, <2>3 DEF Sound
    <3> QED BY <2>1, <2>2, <3>1, IdleIsSound, ConfTypes
  <2>5. FilesInv'
    <3>1. FilesInv
      BY DEF CliInv
    <3>2. Loads(cmd.next)
      BY <1>0, <2>1 DEF Sound
    <3>3. config'.is = "whole" /\ config'.conf = cmd.next
      BY <2>1 DEF Whole
    <3> QED BY <1>0, <2>1, <2>3, <2>4, <3>1, <3>2, <3>3 DEF FilesInv
  <2> QED BY <1>0, <1>22, <2>1, <2>3, <2>4, <2>5, ConfTypes
<1>27. CASE Edit
  <2>1. PICK i \in Declared(config.conf.mounts), j \in Declared(config.conf.mounts) :
          LET next == [config.conf EXCEPT !.mounts[i].refs = config.conf.mounts[j].refs]
          IN  config' = Whole(next) /\ last' = Whole(next)
    BY <1>27 DEF Edit
  <2>2. config.is = "whole" /\ Starts(Idle) /\ UNCHANGED <<bak, excused, Secrets>>
    BY <1>27 DEF Edit
  <2>3. UNCHANGED <<stored, gone>> /\ Known' = Known
    BY <2>2 DEF Secrets, Known
  <2> DEFINE m == [config.conf.mounts[i] EXCEPT !.refs = config.conf.mounts[j].refs]
             mounts == [config.conf.mounts EXCEPT ![i] = m]
             next == [config.conf EXCEPT !.mounts = mounts]
  <2>4. /\ config.conf.mounts \in [Ids -> Mount \cup {NoMount}] /\ i \in Ids /\ j \in Ids
        /\ config.conf.mounts[i] \in Mount /\ config.conf.mounts[j] \in Mount
    BY <1>0 DEF Conf, Declared
  <2>5. /\ m \in Mount /\ m.refs = config.conf.mounts[j].refs /\ m.at = config.conf.mounts[i].at
        /\ m.kind = config.conf.mounts[i].kind /\ m # NoMount /\ config.conf.mounts[i] # NoMount
    BY <2>4, ConfTypes DEF Mount
  <2>6. config' = Whole(next) /\ last' = Whole(next)
    BY <1>0, <2>1, <2>4 DEF Conf
  <2> HIDE DEF m
  <2>7. /\ mounts \in [Ids -> Mount \cup {NoMount}] /\ mounts[i] = m
        /\ \A x \in Ids \ {i} : mounts[x] = config.conf.mounts[x]
    BY <2>4, <2>5
  <2> HIDE DEF mounts
  <2>8. /\ next \in Conf /\ next.mounts = mounts /\ next.vault = config.conf.vault /\ next.flags = config.conf.flags
        /\ next.auth = config.conf.auth /\ next.embedding = config.conf.embedding
    BY <1>0, <2>7 DEF Conf
  <2> HIDE DEF next
  <2>9. Loads(next)
    <3>1. \A x \in Ids : /\ config.conf.mounts[x] = NoMount <=> next.mounts[x] = NoMount
                         /\ config.conf.mounts[x].at = next.mounts[x].at
                         /\ config.conf.mounts[x].kind = next.mounts[x].kind
      BY <2>5, <2>7, <2>8
    <3>2. Loads(config.conf)
      BY <2>2 DEF CliInv, FilesInv
    <3> QED BY <1>0, <2>8, <3>1, <3>2, RefsDoNotMatter
  <2>10. Refs(next) \subseteq Known
    <3>1. \A x \in Ids : \E y \in Ids : next.mounts[x].refs = config.conf.mounts[y].refs
      BY <2>4, <2>5, <2>7, <2>8
    <3>2. Refs(next) \subseteq Refs(config.conf)
      BY <1>0, <2>8, <3>1, RefsAre
    <3> QED BY <1>0, <3>2
  <2>11. config'.is = "whole" /\ config'.conf = next /\ config' \in File
    BY <2>6, <2>8, ConfTypes DEF Whole
  <2>12. cmd' = Idle /\ runs' \in 0 .. MaxCommands
    BY <1>2, <2>2
  <2>13. FilesInv'
    BY <1>0, <2>2, <2>3, <2>6, <2>9, <2>10, <2>11, <2>12, ConfTypes DEF CliInv, FilesInv
  <2> QED BY <1>0, <1>22, <2>2, <2>3, <2>6, <2>11, <2>12, <2>13, IdleIsSound
<1>28. CASE Restore
  <2>1. /\ bak.is = "whole" /\ config' = bak /\ last' = bak /\ bak' = Absent
        /\ Starts(Idle) /\ UNCHANGED <<excused, Secrets>>
    BY <1>28 DEF Restore
  <2>2. UNCHANGED <<stored, gone>> /\ Known' = Known
    BY <2>1 DEF Secrets, Known
  <2>3. cmd' = Idle /\ runs' \in 0 .. MaxCommands
    BY <1>2, <2>1
  <2>4. Absent.is = "absent" /\ Refs(Absent.conf) = {}
    BY ConfTypes DEF Absent
  <2>5. FilesInv'
    BY <1>0, <2>1, <2>2, <2>3, <2>4, ConfTypes DEF CliInv, FilesInv
  <2> QED BY <1>0, <1>22, <2>1, <2>2, <2>3, <2>5, IdleIsSound, ConfTypes
<1>29. CASE UNCHANGED vars
  <2>1. UNCHANGED <<config, bak, stored, cmd, runs, gone, last, excused>> /\ Known' = Known
    BY <1>29 DEF vars, Known
  <2>2. FilesInv'
    BY <2>1 DEF CliInv, FilesInv
  <2> QED BY <1>0, <1>22, <2>1, <2>2
<1> QED
  BY <1>3, <1>4, <1>5, <1>6, <1>7, <1>8, <1>9, <1>10, <1>11, <1>12, <1>13, <1>14, <1>15, <1>16,
     <1>19, <1>20, <1>21, <1>23, <1>24, <1>25, <1>26, <1>27, <1>28, <1>29 DEF Next

LEMMA CliInit == Init => CliInv
<1> SUFFICES ASSUME Init PROVE CliInv
  OBVIOUS
<1>1. Absent.is = "absent" /\ Absent.conf = Empty /\ Refs(Absent.conf) = {}
  BY ConfTypes DEF Absent
<1>2. TypeOK
  <2>1. 0 \in 0 .. MaxCommands
    BY CliAssumption
  <2> QED BY <2>1, ConfTypes DEF Init, TypeOK
<1>3. FilesInv
  BY <1>1, ConfTypes DEF Init, FilesInv
<1> QED BY <1>2, <1>3, IdleIsSound DEF Init, CliInv

LEMMA CliInvariance == Spec => []CliInv
BY CliInit, CliNext, PTL DEF Spec

----------------------------------------------------------------------------
(* What the commands leave.                                                *)

\* Whatever command is cut off, killed or fails at whatever step, a whole
\* configuration file loads and its references hold their credentials, but for
\* those a rollback or disabling auth deleted (mounts_cmd.rs, wizard.rs,
\* commands.rs, secrets_cmd.rs).
THEOREM ConfigurationServes == Spec => []ConfigServes
<1>1. CliInv => ConfigServes
  BY DEF CliInv, FilesInv, Known, ConfigServes
<1> QED BY <1>1, CliInvariance, PTL

\* The file that write_config_file leaves torn has its last whole version next to
\* it, as back_up_config_before_overwrite kept it, unless it was rewritten
\* unchanged or was unreadable before.
THEOREM ConfigurationIsRecoverable == Spec => []Recoverable
<1>1. CliInv => Recoverable
  BY DEF CliInv, FilesInv, Recoverable
<1> QED BY <1>1, CliInvariance, PTL

----------------------------------------------------------------------------
(* The tables they load as, and the namespace served from those.           *)

\* normalize_mounts leaves a table of its mounts in whatever order they are
\* listed: their ids and places differ, and one of them is the root.
LEMMA LoadedIsTable ==
  ASSUME NEW mounts \in [Ids -> Mount \cup {NoMount}], TableLoads(mounts), NEW table \in TablesOf(mounts)
  PROVE  IsTable(table, Folders)
<1> PICK D : D = Declared(mounts)
  OBVIOUS
<1>1. IsFiniteSet(D) /\ \A i \in D : mounts[i].at \in Places
  <2>1. D \in SUBSET Ids /\ \A i \in D : mounts[i] \in Mount
    BY DEF Declared
  <2> QED BY <2>1, FS_Subset, CliAssumption DEF Mount
<1> PICK n : n = Cardinality(D)
  OBVIOUS
<1>2. n \in Nat /\ IsFiniteSet(1 .. n) /\ Cardinality(1 .. n) = n
  BY <1>1, FS_CardinalityType, FS_Interval
<1>3. PICK order \in Bijections(D) :
        table = [k \in DOMAIN order |-> [id |-> order[k], at |-> NamesOf[mounts[order[k]].at],
                                         kind |-> mounts[order[k]].kind]]
  BY DEF TablesOf
<1>4. order \in [1 .. n -> D] /\ \A i, j \in 1 .. n : order[i] = order[j] => i = j
  BY DEF Bijections
<1>5. \A i \in D : \E k \in 1 .. n : order[k] = i
  <2>1. order \in Injection(1 .. n, D)
    BY <1>4 DEF Injection, IsInjective
  <2>2. order \in Surjection(1 .. n, D)
    BY <1>1, <1>2, <2>1, FS_Injection
  <2> QED BY <2>2 DEF Surjection
<1>6. /\ DOMAIN table = 1 .. n
      /\ \A k \in 1 .. n : /\ order[k] \in D /\ table[k].id = order[k]
                           /\ table[k].at = NamesOf[mounts[order[k]].at]
  BY <1>3, <1>4
<1>7. \A k \in DOMAIN table : table[k].at \in Seq(Folders)
  BY <1>1, <1>6, NamespaceAssumption
<1>8. \A i, j \in DOMAIN table : table[i].at = table[j].at => i = j
  <2> SUFFICES ASSUME NEW i \in 1 .. n, NEW j \in 1 .. n, table[i].at = table[j].at PROVE i = j
    BY <1>6
  <2>1. mounts[order[i]].at = mounts[order[j]].at
    BY <1>1, <1>6, NamespaceAssumption
  <2>2. order[i] = order[j]
    BY <1>6, <2>1 DEF TableLoads
  <2> QED BY <1>4, <2>2
<1>9. \A i, j \in DOMAIN table : table[i].id = table[j].id => i = j
  BY <1>4, <1>6
<1>10. \E i \in DOMAIN table : table[i].at = <<>>
  <2>1. PICK i \in D : mounts[i].at = Top
    BY DEF TableLoads
  <2>2. PICK k \in 1 .. n : order[k] = i
    BY <1>5
  <2> QED BY <1>6, <2>1, <2>2, NamespaceAssumption
<1>11. DOMAIN table = 1 .. Len(table) /\ Len(table) \in Nat
  <2>1. table = [k \in 1 .. n |-> table[k]]
    BY <1>3, <1>4
  <2>2. table \in Seq({table[k] : k \in 1 .. n})
    BY <1>2, <2>1
  <2> QED BY <2>2
<1> QED BY <1>7, <1>8, <1>9, <1>10, <1>11 DEF IsTable

\* base_mount_table: of a legacy vault the root mount alone.
LEMMA BaseTableLoads ==
  ASSUME NEW c \in Conf, Loads(c)
  PROVE  BaseTable(c) \in [Ids -> Mount \cup {NoMount}] /\ TableLoads(BaseTable(c))
<1>1. c.mounts \in [Ids -> Mount \cup {NoMount}] /\ c.vault \in BOOLEAN
  BY DEF Conf
<1>2. CASE c.vault
  <2>1. Declared(c.mounts) = {}
    BY <1>2 DEF Loads
  <2>2. PICK root : root = [at |-> Top, kind |-> "filesystem", refs |-> {}]
    OBVIOUS
  <2>3. root \in Mount /\ root.at = Top /\ root # NoMount
    BY <2>2, CliAssumption, ConfTypes DEF Mount, Kinds
  <2>4. BaseTable(c) = [c.mounts EXCEPT ![Legacy] = root]
    BY <1>2, <2>2 DEF BaseTable
  <2>5. /\ BaseTable(c) \in [Ids -> Mount \cup {NoMount}] /\ BaseTable(c)[Legacy] = root
        /\ \A i \in Ids \ {Legacy} : BaseTable(c)[i] = NoMount
    BY <1>1, <2>1, <2>3, <2>4, CliAssumption DEF Declared
  <2>6. Declared(BaseTable(c)) = {Legacy}
    BY <2>3, <2>5, CliAssumption DEF Declared
  <2> QED BY <2>3, <2>5, <2>6 DEF TableLoads
<1>3. CASE ~c.vault
  BY <1>1, <1>3 DEF Loads, BaseTable
<1> QED BY <1>1, <1>2, <1>3

\* What credentials the mounts refer to does not show in the tables.
LEMMA EveryLoadedTable ==
  ASSUME NEW mounts \in [Ids -> Mount \cup {NoMount}], TableLoads(mounts)
  PROVE  TablesOf(mounts) \subseteq Tables
<1> DEFINE New(p, k) == [at |-> p, kind |-> k, refs |-> {}]
           Bare == {NoMount} \cup {New(p, k) : p \in Places, k \in Kinds}
<1>1. PICK bare : bare = [i \in Ids |-> IF mounts[i] = NoMount THEN NoMount
                                        ELSE [at |-> mounts[i].at, kind |-> mounts[i].kind, refs |-> {}]]
  OBVIOUS
<1>2. \A i \in Ids : /\ bare[i] = NoMount <=> mounts[i] = NoMount
                     /\ bare[i].at = mounts[i].at /\ bare[i].kind = mounts[i].kind
                     /\ bare[i] \in Bare
  <2> SUFFICES ASSUME NEW i \in Ids
               PROVE  /\ bare[i] = NoMount <=> mounts[i] = NoMount
                      /\ bare[i].at = mounts[i].at /\ bare[i].kind = mounts[i].kind
                      /\ bare[i] \in Bare
    OBVIOUS
  <2>1. CASE mounts[i] = NoMount
    BY <1>1, <2>1
  <2>2. CASE mounts[i] # NoMount
    <3>1. mounts[i] \in Mount /\ mounts[i].at \in Places /\ mounts[i].kind \in Kinds
      BY <2>2 DEF Mount
    <3>2. PICK new : new = [at |-> mounts[i].at, kind |-> mounts[i].kind, refs |-> {}]
      OBVIOUS
    <3>3. new \in Bare
      <4>1. new = New(mounts[i].at, mounts[i].kind)
        BY <3>2
      <4> HIDE DEF New
      <4> QED BY <3>1, <4>1
    <3>4. bare[i] = new
      BY <1>1, <2>2, <3>2
    <3> HIDE DEF Bare
    <3>5. new \in Mount /\ new.at = mounts[i].at /\ new.kind = mounts[i].kind
      BY <3>1, <3>2 DEF Mount
    <3> QED BY <2>2, <3>3, <3>4, <3>5, ConfTypes
  <2> QED BY <2>1, <2>2
<1> HIDE DEF Bare
<1>3. bare \in [Ids -> Bare]
  BY <1>1, <1>2
<1>4. Declared(bare) = Declared(mounts)
  BY <1>2 DEF Declared
<1>5. TableLoads(bare)
  BY <1>2, <1>4 DEF TableLoads, Declared
<1>6. ASSUME NEW table \in TablesOf(mounts) PROVE table \in TablesOf(bare)
  <2>1. PICK order \in Bijections(Declared(mounts)) :
          table = [k \in DOMAIN order |-> [id |-> order[k], at |-> NamesOf[mounts[order[k]].at],
                                           kind |-> mounts[order[k]].kind]]
    BY DEF TablesOf
  <2>2. \A k \in DOMAIN order : order[k] \in Ids
    BY DEF Bijections, Declared
  <2>3. table = [k \in DOMAIN order |-> [id |-> order[k], at |-> NamesOf[bare[order[k]].at],
                                         kind |-> bare[order[k]].kind]]
    BY <1>2, <2>1, <2>2
  <2> QED BY <1>4, <2>3 DEF TablesOf
<1>7. TablesOf(bare) \subseteq Tables
  BY <1>3, <1>5 DEF Tables, Bare, New
<1> QED BY <1>6, <1>7

\* What is served is a table that loads.
LEMMA ServedTables ==
  ASSUME CliInv, Loads(config.conf), NEW table \in TablesOf(BaseTable(config.conf)) \cup Handwritten
  PROVE  table \in Tables \cup Handwritten /\ IsTable(table, Folders)
<1>1. PICK c \in Conf : c = config.conf
  BY DEF CliInv, TypeOK, File
<1>2. PICK mounts \in [Ids -> Mount \cup {NoMount}] : mounts = BaseTable(c) /\ TableLoads(mounts)
  BY <1>1, BaseTableLoads
<1>3. CASE table \in Handwritten
  BY <1>3, NamespaceAssumption
<1>4. CASE table \in TablesOf(mounts)
  BY <1>2, <1>4, LoadedIsTable, EveryLoadedTable
<1> QED BY <1>1, <1>2, <1>3, <1>4

\* Whatever the commands leave, and however they are interleaved with edits and
\* cut off: the file that loads is served as one whole namespace, the tables
\* written by hand as well (MountBackends::build, router.rs).
THEOREM NamespaceWhole == Spec => []NamespaceIsWhole
<1>1. CliInv => NamespaceIsWhole
  BY ServedTables, EveryTableIsWhole DEF NamespaceIsWhole, WholeTables
<1> QED BY <1>1, CliInvariance, PTL

----------------------------------------------------------------------------
(* Counting, and what is defined by it.                                    *)

Advances(Good, N) == 0 \in Good /\ \A n \in 1 .. N : n - 1 \in Good => n \in Good

LEMMA Counting ==
  ASSUME NEW N \in Nat, NEW Good, Advances(Good, N)
  PROVE  0 .. N \subseteq Good
<1> SUFFICES ASSUME NEW c \in 0 .. N, c \notin Good PROVE FALSE
  OBVIOUS
<1>0. 0 \in Good /\ \A n \in 1 .. N : n - 1 \in Good => n \in Good
  BY DEF Advances
<1>1. PICK Bad : Bad = {n \in 0 .. N : n \notin Good}
  OBVIOUS
<1>2. Bad \subseteq Nat /\ Bad # {}
  BY <1>1
<1>3. PICK n \in Bad : \A y \in Bad : n <= y
  BY <1>2, LeastNatural
<1>4. n \in 1 .. N
  BY <1>0, <1>1, <1>3
<1>5. n - 1 \notin Bad /\ n - 1 \in 0 .. N
  BY <1>1, <1>3, <1>4
<1> QED BY <1>0, <1>1, <1>3, <1>4, <1>5

\* A function defined by counting exists.
CountsUp(g, N, V, base, step) ==
  g \in [0 .. N -> V] /\ g[0] = base /\ (\A n \in 1 .. N : g[n] = step[n][g[n - 1]])

LEMMA Counted ==
  ASSUME NEW N \in Nat, NEW V, NEW base \in V, NEW step \in [1 .. N -> [V -> V]]
  PROVE  \E g : CountsUp(g, N, V, base, step)
<1> DEFINE Values(g, n) == g \in [0 .. n -> V] /\ g[0] = base /\ \A i \in 1 .. n : g[i] = step[i][g[i - 1]]
           Good == {n \in 0 .. N : \E g : Values(g, n)}
<1>1. 0 \in Good
  <2>1. PICK g : g = [i \in 0 .. 0 |-> base]
    OBVIOUS
  <2>2. Values(g, 0)
    BY <2>1
  <2> QED BY <2>2
<1>2. ASSUME NEW n \in 1 .. N, n - 1 \in Good PROVE n \in Good
  <2>1. PICK k, g : k = n - 1 /\ Values(g, k)
    BY <1>2
  <2>2. k \in Nat /\ n = k + 1 /\ k \in 0 .. k
    BY <2>1
  <2>3. g[k] \in V /\ step[n][g[k]] \in V
    BY <2>1, <2>2
  <2>4. PICK h : h = [i \in 0 .. n |-> IF i = n THEN step[n][g[k]] ELSE g[i]]
    OBVIOUS
  <2>5. \A i \in 0 .. n : i = n \/ i \in 0 .. k
    BY <2>2
  <2>6. h \in [0 .. n -> V]
    BY <2>1, <2>3, <2>4, <2>5
  <2>7. \A i \in 0 .. k : i \in 0 .. n /\ i # n /\ h[i] = g[i]
    BY <2>2, <2>4
  <2>8. h[0] = base
    BY <2>1, <2>2, <2>7
  <2>9. ASSUME NEW i \in 1 .. n PROVE h[i] = step[i][h[i - 1]]
    <3>1. i - 1 \in 0 .. k /\ (i = n <=> i - 1 = k)
      BY <2>2
    <3>2. CASE i = n
      BY <2>4, <2>7, <3>1, <3>2
    <3>3. CASE i # n
      <4>1. i \in 1 .. k /\ i \in 0 .. k
        BY <2>2, <3>3
      <4> QED BY <2>1, <2>7, <3>1, <4>1
    <3> QED BY <3>2, <3>3
  <2>10. Values(h, n)
    BY <2>6, <2>8, <2>9
  <2> QED BY <2>10
<1>3. Advances(Good, N)
  BY <1>1, <1>2 DEF Advances
<1> HIDE DEF Good
<1>4. N \in 0 .. N
  OBVIOUS
<1>5. N \in Good
  BY <1>3, <1>4, Counting
<1> QED BY <1>5 DEF Good, CountsUp

----------------------------------------------------------------------------
(* The first matches.                                                      *)

IsJoin(c, a, b) ==
  /\ Len(a) \in Nat /\ Len(b) \in Nat /\ Len(c) = Len(a) + Len(b)
  /\ \A m \in 1 .. Len(a) : m \in 1 .. Len(c) /\ c[m] = a[m]
  /\ \A m \in 1 .. Len(b) : Len(a) + m \in 1 .. Len(c) /\ c[Len(a) + m] = b[m]

LEMMA BothAreThere ==
  ASSUME NEW X, NEW a \in Seq(X), NEW b \in Seq(X)
  PROVE  IsJoin(a \o b, a, b)
<1> PICK la, lb, c : la = Len(a) /\ lb = Len(b) /\ c = a \o b
  OBVIOUS
<1>1. la \in Nat /\ lb \in Nat
  BY LenProperties
<1>2. /\ Len(c) = la + lb
      /\ \A m \in 1 .. la + lb : c[m] = IF m <= la THEN a[m] ELSE b[m - la]
  BY ConcatProperties
<1>3. ASSUME NEW m \in 1 .. la PROVE m \in 1 .. la + lb /\ c[m] = a[m]
  <2>1. m \in 1 .. la + lb /\ m <= la
    BY <1>1
  <2> QED BY <1>2, <2>1
<1>4. ASSUME NEW m \in 1 .. lb PROVE la + m \in 1 .. la + lb /\ c[la + m] = b[m]
  <2>1. PICK k : k = la + m
    OBVIOUS
  <2>2. k \in 1 .. la + lb /\ ~(k <= la) /\ k - la = m
    BY <1>1, <2>1
  <2> QED BY <1>2, <2>1, <2>2
<1> QED BY <1>1, <1>2, <1>3, <1>4 DEF IsJoin

LEMMA FirstMatches ==
  ASSUME NEW X, NEW s \in Seq(X), NEW n \in Nat
  PROVE  /\ FirstOf(s, n) \in Seq(X) /\ Len(FirstOf(s, n)) = IF Len(s) <= n THEN Len(s) ELSE n
         /\ \A i \in 1 .. Len(FirstOf(s, n)) : FirstOf(s, n)[i] = s[i]
<1>1. Len(s) \in Nat /\ \A i \in 1 .. Len(s) : s[i] \in X
  BY LenProperties, ElementOfSeq
<1>2. CASE Len(s) <= n
  BY <1>2 DEF FirstOf
<1>3. CASE ~(Len(s) <= n)
  <2>1. FirstOf(s, n) = SubSeq(s, 1, n)
    BY <1>3 DEF FirstOf, Upto
  <2>2. \A i \in 1 .. n : s[i] \in X
    BY <1>1, <1>3
  <2>3. /\ SubSeq(s, 1, n) \in Seq(X) /\ Len(SubSeq(s, 1, n)) = IF 1 <= n THEN n - 1 + 1 ELSE 0
        /\ \A i \in 1 .. n - 1 + 1 : SubSeq(s, 1, n)[i] = s[1 + i - 1]
    BY <2>2, SubSeqProperties
  <2>4. Len(SubSeq(s, 1, n)) = n
    BY <2>3
  <2>5. \A i \in 1 .. n : SubSeq(s, 1, n)[i] = s[i]
    BY <2>3
  <2> QED BY <1>3, <2>1, <2>3, <2>4, <2>5
<1> QED BY <1>2, <1>3

\* The first of two lists are those of the one, and what is left of the other's.
LEMMA FirstOfBoth ==
  ASSUME NEW X, NEW a \in Seq(X), NEW b \in Seq(X), NEW n \in Nat
  PROVE  /\ Len(a) >= n => FirstOf(a \o b, n) = FirstOf(a, n)
         /\ Len(a) < n => FirstOf(a \o b, n) = a \o FirstOf(FirstOf(b, n), n - Len(a))
<1>1. Len(a) \in Nat /\ Len(b) \in Nat
  BY LenProperties
<1> PICK c : c = a \o b
  OBVIOUS
<1>2. /\ c \in Seq(X) /\ c = a \o b /\ Len(c) = Len(a) + Len(b)
      /\ \A i \in 1 .. Len(a) + Len(b) : c[i] = IF i <= Len(a) THEN a[i] ELSE b[i - Len(a)]
  BY ConcatProperties
<1> PICK x : x = FirstOf(c, n)
  OBVIOUS
<1> DEFINE Fits(y, t) ==
  /\ y \in Seq(X) /\ Len(y) = (IF Len(t) <= n THEN Len(t) ELSE n) /\ \A i \in 1 .. Len(y) : y[i] = t[i]
<1>3. x = FirstOf(c, n) /\ Fits(x, c)
  <2>1. \A t \in Seq(X) : Fits(FirstOf(t, n), t)
    BY FirstMatches
  <2> HIDE DEF Fits
  <2> QED BY <1>2, <2>1
<1>4. ASSUME Len(a) >= n PROVE x = FirstOf(a, n)
  <2>1. PICK y \in Seq(X) : /\ y = FirstOf(a, n) /\ Len(y) = IF Len(a) <= n THEN Len(a) ELSE n
                            /\ \A i \in 1 .. Len(y) : y[i] = a[i]
    BY FirstMatches
  <2>2. Len(x) = n /\ Len(y) = n
    BY <1>1, <1>2, <1>3, <1>4, <2>1
  <2>3. \A i \in 1 .. n : x[i] = y[i]
    BY <1>1, <1>2, <1>3, <1>4, <2>1, <2>2
  <2>4. x = y
    BY <1>3, <2>2, <2>3, SeqEqual
  <2> QED BY <2>1, <2>4
<1>5. ASSUME Len(a) < n PROVE x = a \o FirstOf(FirstOf(b, n), n - Len(a))
  <2> PICK left : left = n - Len(a)
    OBVIOUS
  <2>1. left \in Nat /\ left = n - Len(a)
    BY <1>1, <1>5
  <2>2. PICK y \in Seq(X) : /\ y = FirstOf(b, n) /\ Len(y) = IF Len(b) <= n THEN Len(b) ELSE n
                            /\ \A i \in 1 .. Len(y) : y[i] = b[i]
    BY FirstMatches
  <2>3. PICK z \in Seq(X) : /\ z = FirstOf(y, left) /\ Len(z) = IF Len(y) <= left THEN Len(y) ELSE left
                            /\ \A i \in 1 .. Len(z) : z[i] = y[i]
    BY <2>1, FirstMatches
  <2> PICK w : w = a \o z
    OBVIOUS
  <2>4. /\ w \in Seq(X) /\ w = a \o z /\ Len(w) = Len(a) + Len(z)
        /\ \A i \in 1 .. Len(a) + Len(z) : w[i] = IF i <= Len(a) THEN a[i] ELSE z[i - Len(a)]
    BY ConcatProperties
  <2>5. Len(z) = (IF Len(b) <= left THEN Len(b) ELSE left) /\ Len(z) \in Nat
    BY <1>1, <2>1, <2>2, <2>3
  <2>6. Len(w) = Len(x)
    BY <1>1, <1>2, <1>3, <2>1, <2>4, <2>5
  <2>7. ASSUME NEW i \in 1 .. Len(w) PROVE x[i] = w[i]
    <3>1. i \in 1 .. Len(c) /\ x[i] = c[i]
      BY <1>1, <1>2, <1>3, <2>4, <2>5, <2>6
    <3>2. CASE i <= Len(a)
      BY <1>2, <2>4, <2>5, <3>1, <3>2
    <3>3. CASE ~(i <= Len(a))
      <4>1. PICK k : k = i - Len(a)
        OBVIOUS
      <4>2. k \in 1 .. Len(z) /\ k \in 1 .. Len(y)
        BY <1>1, <2>1, <2>2, <2>3, <2>4, <2>5, <3>3, <4>1
      <4>3. w[i] = z[k] /\ z[k] = y[k] /\ y[k] = b[k]
        BY <2>2, <2>3, <2>4, <3>3, <4>1, <4>2
      <4> QED BY <1>2, <3>1, <3>3, <4>1, <4>3
    <3> QED BY <3>2, <3>3
  <2>8. x = w
    BY <1>3, <2>4, <2>6, <2>7, SeqEqual
  <2> QED BY <2>1, <2>2, <2>3, <2>4, <2>8
<1> QED BY <1>2, <1>3, <1>4, <1>5

\* The matches are joined mount by mount,
Joining(u, X, N, found, down) ==
  /\ u \in [0 .. N -> Seq(X)] /\ u[0] = <<>>
  /\ \A n \in 1 .. N : u[n] = u[n - 1] \o (IF n \in down THEN <<>> ELSE found[n])

Matched(found, X, N) == N \in Nat /\ found \in [1 .. N -> Seq(X)]
JoinsUp(X, N, found, down) == \E u : Joining(u, X, N, found, down) /\ Concatenated(found, down) = u[N]

LEMMA Concats ==
  ASSUME NEW X, NEW N, NEW found, NEW down, Matched(found, X, N)
  PROVE  JoinsUp(X, N, found, down)
<1> SUFFICES ASSUME N \in Nat, found \in [1 .. N -> Seq(X)] PROVE JoinsUp(X, N, found, down)
  BY DEF Matched
<1> DEFINE Joins(g) ==
  g = [n \in 0 .. N |-> IF n = 0 THEN <<>> ELSE g[n - 1] \o (IF n \in down THEN <<>> ELSE found[n])]
<1> DEFINE Added(n) == IF n \in down THEN <<>> ELSE found[n]
<1>1. \A n \in 1 .. N : Added(n) \in Seq(X)
  <2>1. <<>> \in Seq(X)
    BY EmptySeq
  <2> QED BY <2>1
<1>2. Len(found) = N
  <2>1. found \in Seq(Seq(X))
    OBVIOUS
  <2> QED BY <2>1, LenProperties
<1> HIDE DEF Added
<1>3. PICK step : step = [i \in 1 .. N |-> [s \in Seq(X) |-> s \o Added(i)]]
  OBVIOUS
<1>4. step \in [1 .. N -> [Seq(X) -> Seq(X)]] /\ <<>> \in Seq(X)
  <2>1. \A i \in 1 .. N : \A s \in Seq(X) : s \o Added(i) \in Seq(X)
    BY <1>1, ConcatProperties
  <2> QED BY <1>3, <2>1, EmptySeq
<1> PICK h : CountsUp(h, N, Seq(X), <<>>, step)
  BY <1>4, Counted, Zenon
<1>5. h \in [0 .. N -> Seq(X)] /\ h[0] = <<>> /\ \A i \in 1 .. N : h[i] = step[i][h[i - 1]]
  BY DEF CountsUp
<1>6. ASSUME NEW i \in 0 .. N PROVE h[i] = IF i = 0 THEN <<>> ELSE h[i - 1] \o Added(i)
  <2>1. CASE i = 0
    BY <1>5, <2>1
  <2>2. CASE i # 0
    <3>1. i \in 1 .. N /\ i - 1 \in 0 .. N
      BY <2>2
    <3>2. h[i - 1] \in Seq(X)
      BY <1>5, <3>1
    <3> QED BY <1>3, <1>5, <2>2, <3>1, <3>2
  <2> QED BY <2>1, <2>2
<1>7. Joins(h)
  BY <1>5, <1>6 DEF Added
<1> DEFINE u == CHOOSE g : Joins(g)
<1>8. Joins(u)
  BY <1>7
<1>9. Concatenated(found, down) = u[N]
  BY <1>2 DEF Concatenated
<1> HIDE DEF u
<1>10. u[0] = <<>> /\ \A n \in 1 .. N : u[n] = u[n - 1] \o Added(n)
  <2>1. 0 \in 0 .. N /\ \A n \in 1 .. N : n \in 0 .. N /\ n # 0
    OBVIOUS
  <2> QED BY <1>8, <2>1 DEF Added
<1>11. \E G : u = [n \in 0 .. N |-> G[n]]
  <2>1. PICK G : G = [n \in 0 .. N |-> IF n = 0 THEN <<>> ELSE u[n - 1] \o (IF n \in down THEN <<>> ELSE found[n])]
    OBVIOUS
  <2>2. G = [n \in 0 .. N |-> G[n]] /\ u = G
    BY <1>8, <2>1
  <2> QED BY <2>2, Zenon
<1> HIDE DEF Joins
<1> DEFINE Good == {n \in 0 .. N : u[n] \in Seq(X)}
<1>12. 0 \in Good
  <2>1. 0 \in 0 .. N
    OBVIOUS
  <2>2. u[0] \in Seq(X)
    BY <1>4, <1>10, Zenon
  <2> QED BY <2>1, <2>2
<1>13. ASSUME NEW n \in 1 .. N, n - 1 \in Good PROVE n \in Good
  <2>1. u[n - 1] \in Seq(X) /\ Added(n) \in Seq(X)
    BY <1>1, <1>13
  <2>2. u[n - 1] \o Added(n) \in Seq(X)
    BY <2>1, ConcatProperties
  <2>3. n \in 0 .. N
    OBVIOUS
  <2>4. u[n] \in Seq(X)
    BY <1>10, <2>2, Zenon
  <2> QED BY <2>3, <2>4
<1>14. Advances(Good, N)
  BY <1>12, <1>13 DEF Advances
<1> HIDE DEF Good
<1>15. u \in [0 .. N -> Seq(X)]
  <2>1. 0 .. N \subseteq Good
    BY <1>14, Counting
  <2>2. \A n \in 0 .. N : u[n] \in Seq(X)
    BY <2>1 DEF Good
  <2> QED BY <1>11, <2>2
<1>16. Joining(u, X, N, found, down)
  BY <1>10, <1>15 DEF Added, Joining
<1> QED BY <1>9, <1>16, Zenon DEF JoinsUp

\* and so are the answers.
Sums(X, S, limit) ==
  {r \in [matches : Seq(X), exhausted : BOOLEAN, missing : SUBSET S, stopped : BOOLEAN] : Len(r.matches) <= limit}

LEMMA AddsMatches ==
  ASSUME NEW X, NEW S, NEW limit \in Nat, NEW sum \in Sums(X, S, limit), NEW i,
         NEW table, table[i].id \in S, NEW found, found[i] \in Seq(X), NEW down, NEW bounded
  PROVE  GrepAdds(sum, table, found, down, bounded, i, limit) \in Sums(X, S, limit)
<1>1. /\ sum \in [matches : Seq(X), exhausted : BOOLEAN, missing : SUBSET S, stopped : BOOLEAN]
      /\ Len(sum.matches) <= limit /\ Len(sum.matches) \in Nat
  BY LenProperties DEF Sums
<1> PICK left : left = limit - Len(sum.matches)
  OBVIOUS
<1>2. left \in Nat /\ left = limit - Len(sum.matches)
  BY <1>1
<1>3. PICK more : more = FirstOf(found[i], left)
  OBVIOUS
<1>4. more \in Seq(X) /\ Len(more) <= left /\ Len(more) \in Nat
  <2>1. /\ more \in Seq(X)
        /\ Len(more) = IF Len(found[i]) <= left THEN Len(found[i]) ELSE left
    BY <1>2, <1>3, FirstMatches
  <2>2. PICK m, f : m = Len(more) /\ f = Len(found[i])
    OBVIOUS
  <2>3. m \in Nat /\ f \in Nat
    BY <2>1, <2>2, LenProperties
  <2>4. m = IF f <= left THEN f ELSE left
    BY <2>1, <2>2
  <2>5. m <= left
    <3>1. left \in Int /\ m \in Int /\ f \in Int
      BY <1>2, <2>3
    <3>2. CASE f <= left
      BY <2>4, <3>2, Zenon
    <3>3. CASE ~(f <= left)
      <4>1. m = left
        BY <2>4, <3>3, Zenon
      <4> QED BY <3>1, <4>1
    <3> QED BY <3>2, <3>3
  <2> QED BY <2>1, <2>2, <2>3, <2>5
<1>5. (sum.matches \o more) \in Seq(X) /\ Len(sum.matches \o more) <= limit
  <2>1. (sum.matches \o more) \in Seq(X) /\ Len(sum.matches \o more) = Len(sum.matches) + Len(more)
    BY <1>1, <1>4, ConcatProperties
  <2> QED BY <1>1, <1>2, <1>4, <2>1
<1>6. [sum EXCEPT !.exhausted = FALSE, !.stopped = TRUE] \in Sums(X, S, limit)
  BY <1>1 DEF Sums
<1>7. [sum EXCEPT !.exhausted = FALSE, !.missing = sum.missing \cup {table[i].id}] \in Sums(X, S, limit)
  BY <1>1 DEF Sums
<1>8. [sum EXCEPT !.matches = sum.matches \o more, !.exhausted = sum.exhausted /\ i \notin bounded] \in Sums(X, S, limit)
  <2>1. PICK joined, all : joined = sum.matches \o more /\ all = (sum.exhausted /\ i \notin bounded)
    OBVIOUS
  <2>2. joined \in Seq(X) /\ Len(joined) <= limit /\ all \in BOOLEAN
    BY <1>1, <1>5, <2>1
  <2>3. [sum EXCEPT !.matches = joined, !.exhausted = all] \in Sums(X, S, limit)
    BY <1>1, <2>2 DEF Sums
  <2> QED BY <2>1, <2>3
<1> QED BY <1>3, <1>6, <1>7, <1>8 DEF GrepAdds

Summing(s, X, S, table, found, down, bounded, limit) ==
  /\ s \in [0 .. Len(table) -> Sums(X, S, limit)] /\ s[0] = NothingYet
  /\ \A n \in 1 .. Len(table) : s[n] = GrepAdds(s[n - 1], table, found, down, bounded, n, limit)

SummedUp(table, found, down, bounded, limit) ==
  LET sum[n \in 0 .. Len(table)] ==
        IF n = 0 THEN NothingYet ELSE GrepAdds(sum[n - 1], table, found, down, bounded, n, limit)
  IN  sum[Len(table)]

Answers(found, X, S, table) ==
  Len(table) \in Nat /\ \A i \in 1 .. Len(table) : table[i].id \in S /\ found[i] \in Seq(X)

SumsUp(X, S, table, found, down, bounded, limit) ==
  \E s : /\ Summing(s, X, S, table, found, down, bounded, limit)
         /\ s[Len(table)] = SummedUp(table, found, down, bounded, limit)

LEMMA Summed ==
  ASSUME NEW X, NEW S, NEW limit \in Nat, NEW table, NEW found, Answers(found, X, S, table), NEW down, NEW bounded
  PROVE  SumsUp(X, S, table, found, down, bounded, limit)
<1> PICK N : N = Len(table)
  OBVIOUS
<1>1. N \in Nat /\ N = Len(table)
  BY DEF Answers
<1> DEFINE Then(r, n) == GrepAdds(r, table, found, down, bounded, n, limit)
           Sum == Sums(X, S, limit)
           Adds(g) == g = [n \in 0 .. N |-> IF n = 0 THEN NothingYet ELSE Then(g[n - 1], n)]
           u == CHOOSE g : Adds(g)
<1>2. SummedUp(table, found, down, bounded, limit) = u[N]
  BY <1>1 DEF SummedUp
<1> HIDE DEF u
<1>3. \A n \in 1 .. N : \A r \in Sum : Then(r, n) \in Sum
  <2> SUFFICES ASSUME NEW n \in 1 .. N, NEW r \in Sum PROVE Then(r, n) \in Sum
    OBVIOUS
  <2>1. table[n].id \in S /\ found[n] \in Seq(X)
    BY <1>1 DEF Answers
  <2> QED BY <2>1, AddsMatches
<1> HIDE DEF Then
<1>4. NothingYet \in Sum
  <2>1. <<>> \in Seq(X) /\ Len(<<>>) = 0
    BY EmptySeq
  <2> QED BY <2>1 DEF Sums, NothingYet
<1> HIDE DEF Sum
<1>5. PICK step : step = [i \in 1 .. N |-> [r \in Sum |-> Then(r, i)]]
  OBVIOUS
<1>6. step \in [1 .. N -> [Sum -> Sum]]
  BY <1>3, <1>5
<1> PICK h : CountsUp(h, N, Sum, NothingYet, step)
  BY <1>1, <1>4, <1>6, Counted, Zenon
<1>7. h \in [0 .. N -> Sum] /\ h[0] = NothingYet /\ \A i \in 1 .. N : h[i] = step[i][h[i - 1]]
  BY DEF CountsUp
<1>8. ASSUME NEW i \in 0 .. N PROVE h[i] = IF i = 0 THEN NothingYet ELSE Then(h[i - 1], i)
  <2>1. CASE i = 0
    BY <1>7, <2>1
  <2>2. CASE i # 0
    <3>1. i \in 1 .. N /\ i - 1 \in 0 .. N
      BY <1>1, <2>2
    <3>2. h[i - 1] \in Sum
      BY <1>7, <3>1
    <3> QED BY <1>5, <1>7, <2>2, <3>1, <3>2
  <2> QED BY <2>1, <2>2
<1>9. Adds(h)
  BY <1>7, <1>8
<1>10. Adds(u)
  BY <1>9 DEF u
<1>11. /\ u = [n \in 0 .. N |-> u[n]] /\ u[0] = NothingYet
       /\ \A n \in 1 .. N : u[n] = Then(u[n - 1], n)
  <2>1. 0 \in 0 .. N /\ \A n \in 1 .. N : n \in 0 .. N /\ n # 0
    BY <1>1
  <2> QED BY <1>10, <2>1
<1> HIDE DEF Adds
<1> DEFINE Good == {n \in 0 .. N : u[n] \in Sum}
<1>12. 0 \in Good
  BY <1>1, <1>4, <1>11
<1>13. ASSUME NEW n \in 1 .. N, n - 1 \in Good PROVE n \in Good
  <2>1. n \in 0 .. N /\ u[n - 1] \in Sum
    BY <1>1, <1>13
  <2>2. u[n] \in Sum
    BY <1>3, <1>11, <2>1
  <2> QED BY <2>1, <2>2
<1>14. Advances(Good, N)
  BY <1>12, <1>13 DEF Advances
<1> HIDE DEF Good
<1>15. u \in [0 .. N -> Sum]
  <2>1. 0 .. N \subseteq Good
    BY <1>1, <1>14, Counting
  <2> QED BY <1>11, <2>1 DEF Good
<1>16. Summing(u, X, S, table, found, down, bounded, limit)
  BY <1>1, <1>11, <1>15 DEF Then, Sum, Summing
<1> QED BY <1>1, <1>2, <1>16, Zenon DEF SumsUp

\* What the answers say once those of the first n mounts are in.
Honest(r, matches, before, table, down, bounded, n, limit) ==
  /\ r.matches = FirstOf(matches, limit)
  /\ r.exhausted => ~r.stopped /\ (\A j \in 1 .. n : j \notin down /\ j \notin bounded) /\ Len(before) < limit
  /\ ~r.stopped => r.missing = {table[j].id : j \in down \cap 1 .. n}
  /\ r.stopped => Len(r.matches) = limit

\* One more answer keeps them honest.
Continues(X, S, r, found, capped, a, b, before, table, down, bounded, n, limit) ==
  /\ limit \in Nat /\ n \in Nat /\ a \in Seq(X) /\ r \in Sums(X, S, limit)
  /\ found[n + 1] \in Seq(X) /\ capped[n + 1] = FirstOf(found[n + 1], limit)
  /\ b = a \o (IF n + 1 \in down THEN <<>> ELSE found[n + 1])
  /\ IF n = 0 THEN a = <<>> /\ r = NothingYet ELSE Honest(r, a, before, table, down, bounded, n, limit)

LEMMA StaysHonest ==
  ASSUME NEW X, NEW S, NEW r, NEW found, NEW capped, NEW a, NEW b, NEW before, NEW table, NEW down, NEW bounded,
         NEW n, NEW limit, Continues(X, S, r, found, capped, a, b, before, table, down, bounded, n, limit)
  PROVE  Honest(GrepAdds(r, table, capped, down, bounded, n + 1, limit), b, a, table, down, bounded, n + 1, limit)
<1> SUFFICES ASSUME limit \in Nat, n \in Nat, a \in Seq(X), r \in Sums(X, S, limit),
                    found[n + 1] \in Seq(X), capped[n + 1] = FirstOf(found[n + 1], limit),
                    b = a \o (IF n + 1 \in down THEN <<>> ELSE found[n + 1]),
                    IF n = 0 THEN a = <<>> /\ r = NothingYet ELSE Honest(r, a, before, table, down, bounded, n, limit)
             PROVE  Honest(GrepAdds(r, table, capped, down, bounded, n + 1, limit), b, a, table, down, bounded, n + 1, limit)
  BY Zenon DEF Continues
<1> PICK i, s : i = n + 1 /\ s = GrepAdds(r, table, capped, down, bounded, n + 1, limit)
  OBVIOUS
<1> PICK left : left = limit - Len(r.matches)
  OBVIOUS
<1>1. /\ r \in [matches : Seq(X), exhausted : BOOLEAN, missing : SUBSET S, stopped : BOOLEAN]
      /\ Len(r.matches) <= limit /\ Len(r.matches) \in Nat /\ Len(a) \in Nat
  BY LenProperties DEF Sums
<1>2. /\ r.matches = FirstOf(a, limit)
      /\ r.exhausted => ~r.stopped /\ \A j \in 1 .. n : j \notin down /\ j \notin bounded
      /\ ~r.stopped => r.missing = {table[j].id : j \in down \cap 1 .. n}
      /\ r.stopped => Len(r.matches) = limit
  <2>1. CASE n = 0
    <3>1. r.matches = <<>> /\ r.exhausted = TRUE /\ r.missing = {} /\ r.stopped = FALSE /\ a = <<>>
      BY <2>1 DEF NothingYet
    <3>2. FirstOf(<<>>, limit) = <<>>
      BY DEF FirstOf
    <3> QED BY <2>1, <3>1, <3>2
  <2>2. CASE n # 0
    BY <2>2 DEF Honest
  <2> QED BY <2>1, <2>2
<1>3. Len(r.matches) = (IF Len(a) <= limit THEN Len(a) ELSE limit)
  BY <1>2, FirstMatches
<1>4. left \in Nat /\ (left = 0 <=> Len(a) >= limit)
  BY <1>1, <1>3
<1>5. left # 0 => r.matches = a /\ Len(a) < limit /\ left = limit - Len(a)
  BY <1>1, <1>2, <1>3, <1>4 DEF FirstOf
<1>6. i \in 1 .. i /\ \A j \in 1 .. i : j = i \/ j \in 1 .. n
  OBVIOUS
<1>7. left = 0 => FirstOf(b, limit) = FirstOf(a, limit)
  <2>1. (IF i \in down THEN <<>> ELSE found[i]) \in Seq(X)
    BY EmptySeq
  <2> QED BY <1>4, <2>1, FirstOfBoth
<1>8. CASE r.stopped
  <2>1. s = r
    BY <1>8 DEF GrepAdds
  <2> QED BY <1>1, <1>2, <1>7, <1>8, <2>1 DEF Honest
<1>9. CASE ~r.stopped /\ left = 0
  <2>1. s = [r EXCEPT !.exhausted = FALSE, !.stopped = TRUE]
    BY <1>9 DEF GrepAdds
  <2>2. s.matches = r.matches /\ ~s.exhausted /\ s.stopped
    BY <1>1, <2>1
  <2> QED BY <1>1, <1>2, <1>7, <1>9, <2>2 DEF Honest
<1>10. CASE ~r.stopped /\ left # 0 /\ i \in down
  <2>1. s = [r EXCEPT !.exhausted = FALSE, !.missing = r.missing \cup {table[i].id}]
    BY <1>10 DEF GrepAdds
  <2>2. s.matches = r.matches /\ ~s.exhausted /\ ~s.stopped /\ s.missing = r.missing \cup {table[i].id}
    BY <1>1, <1>10, <2>1
  <2>3. b = a
    BY <1>10, ConcatEmptySeq
  <2>4. s.missing = {table[j].id : j \in down \cap 1 .. i}
    BY <1>2, <1>6, <1>10, <2>2
  <2> QED BY <1>2, <2>2, <2>3, <2>4 DEF Honest
<1>11. CASE ~r.stopped /\ left # 0 /\ i \notin down
  <2>1. s = [r EXCEPT !.matches = r.matches \o FirstOf(capped[i], left), !.exhausted = r.exhausted /\ i \notin bounded]
    BY <1>11 DEF GrepAdds
  <2>2. /\ s.matches = r.matches \o FirstOf(capped[i], left) /\ s.exhausted = (r.exhausted /\ i \notin bounded)
        /\ ~s.stopped /\ s.missing = r.missing
    BY <1>1, <1>11, <2>1
  <2>3. b = a \o found[i]
    BY <1>11
  <2>4. FirstOf(b, limit) = a \o FirstOf(FirstOf(found[i], limit), limit - Len(a))
    <3>1. found[i] \in Seq(X) /\ Len(a) < limit
      BY <1>5, <1>11
    <3>2. FirstOf(a \o found[i], limit) = a \o FirstOf(FirstOf(found[i], limit), limit - Len(a))
      BY <3>1, FirstOfBoth
    <3> QED BY <2>3, <3>2
  <2>5. s.matches = FirstOf(b, limit)
    BY <1>5, <1>11, <2>2, <2>4
  <2>6. down \cap 1 .. i = down \cap 1 .. n
    BY <1>6, <1>11
  <2>7. s.missing = {table[j].id : j \in down \cap 1 .. i}
    BY <1>2, <1>11, <2>2, <2>6
  <2>8. s.exhausted => \A j \in 1 .. i : j \notin down /\ j \notin bounded
    BY <1>2, <1>6, <1>11, <2>2
  <2> QED BY <1>5, <1>11, <2>2, <2>5, <2>7, <2>8 DEF Honest
<1> QED BY <1>8, <1>9, <1>10, <1>11

\* What a mount that answers has found is among the matches.
IsAmong(x, list) == \E m \in 1 .. Len(list) : list[m] = x

LEMMA FoundIsThere ==
  ASSUME NEW X, NEW N, NEW found, Matched(found, X, N), NEW down, NEW u, Joining(u, X, N, found, down),
         NEW i \in 1 .. N, i \notin down, NEW k \in DOMAIN found[i], NEW n \in i .. N
  PROVE  IsAmong(found[i][k], u[n])
<1> SUFFICES ASSUME N \in Nat, found \in [1 .. N -> Seq(X)] PROVE \E m \in 1 .. Len(u[n]) : u[n][m] = found[i][k]
  BY DEF Matched, IsAmong
<1> DEFINE Has(j) == \E m \in 1 .. Len(u[j]) : u[j][m] = found[i][k]
           Good == {j \in 0 .. N : j >= i => Has(j)}
<1>1. ASSUME NEW j \in 1 .. N, j - 1 \in Good, j >= i PROVE Has(j)
  <2>1. j - 1 \in 0 .. N
    OBVIOUS
  <2> PICK a, b : a = u[j - 1] /\ b = (IF j \in down THEN <<>> ELSE found[j])
    OBVIOUS
  <2>2. a \in Seq(X) /\ b \in Seq(X)
    BY <2>1, EmptySeq DEF Joining
  <2>3. u[j] = a \o b
    BY DEF Joining
  <2>4. IsJoin(u[j], a, b)
    BY <2>2, <2>3, BothAreThere
  <2>5. CASE j = i
    <3>1. b = found[i]
      BY <2>5
    <3>2. k \in 1 .. Len(b)
      BY <2>2, <3>1, LenProperties
    <3>3. Len(a) + k \in 1 .. Len(u[j]) /\ u[j][Len(a) + k] = b[k]
      BY <2>4, <3>2, Zenon DEF IsJoin
    <3> QED BY <3>1, <3>3, Zenon
  <2>6. CASE j # i
    <3>1. j - 1 \in Good /\ j - 1 >= i
      BY <1>1, <2>1, <2>6
    <3>2. PICK m \in 1 .. Len(a) : a[m] = found[i][k]
      BY <3>1
    <3>3. m \in 1 .. Len(u[j]) /\ u[j][m] = a[m]
      BY <2>4, Zenon DEF IsJoin
    <3> QED BY <3>2, <3>3, Zenon
  <2> QED BY <2>5, <2>6
<1>2. 0 \in Good
  OBVIOUS
<1>3. ASSUME NEW j \in 1 .. N, j - 1 \in Good PROVE j \in Good
  <2>1. j >= i => Has(j)
    BY <1>1, <1>3
  <2>2. j \in 0 .. N
    OBVIOUS
  <2> HIDE DEF Has
  <2> QED BY <2>1, <2>2
<1>4. Advances(Good, N)
  BY <1>2, <1>3 DEF Advances
<1> HIDE DEF Good
<1>5. n \in 0 .. N /\ n >= i
  OBVIOUS
<1>6. n \in Good
  BY <1>4, <1>5, Counting
<1> QED BY <1>5, <1>6 DEF Good

IsHonestAnswer(grep, table, found, all, down, bounded, limit) ==
  /\ grep.matches = FirstOf(all, limit)
  /\ grep.exhausted => down = {} /\ bounded = {}
  /\ grep.exhausted => \A i \in DOMAIN table \ {Len(table)} :
       \A k \in DOMAIN found[i] : \E m \in DOMAIN grep.matches : grep.matches[m] = found[i][k]
  /\ grep.exhausted /\ Len(grep.matches) < limit => grep.matches = all
  /\ Len(grep.matches) < limit => grep.missing = {table[i].id : i \in down}

IsHonestGrep(table, found, down, bounded, limit) ==
  IsHonestAnswer(FederatedGrep(table, found, down, bounded, limit), table, found, Concatenated(found, down),
                 down, bounded, limit)

\* Whatever the mounts find.
Asked(table, N, X, S, found, down, bounded, limit) ==
  /\ N \in Nat /\ N # 0 /\ N = Len(table) /\ DOMAIN table = 1 .. N /\ S = {table[i].id : i \in 1 .. N}
  /\ found \in [1 .. N -> Seq(X)] /\ down \subseteq 1 .. N /\ bounded \subseteq 1 .. N /\ limit \in Nat

LEMMA OneGrepIsHonest ==
  ASSUME NEW table, NEW N, NEW X, NEW S, NEW found, NEW down, NEW bounded, NEW limit,
         Asked(table, N, X, S, found, down, bounded, limit)
  PROVE  IsHonestGrep(table, found, down, bounded, limit)
<1>1. PICK matches, grep : /\ matches = Concatenated(found, down)
                            /\ grep = FederatedGrep(table, found, down, bounded, limit)
  OBVIOUS
<1>2. N \in Nat /\ N # 0 /\ DOMAIN table = 1 .. N /\ N = Len(table)
  BY DEF Asked
<1>3. limit \in Nat
  BY DEF Asked
<1>4. S = {table[i].id : i \in 1 .. N} /\ down \subseteq 1 .. N /\ bounded \subseteq 1 .. N
  BY DEF Asked
<1>5. found \in [1 .. N -> Seq(X)]
  BY DEF Asked
<1>6. PICK u : Joining(u, X, N, found, down) /\ matches = u[N]
  <2>1. \E u : Joining(u, X, N, found, down) /\ Concatenated(found, down) = u[N]
    <3>1. Matched(found, X, N)
      BY <1>2, <1>5 DEF Matched
    <3>2. JoinsUp(X, N, found, down)
      BY <3>1, Concats, Zenon
    <3> QED BY <3>2, Zenon DEF JoinsUp
  <2> QED BY <1>1, <2>1, Zenon
<1>7. /\ u \in [0 .. N -> Seq(X)] /\ u[0] = <<>>
      /\ \A n \in 1 .. N : u[n] = u[n - 1] \o (IF n \in down THEN <<>> ELSE found[n])
      /\ matches = u[N]
  BY <1>6 DEF Joining
<1>8. PICK capped : capped = [i \in DOMAIN table |-> FirstOf(found[i], limit)]
  OBVIOUS
<1>9. \A i \in 1 .. N : capped[i] \in Seq(X) /\ table[i].id \in S
  <2> SUFFICES ASSUME NEW i \in 1 .. N PROVE capped[i] \in Seq(X) /\ table[i].id \in S
    BY Zenon
  <2>1. found[i] \in Seq(X) /\ capped[i] = FirstOf(found[i], limit) /\ table[i].id \in S
    BY <1>2, <1>4, <1>5, <1>8
  <2>2. FirstOf(found[i], limit) \in Seq(X)
    BY <1>3, <2>1, FirstMatches, Zenon
  <2> QED BY <2>1, <2>2, Zenon
<1>10. PICK s : Summing(s, X, S, table, capped, down, bounded, limit) /\ grep = s[Len(table)]
  <2>1. grep = SummedUp(table, capped, down, bounded, limit)
    BY <1>8, <1>1 DEF FederatedGrep, SummedUp
  <2>2. Answers(capped, X, S, table)
    BY <1>2, <1>9, Zenon DEF Answers
  <2>3. \E s : /\ Summing(s, X, S, table, capped, down, bounded, limit)
               /\ s[Len(table)] = SummedUp(table, capped, down, bounded, limit)
    <3>1. SumsUp(X, S, table, capped, down, bounded, limit)
      BY <1>3, <2>2, Summed, Zenon
    <3> QED BY <3>1, Zenon DEF SumsUp
  <2> QED BY <2>1, <2>3, Zenon
<1>11. /\ s \in [0 .. N -> Sums(X, S, limit)] /\ s[0] = NothingYet
      /\ \A n \in 1 .. N : s[n] = GrepAdds(s[n - 1], table, capped, down, bounded, n, limit)
      /\ grep = s[N]
  BY <1>2, <1>10 DEF Summing
<1> DEFINE Good == {n \in 0 .. N : n # 0 => Honest(s[n], u[n], u[n - 1], table, down, bounded, n, limit)}
<1>12. ASSUME NEW n \in 1 .. N, n - 1 \in Good
      PROVE  Honest(s[n], u[n], u[n - 1], table, down, bounded, n, limit)
  <2> PICK k : k = n - 1
    OBVIOUS
  <2>1. k \in Nat /\ n = k + 1 /\ k \in 0 .. N
    BY <1>2
  <2>2. IF k = 0 THEN u[k] = <<>> /\ s[k] = NothingYet
        ELSE Honest(s[k], u[k], u[k - 1], table, down, bounded, k, limit)
    BY <1>7, <1>11, <1>12, <2>1
  <2>3. found[k + 1] \in Seq(X) /\ capped[k + 1] = FirstOf(found[k + 1], limit)
    BY <1>2, <1>5, <1>8, <2>1
  <2>4. u[k] \in Seq(X) /\ s[k] \in Sums(X, S, limit)
    BY <1>7, <1>11, <2>1
  <2>5. u[n] = u[k] \o (IF k + 1 \in down THEN <<>> ELSE found[k + 1])
    BY <1>7, <2>1
  <2>6. Honest(GrepAdds(s[k], table, capped, down, bounded, k + 1, limit), u[n], u[k], table, down, bounded, k + 1, limit)
    <3>1. Continues(X, S, s[k], found, capped, u[k], u[n], u[k - 1], table, down, bounded, k, limit)
      BY <1>3, <2>1, <2>2, <2>3, <2>4, <2>5, Zenon DEF Continues
    <3> QED BY <3>1, StaysHonest, Zenon
  <2>7. s[n] = GrepAdds(s[k], table, capped, down, bounded, n, limit)
    BY <1>11, <2>1
  <2> QED BY <2>1, <2>6, <2>7
<1>13. 0 \in Good
  BY <1>2
<1>14. ASSUME NEW n \in 1 .. N, n - 1 \in Good PROVE n \in Good
  BY <1>12, <1>14
<1>15. Advances(Good, N)
  BY <1>13, <1>14 DEF Advances
<1> HIDE DEF Good
<1>16. Honest(grep, matches, u[N - 1], table, down, bounded, N, limit)
  <2>1. N \in 0 .. N
    BY <1>2
  <2>2. N \in Good
    BY <1>2, <1>15, <2>1, Counting
  <2> QED BY <1>2, <1>7, <1>11, <2>2 DEF Good
<1>17. grep.exhausted => down = {} /\ bounded = {}
  BY <1>2, <1>4, <1>16 DEF Honest
<1>18. ASSUME grep.exhausted, NEW i \in 1 .. N \ {N}, NEW k \in DOMAIN found[i]
       PROVE  \E m \in DOMAIN grep.matches : grep.matches[m] = found[i][k]
  <2> PICK n : n = N - 1
    OBVIOUS
  <2>1. n \in Nat /\ n = N - 1 /\ n \in 0 .. N /\ n \in i .. N /\ N \in 1 .. N
    BY <1>2, <1>18
  <2>2. i \in 1 .. N /\ i \notin down /\ Len(u[n]) < limit
    BY <1>16, <1>17, <1>18, <2>1 DEF Honest
  <2>3. PICK m \in 1 .. Len(u[n]) : u[n][m] = found[i][k]
    <3>1. k \in DOMAIN found[i] /\ Joining(u, X, N, found, down)
      BY <1>18, <1>6
    <3>2. Matched(found, X, N)
      BY <1>2, <1>5 DEF Matched
    <3>3. IsAmong(found[i][k], u[n])
      BY <2>1, <2>2, <3>1, <3>2, FoundIsThere, Zenon
    <3> QED BY <3>3, Zenon DEF IsAmong
  <2>4. N \notin down /\ matches = u[n] \o found[N] /\ found[N] \in Seq(X) /\ u[n] \in Seq(X)
    BY <1>2, <1>5, <1>7, <1>17, <1>18, <2>1
  <2>5. m \in 1 .. Len(matches) /\ matches[m] = u[n][m] /\ m <= limit
    <3>1. IsJoin(matches, u[n], found[N])
      <4>1. IsJoin(u[n] \o found[N], u[n], found[N])
        BY <2>4, BothAreThere, Zenon
      <4> QED BY <2>4, <4>1, Zenon
    <3>2. m \in 1 .. Len(matches) /\ matches[m] = u[n][m]
      BY <2>3, <3>1, Zenon DEF IsJoin
    <3>3. Len(u[n]) \in Nat
      BY <3>1, Zenon DEF IsJoin
    <3> QED BY <1>3, <2>2, <3>2, <3>3
  <2>6. matches \in Seq(X) /\ grep.matches = FirstOf(matches, limit)
    <3>1. N \in 0 .. N
      BY <1>2
    <3> QED BY <1>7, <1>16, <3>1 DEF Honest
  <2>7. /\ grep.matches \in Seq(X) /\ Len(grep.matches) = (IF Len(matches) <= limit THEN Len(matches) ELSE limit)
        /\ \A j \in 1 .. Len(grep.matches) : grep.matches[j] = matches[j]
    <3>1. /\ FirstOf(matches, limit) \in Seq(X)
          /\ Len(FirstOf(matches, limit)) = (IF Len(matches) <= limit THEN Len(matches) ELSE limit)
          /\ \A j \in 1 .. Len(FirstOf(matches, limit)) : FirstOf(matches, limit)[j] = matches[j]
      BY <1>3, <2>6, FirstMatches, Zenon
    <3> QED BY <2>6, <3>1, Zenon
  <2>8. m \in 1 .. Len(grep.matches)
    BY <2>5, <2>7
  <2>9. DOMAIN grep.matches = 1 .. Len(grep.matches)
    BY <2>7, LenProperties
  <2> QED BY <2>3, <2>5, <2>7, <2>8, <2>9
<1>19. ASSUME Len(grep.matches) < limit PROVE grep.missing = {table[i].id : i \in down}
  <2>1. ~grep.stopped
    BY <1>3, <1>16, <1>19 DEF Honest
  <2>2. down \cap 1 .. N = down
    BY <1>4
  <2> QED BY <1>16, <2>1, <2>2 DEF Honest
<1>20. grep.matches = FirstOf(matches, limit)
  BY <1>16 DEF Honest
<1>21. grep.exhausted => \A i \in DOMAIN table \ {Len(table)} :
         \A k \in DOMAIN found[i] : \E m \in DOMAIN grep.matches : grep.matches[m] = found[i][k]
  <2>1. DOMAIN table \ {Len(table)} = 1 .. N \ {N}
    BY <1>2
  <2> QED BY <1>18, <2>1, Zenon
<1>23. ASSUME Len(grep.matches) < limit PROVE grep.matches = matches
  <2>1. matches \in Seq(X)
    <3>1. N \in 0 .. N
      BY <1>2
    <3> QED BY <1>7, <1>16, <3>1 DEF Honest
  <2>2. Len(FirstOf(matches, limit)) = (IF Len(matches) <= limit THEN Len(matches) ELSE limit)
    BY <1>3, <2>1, FirstMatches, Zenon
  <2>3. Len(matches) <= limit
    BY <1>3, <1>20, <1>23, <2>1, <2>2
  <2> QED BY <1>20, <2>3 DEF FirstOf
<1>24. IsHonestAnswer(grep, table, found, matches, down, bounded, limit)
  BY <1>17, <1>19, <1>20, <1>21, <1>23, Zenon DEF IsHonestAnswer
<1> QED BY <1>1, <1>24, Zenon DEF IsHonestGrep

\* A grep of every mount returns the first matches in the order of the table; if
\* it claims to be exhaustive, no mount failed or was bounded and it lacks nothing
\* but what the limit cut from the last mount, so below the limit it lacks nothing;
\* and it names each mount that failed unless the limit cut it off.  For any table,
\* limit and failures (router.rs, federated_grep).
THEOREM EveryGrepIsHonest ==
  ASSUME NEW table, IsTable(table, Folders), NEW down \in SUBSET DOMAIN table
  PROVE  FederatedGrepIsHonest(table, down)
<1> SUFFICES ASSUME NEW lengths \in [DOMAIN table -> 0 .. MaxFound], NEW bounded \in SUBSET DOMAIN table,
                    NEW limit \in 0 .. MaxFound + 1
             PROVE  IsHonestGrep(table, [i \in DOMAIN table |-> [k \in 1 .. lengths[i] |-> <<table[i].id, k>>]],
                                 down, bounded, limit)
  BY Zenon DEF FederatedGrepIsHonest, IsHonestGrep, IsHonestAnswer
<1>6. PICK N, found : N = Len(table) /\ found = [i \in DOMAIN table |-> [k \in 1 .. lengths[i] |-> <<table[i].id, k>>]]
  OBVIOUS
<1>1. N \in Nat /\ N # 0 /\ DOMAIN table = 1 .. N
  BY <1>6 DEF IsTable
<1>2. limit \in Nat
  BY NamespaceAssumption
<1>3. PICK S, X : S = {table[i].id : i \in 1 .. N} /\ X = S \X Nat
  OBVIOUS
<1>4. found \in [1 .. N -> Seq(X)]
  <2> SUFFICES ASSUME NEW i \in 1 .. N PROVE [k \in 1 .. lengths[i] |-> <<table[i].id, k>>] \in Seq(X)
    BY <1>1, <1>6
  <2>1. lengths[i] \in Nat
    BY <1>1, NamespaceAssumption
  <2>2. \A k \in 1 .. lengths[i] : <<table[i].id, k>> \in X
    BY <1>3, <2>1
  <2> QED BY <2>1, <2>2
<1>5. IsHonestGrep(table, found, down, bounded, limit)
  <2>1. down \subseteq 1 .. N /\ bounded \subseteq 1 .. N
    BY <1>1
  <2>2. Asked(table, N, X, S, found, down, bounded, limit)
    BY <1>1, <1>2, <1>3, <1>4, <1>6, <2>1, Zenon DEF Asked
  <2> QED BY <2>2, OneGrepIsHonest, Zenon
<1> QED BY <1>5, <1>6, Zenon

\* Whatever the commands leave: a grep of every mount of what the file loads as
\* says what it left out, but for what the limit cut from the last mount.
THEOREM GrepsHonest == Spec => []GrepsAreHonest
<1>1. CliInv => GrepsAreHonest
  <2> SUFFICES ASSUME CliInv, Loads(config.conf),
                      NEW table \in TablesOf(BaseTable(config.conf)) \cup Handwritten
               PROVE  table \in HonestTables
    BY DEF GrepsAreHonest
  <2>1. table \in Tables \cup Handwritten /\ IsTable(table, Folders)
    BY ServedTables
  <2> QED BY <2>1, EveryGrepIsHonest DEF HonestTables
<1> QED BY <1>1, CliInvariance, PTL
=============================================================================
