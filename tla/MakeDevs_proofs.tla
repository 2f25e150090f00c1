---------------------------- MODULE MakeDevs_proofs --------------------------
(***************************************************************************)
(* Theorems about MakeDevs, for every set of device tables of any length,   *)
(* every target directory and every number of images.                       *)
(***************************************************************************)
EXTENDS MakeDevs, TLAPS

-----------------------------------------------------------------------------
(* What the rows of a table have asked for so far.                           *)

\* The files of a row, by their number in its batch.
Spots(r) == IF r.type \in DeviceTypes THEN Batch(r) ELSE {0}
NameOf(r, k) == IF r.type \in DeviceTypes THEN NodeName(r, k) ELSE r.name

\* Those of row l of table t that makedevs is through with when it has come
\* to number k of row c.
Reached(t, l, c, k) == {j \in Spots(t[l]) : l < c \/ (l = c /\ j < k)}

\* Such a row has named the file n, and one that says what kind of file it is.
Names(t, n, l, c, k) ==
  l \in 1..Len(t) /\ Worked(t[l]) /\ \E j \in Reached(t, l, c, k) : NameOf(t[l], j) = n

Shapes(t, n, l, c, k) == Names(t, n, l, c, k) /\ t[l].type # "d"

\* The last one to do so.
LastName(t, n, l, c, k) ==
  Names(t, n, l, c, k) /\ \A m \in 1..Len(t) : m > l => ~Names(t, n, m, c, k)

LastShape(t, n, l, c, k) ==
  Shapes(t, n, l, c, k) /\ \A m \in 1..Len(t) : m > l => ~Shapes(t, n, m, c, k)

\* The mode and the owner that a row asks for; the kind and the device.
Owns(entry, r) ==
  /\ entry.mode = Mode(r)
  /\ entry.uid = Id(Field(r, "user", "")) /\ entry.gid = Id(Field(r, "group", ""))

Device(r, k) == IF r.type \in {"c", "b"} THEN Rdev(r, k) ELSE NoDev

HasShape(entry, n, r) ==
  /\ entry.kind = r.type
  /\ \A j \in Spots(r) : NameOf(r, j) = n => entry.dev = Device(r, j)

Plain(entry) == entry.kind \in {"d", "f"} /\ entry.dev = NoDev

\* The parents of a directory are there, or never will be.
ParentsThere(T, n) ==
  \/ Ancestors(n) \subseteq DOMAIN T
  \/ \E a \in Ancestors(n) : a \in DOMAIN T /\ T[a].kind # "d"

\* What the directory T is when nothing has gone wrong so far: the last row
\* that names a file decides on its mode and its owner, the last one that is
\* not for a directory on its kind; everything else belongs to root and is no
\* device.
Effect(t, T, c, k) ==
  /\ \A n, l : Names(t, n, l, c, k) =>
       n \in DOMAIN T /\ \E m : LastName(t, n, m, c, k) /\ Owns(T[n], t[m])
  /\ \A n, l : Shapes(t, n, l, c, k) =>
       \E m : LastShape(t, n, m, c, k) /\ HasShape(T[n], n, t[m])
  /\ \A n \in DOMAIN T : (\A l : ~Shapes(t, n, l, c, k)) => Plain(T[n])
  /\ \A n \in DOMAIN T : (\A l : ~Names(t, n, l, c, k)) => T[n].uid = 0 /\ T[n].gid = 0
  /\ \A n, l : Names(t, n, l, c, k) /\ t[l].type = "d" => ParentsThere(T, n)

-----------------------------------------------------------------------------
(* Rows                                                                      *)

NumericFields == {"major", "minor", "start", "increment", "count"}

\* A field stands at its place of the row.
LEMMA FieldPlace ==
  ASSUME NEW r, NEW n \in 1..8, NEW default
  PROVE  Field(r, Fields[n], default) = IF n <= Len(r.rest) THEN r.rest[n] ELSE default
<1>1. \A k \in 1..8 : Fields[k] = Fields[n] => k = n
  BY DEF Fields
<1>2. (CHOOSE k \in 1..8 : Fields[k] = Fields[n]) = n
  BY <1>1
<1> QED BY <1>2 DEF Field

LEMMA NumberType ==
  ASSUME NEW t \in Tables, NEW l \in 1..Len(t), NEW f \in NumericFields
  PROVE  Number(t[l], f) \in Nat
<1>1. PICK n \in 4..8 : f = Fields[n]
  <2>1. f = Fields[4] \/ f = Fields[5] \/ f = Fields[6] \/ f = Fields[7] \/ f = Fields[8]
    BY DEF NumericFields, Fields
  <2> QED BY <2>1
<1>2. Number(t[l], f) = IF n <= Len(t[l].rest) THEN t[l].rest[n] ELSE 0
  BY <1>1, FieldPlace DEF Number
<1>3. Len(t[l].rest) \in Nat /\ \A k \in 4..Len(t[l].rest) : t[l].rest[k] \in Nat
  BY TablesAssumption
<1> QED BY <1>2, <1>3

\* The words of a complete row do not depend on the rows before it.
LEMMA CompleteFields ==
  ASSUME NEW t \in Tables, Complete(t), NEW l \in 1..Len(t), Worked(t[l]), NEW u
  PROVE  /\ Field(t[l], "user", u) = Field(t[l], "user", "")
         /\ Field(t[l], "group", u) = Field(t[l], "group", "")
<1>1. Len(t[l].rest) \in Nat /\ Len(t[l].rest) >= 3
  BY TablesAssumption DEF Complete
<1>2. Fields[2] = "user" /\ Fields[3] = "group"
  BY DEF Fields
<1>3. \A d : Field(t[l], Fields[2], d) = t[l].rest[2] /\ Field(t[l], Fields[3], d) = t[l].rest[3]
  BY <1>1, FieldPlace
<1> QED BY <1>2, <1>3

\* A batch is counted from 0 without a gap, and its names are distinct.
LEMMA SpotsFact ==
  ASSUME NEW t \in Tables, NEW l \in 1..Len(t)
  PROVE  /\ 0 \in Spots(t[l]) /\ Spots(t[l]) \subseteq Nat
         /\ \A j \in Spots(t[l]), k \in Nat : k < j => k \in Spots(t[l])
         /\ Worked(t[l]) => \A j, k \in Spots(t[l]) : NameOf(t[l], j) = NameOf(t[l], k) => j = k
<1>1. Number(t[l], "count") \in Nat
  BY NumberType DEF NumericFields
<1>2. CASE t[l].type \in DeviceTypes
  <2>1. Spots(t[l]) = IF Number(t[l], "count") = 0 THEN {0} ELSE 0..(Number(t[l], "count") - 1)
    BY <1>2 DEF Spots, Batch
  <2>2. Worked(t[l]) => \A j, k \in Spots(t[l]) : NameOf(t[l], j) = NameOf(t[l], k) => j = k
    BY <1>2, TablesAssumption DEF Worked, Spots, NameOf
  <2> QED BY <1>1, <2>1, <2>2
<1>3. CASE t[l].type \notin DeviceTypes
  BY <1>3 DEF Spots
<1> QED BY <1>2, <1>3

-----------------------------------------------------------------------------
(* One file more                                                             *)

\* The number of the batch after k in row c, or else the next row.
After(t, c, k, c2, k2) ==
  \/ k + 1 \in Spots(t[c]) /\ c2 = c /\ k2 = k + 1
  \/ k + 1 \notin Spots(t[c]) /\ c2 = c + 1 /\ k2 = 0

LEMMA NamesAfter ==
  ASSUME NEW t \in Tables, NEW c \in 1..Len(t), Worked(t[c]), NEW k \in Spots(t[c]),
         NEW c2, NEW k2, After(t, c, k, c2, k2), NEW n, NEW l
  PROVE  Names(t, n, l, c2, k2) <=>
           Names(t, n, l, c, k) \/ (l = c /\ NameOf(t[c], k) = n)
<1>0. Len(t) \in Nat /\ k \in Nat
  BY TablesAssumption, SpotsFact
<1>1. CASE l \notin 1..Len(t)
  BY <1>1 DEF Names
<1>2. CASE l \in 1..Len(t) /\ l # c
  <2>1. Reached(t, l, c2, k2) = Reached(t, l, c, k)
    <3>1. \A j \in Spots(t[l]) : j \in Nat
      BY <1>2, SpotsFact
    <3>2. CASE c2 = c
      BY <1>2, <3>2 DEF Reached
    <3>3. CASE c2 = c + 1 /\ k2 = 0
      <4>1. \A j \in Spots(t[l]) : l < c2 \/ (l = c2 /\ j < k2) <=> l < c \/ (l = c /\ j < k)
        BY <1>0, <1>2, <3>1, <3>3
      <4> QED BY <4>1 DEF Reached
    <3> QED BY <3>2, <3>3 DEF After
  <2> QED BY <1>2, <2>1 DEF Names
<1>3. CASE l = c
  <2>1. Reached(t, c, c2, k2) = Reached(t, c, c, k) \union {k}
    <3>1. \A j \in Spots(t[c]) : j \in Nat
      BY SpotsFact
    <3>2. CASE k + 1 \in Spots(t[c])
      <4>1. \A j \in Spots(t[c]) : c < c2 \/ (c = c2 /\ j < k2) <=>
                                   c < c \/ (c = c /\ j < k) \/ j = k
        BY <1>0, <3>1, <3>2 DEF After
      <4> QED BY <4>1 DEF Reached
    <3>3. CASE k + 1 \notin Spots(t[c])
      <4>1. \A j \in Spots(t[c]) : ~ (k + 1 < j)
        BY <1>0, <3>1, <3>3, SpotsFact
      <4>2. \A j \in Spots(t[c]) : j < k \/ j = k
        BY <1>0, <3>1, <3>3, <4>1
      <4>3. c < c2
        BY <1>0, <3>3 DEF After
      <4> QED BY <1>0, <4>2, <4>3 DEF Reached
    <3> QED BY <3>2, <3>3
  <2> QED BY <1>3, <2>1 DEF Names
<1> QED BY <1>1, <1>2, <1>3

\* A line that is skipped names nothing.
LEMMA NamesSkipped ==
  ASSUME NEW t \in Tables, NEW c \in 1..Len(t), ~Worked(t[c]), NEW n, NEW l
  PROVE  Names(t, n, l, c + 1, 0) <=> Names(t, n, l, c, 0)
<1>1. ASSUME l \in 1..Len(t), Worked(t[l])
      PROVE  Reached(t, l, c + 1, 0) = Reached(t, l, c, 0)
  <2>1. Len(t) \in Nat /\ l # c /\ \A j \in Spots(t[l]) : j \in Nat
    BY <1>1, TablesAssumption, SpotsFact
  <2> QED BY <1>1, <2>1 DEF Reached
<1> QED BY <1>1 DEF Names

\* Nothing is named before the first row.
LEMMA NamesNothing ==
  ASSUME NEW t \in Tables, NEW n, NEW l
  PROVE  ~Names(t, n, l, 1, 0)
<1>1. ASSUME l \in 1..Len(t) PROVE Reached(t, l, 1, 0) = {}
  <2>1. Len(t) \in Nat /\ \A j \in Spots(t[l]) : j \in Nat
    BY <1>1, TablesAssumption, SpotsFact
  <2> QED BY <1>1, <2>1 DEF Reached
<1> QED BY <1>1 DEF Names

\* What is named is named by a row up to the current one.
LEMMA NamesBelow ==
  ASSUME NEW t \in Tables, NEW c \in 1..Len(t), NEW k, NEW n, NEW l, Names(t, n, l, c, k)
  PROVE  l \in 1..Len(t) /\ l <= c
<1>1. Len(t) \in Nat
  BY TablesAssumption
<1> QED BY <1>1 DEF Names, Reached

\* The work on one file has the effect that its row asks for.
LEMMA EffectAfter ==
  ASSUME NEW t \in Tables, NEW c \in 1..Len(t), Worked(t[c]), NEW k \in Spots(t[c]),
         NEW c2, NEW k2, After(t, c, k, c2, k2),
         NEW T, Effect(t, T, c, k), NEW U, NEW n0, n0 = NameOf(t[c], k),
         DOMAIN T \union {n0} \subseteq DOMAIN U,
         \A n \in DOMAIN T : n # n0 => U[n] = T[n],
         \A n \in DOMAIN T : T[n].kind = "d" <=> U[n].kind = "d",
         \A n \in DOMAIN U \ DOMAIN T : n # n0 => U[n] = Entry("d", "777", NoDev),
         Owns(U[n0], t[c]),
         t[c].type # "d" => U[n0].kind = t[c].type /\ U[n0].dev = Device(t[c], k),
         t[c].type = "d" => /\ ParentsThere(U, n0)
                            /\ IF n0 \in DOMAIN T
                               THEN U[n0].kind = T[n0].kind /\ U[n0].dev = T[n0].dev
                               ELSE Plain(U[n0])
  PROVE  Effect(t, U, c2, k2)
<1>0. Len(t) \in Nat
  BY TablesAssumption
<1>1. \A n, l : Names(t, n, l, c2, k2) <=> Names(t, n, l, c, k) \/ (l = c /\ n = n0)
  BY NamesAfter
<1>2. \A n, l : Shapes(t, n, l, c2, k2) <=>
                  Shapes(t, n, l, c, k) \/ (l = c /\ n = n0 /\ t[c].type # "d")
  BY <1>1 DEF Shapes
<1>3. \A n, l : Names(t, n, l, c, k) => l \in 1..Len(t) /\ l <= c
  BY NamesBelow
<1>4. \A n, m : n # n0 /\ LastName(t, n, m, c, k) => LastName(t, n, m, c2, k2)
  BY <1>1 DEF LastName
<1>5. LastName(t, n0, c, c2, k2)
  <2>1. \A m \in 1..Len(t) : m > c => ~Names(t, n0, m, c, k) /\ m # c
    BY <1>0, <1>3
  <2> QED BY <1>1, <2>1 DEF LastName
<1>6. ASSUME NEW n, NEW l, Names(t, n, l, c2, k2)
      PROVE  n \in DOMAIN U /\ \E m : LastName(t, n, m, c2, k2) /\ Owns(U[n], t[m])
  <2>1. CASE n = n0
    BY <1>5, <2>1
  <2>2. CASE n # n0
    <3>1. Names(t, n, l, c, k)
      BY <1>1, <1>6, <2>2
    <3>2. n \in DOMAIN T /\ \E m : LastName(t, n, m, c, k) /\ Owns(T[n], t[m])
      BY <3>1 DEF Effect
    <3> QED BY <1>4, <2>2, <3>2
  <2> QED BY <2>1, <2>2
<1>7. \A n, m : LastShape(t, n, m, c, k) /\ (n # n0 \/ t[c].type = "d") =>
                  LastShape(t, n, m, c2, k2)
  BY <1>2 DEF LastShape
<1>8. t[c].type # "d" => LastShape(t, n0, c, c2, k2) /\ HasShape(U[n0], n0, t[c])
  <2> SUFFICES ASSUME t[c].type # "d" PROVE LastShape(t, n0, c, c2, k2) /\ HasShape(U[n0], n0, t[c])
    OBVIOUS
  <2>1. \A m \in 1..Len(t) : m > c => ~Shapes(t, n0, m, c, k) /\ m # c
    BY <1>0, <1>3 DEF Shapes
  <2>2. LastShape(t, n0, c, c2, k2)
    BY <1>2, <2>1 DEF LastShape
  <2>3. \A j \in Spots(t[c]) : NameOf(t[c], j) = n0 => j = k
    BY SpotsFact
  <2> QED BY <2>2, <2>3 DEF HasShape
<1>9. ASSUME NEW n, NEW l, Shapes(t, n, l, c2, k2)
      PROVE  \E m : LastShape(t, n, m, c2, k2) /\ HasShape(U[n], n, t[m])
  <2>1. CASE n = n0 /\ t[c].type # "d"
    BY <1>8, <2>1
  <2>2. CASE n # n0 \/ t[c].type = "d"
    <3>1. Shapes(t, n, l, c, k)
      BY <1>2, <1>9, <2>2
    <3>2. PICK m : LastShape(t, n, m, c, k) /\ HasShape(T[n], n, t[m])
      BY <3>1 DEF Effect
    <3>3. n \in DOMAIN T
      BY <3>1 DEF Effect, Shapes
    <3>4. U[n].kind = T[n].kind /\ U[n].dev = T[n].dev
      BY <2>2, <3>3
    <3> QED BY <1>7, <2>2, <3>2, <3>4 DEF HasShape
  <2> QED BY <2>1, <2>2
<1>10. ASSUME NEW n \in DOMAIN U, \A l : ~Shapes(t, n, l, c2, k2)
       PROVE  Plain(U[n])
  <2>1. (\A l : ~Shapes(t, n, l, c, k)) /\ (n = n0 => t[c].type = "d")
    BY <1>2, <1>10
  <2>2. CASE n \in DOMAIN T
    <3>1. Plain(T[n])
      BY <2>1, <2>2 DEF Effect
    <3>2. U[n].kind = T[n].kind /\ U[n].dev = T[n].dev
      BY <2>1, <2>2
    <3> QED BY <3>1, <3>2 DEF Plain
  <2>3. CASE n \notin DOMAIN T
    <3>1. CASE n = n0
      BY <2>1, <2>3, <3>1
    <3>2. CASE n # n0
      BY <2>3, <3>2 DEF Plain, Entry
    <3> QED BY <3>1, <3>2
  <2> QED BY <2>2, <2>3
<1>11. ASSUME NEW n \in DOMAIN U, \A l : ~Names(t, n, l, c2, k2)
       PROVE  U[n].uid = 0 /\ U[n].gid = 0
  <2>1. (\A l : ~Names(t, n, l, c, k)) /\ n # n0
    BY <1>1, <1>11
  <2>2. CASE n \in DOMAIN T
    BY <2>1, <2>2 DEF Effect
  <2>3. CASE n \notin DOMAIN T
    BY <2>1, <2>3 DEF Entry
  <2> QED BY <2>2, <2>3
<1>12. ASSUME NEW n, NEW l, Names(t, n, l, c2, k2), t[l].type = "d"
       PROVE  ParentsThere(U, n)
  <2>1. CASE l = c /\ n = n0
    BY <1>12, <2>1
  <2>2. CASE ~ (l = c /\ n = n0)
    <3>1. ParentsThere(T, n)
      BY <1>1, <1>12, <2>2 DEF Effect
    <3> QED BY <3>1 DEF ParentsThere
  <2> QED BY <2>1, <2>2
<1> QED BY <1>6, <1>9, <1>10, <1>11, <1>12 DEF Effect

-----------------------------------------------------------------------------
(* Directories and the system calls                                          *)

IsEntry(e) == e = [kind |-> e.kind, mode |-> e.mode, uid |-> e.uid, gid |-> e.gid, dev |-> e.dev]

IsTree(T) == T = [n \in DOMAIN T |-> T[n]] /\ \A n \in DOMAIN T : IsEntry(T[n])

LEMMA EntryFields ==
  ASSUME NEW e, NEW k, NEW m, NEW u, NEW g, NEW d,
         e = [kind |-> k, mode |-> m, uid |-> u, gid |-> g, dev |-> d]
  PROVE  IsEntry(e) /\ e.kind = k /\ e.mode = m /\ e.uid = u /\ e.gid = g /\ e.dev = d
  BY DEF IsEntry

LEMMA EntryOwner ==
  ASSUME NEW e, IsEntry(e), NEW u, NEW g, NEW f, f = [e EXCEPT !.uid = u, !.gid = g]
  PROVE  f = [kind |-> e.kind, mode |-> e.mode, uid |-> u, gid |-> g, dev |-> e.dev]
<1>1. PICK k, o, a, b, d : e = [kind |-> k, mode |-> o, uid |-> a, gid |-> b, dev |-> d]
  BY DEF IsEntry
<1>2. PICK e1 : e1 = [e EXCEPT !.uid = u]
  OBVIOUS
<1>3. f = [e1 EXCEPT !.gid = g]
  BY <1>2
<1>4. e1 = [kind |-> k, mode |-> o, uid |-> u, gid |-> b, dev |-> d]
  BY <1>1, <1>2
<1>5. f = [kind |-> k, mode |-> o, uid |-> u, gid |-> g, dev |-> d]
  BY <1>3, <1>4
<1> QED BY <1>1, <1>5, EntryFields

LEMMA EntryChown ==
  ASSUME NEW e, IsEntry(e), NEW u, NEW g, NEW m, NEW f,
         f = [e EXCEPT !.uid = u, !.gid = g, !.mode = m]
  PROVE  f = [kind |-> e.kind, mode |-> m, uid |-> u, gid |-> g, dev |-> e.dev]
<1>1. PICK e1 : e1 = [e EXCEPT !.uid = u, !.gid = g]
  OBVIOUS
<1>2. f = [e1 EXCEPT !.mode = m]
  BY <1>1
<1>3. PICK k, d : k = e.kind /\ d = e.dev
  OBVIOUS
<1>4. PICK o : e1 = [kind |-> k, mode |-> o, uid |-> u, gid |-> g, dev |-> d]
  BY <1>1, <1>3, EntryOwner
<1>5. f = [kind |-> k, mode |-> m, uid |-> u, gid |-> g, dev |-> d]
  BY <1>2, <1>4
<1> QED BY <1>3, <1>5

\* chown and chmod change the owner and the mode of one file.
LEMMA OwnedFact ==
  ASSUME NEW T, IsTree(T), NEW n \in DOMAIN T, NEW uid, NEW gid, NEW mode,
         NEW U, U = Owned(T, n, uid, gid, mode)
  PROVE  /\ IsTree(U) /\ DOMAIN U = DOMAIN T
         /\ \A m \in DOMAIN T : m # n => U[m] = T[m]
         /\ U[n].mode = mode /\ U[n].uid = uid /\ U[n].gid = gid
         /\ U[n].kind = T[n].kind /\ U[n].dev = T[n].dev
<1> DEFINE C == Chown(T, n, uid, gid)
<1>1. PICK x : C = [T EXCEPT ![n] = [T[n] EXCEPT !.uid = uid, !.gid = gid, !.mode = x]]
  BY DEF Chown
<1>2. /\ IsTree(C) /\ DOMAIN C = DOMAIN T
      /\ \A m \in DOMAIN T : m # n => C[m] = T[m]
      /\ C[n] = [kind |-> T[n].kind, mode |-> x, uid |-> uid, gid |-> gid, dev |-> T[n].dev]
  <2>1. IsEntry(T[n])
    BY DEF IsTree
  <2>2. \A f : f = [T[n] EXCEPT !.uid = uid, !.gid = gid, !.mode = x] =>
          f = [kind |-> T[n].kind, mode |-> x, uid |-> uid, gid |-> gid, dev |-> T[n].dev]
    BY <2>1, EntryChown
  <2>3. /\ DOMAIN C = DOMAIN T /\ C = [m \in DOMAIN C |-> C[m]]
        /\ \A m \in DOMAIN T : m # n => C[m] = T[m]
        /\ C[n] = [kind |-> T[n].kind, mode |-> x, uid |-> uid, gid |-> gid, dev |-> T[n].dev]
    BY <1>1, <2>2
  <2> HIDE DEF C
  <2> QED BY <2>3 DEF IsTree, IsEntry
<1>3. U = [C EXCEPT ![n].mode = mode]
  BY DEF Owned, Chmod
<1> HIDE DEF C
<1>4. U[n] = [kind |-> T[n].kind, mode |-> mode, uid |-> uid, gid |-> gid, dev |-> T[n].dev]
  BY <1>2, <1>3
<1>5. /\ DOMAIN U = DOMAIN T /\ U = [m \in DOMAIN U |-> U[m]]
      /\ \A m \in DOMAIN T : m # n => U[m] = T[m]
  BY <1>2, <1>3
<1> QED BY <1>4, <1>5 DEF IsTree, IsEntry

LEMMA ChmodFact ==
  ASSUME NEW T, IsTree(T), NEW n \in DOMAIN T, NEW mode, NEW U, U = Chmod(T, n, mode)
  PROVE  /\ IsTree(U) /\ DOMAIN U = DOMAIN T
         /\ \A m \in DOMAIN T : m # n => U[m] = T[m]
         /\ U[n].kind = T[n].kind
<1>1. T[n] = [kind |-> T[n].kind, mode |-> T[n].mode, uid |-> T[n].uid, gid |-> T[n].gid,
              dev |-> T[n].dev]
  BY DEF IsTree, IsEntry
<1>2. U[n] = [kind |-> T[n].kind, mode |-> mode, uid |-> T[n].uid, gid |-> T[n].gid,
              dev |-> T[n].dev]
  BY <1>1 DEF Chmod
<1>3. /\ DOMAIN U = DOMAIN T /\ U = [m \in DOMAIN U |-> U[m]]
      /\ \A m \in DOMAIN T : m # n => U[m] = T[m]
  BY DEF Chmod
<1> QED BY <1>2, <1>3 DEF IsTree, IsEntry

\* mkdir makes a directory with its parents and changes nothing else.
LEMMA MkdirFact ==
  ASSUME NEW T, IsTree(T), NEW n, NEW mode, NEW U, U = bb_make_directory(T, n, mode)
  PROVE  /\ IsTree(U) /\ DOMAIN T \subseteq DOMAIN U /\ \A m \in DOMAIN T : U[m] = T[m]
         /\ \A m \in DOMAIN U \ DOMAIN T : m # n => U[m] = Entry("d", "777", NoDev)
         /\ n \in DOMAIN U \ DOMAIN T => U[n] = Entry("d", mode, NoDev)
         /\ ParentsThere(U, n)
         /\ n \in DOMAIN T /\ ParentsThere(T, n) => U = T
<1>1. CASE \E a \in Ancestors(n) : a \in DOMAIN T /\ T[a].kind # "d"
  <2>1. U = T
    BY <1>1 DEF bb_make_directory
  <2> QED BY <1>1, <2>1 DEF ParentsThere
<1>2. CASE ~ (\E a \in Ancestors(n) : a \in DOMAIN T /\ T[a].kind # "d")
  <2> DEFINE absent == ({n} \union Ancestors(n)) \ DOMAIN T
  <2>1. U = [a \in DOMAIN T \union absent |->
               IF a \in DOMAIN T THEN T[a]
               ELSE Entry("d", IF a = n THEN mode ELSE "777", NoDev)]
    BY <1>2 DEF bb_make_directory
  <2>2. \A m : IsEntry(Entry("d", m, NoDev))
    BY DEF IsEntry, Entry
  <2>3. \A m \in DOMAIN U : IsEntry(U[m])
    BY <2>1, <2>2 DEF IsTree
  <2>4. ASSUME n \in DOMAIN T, ParentsThere(T, n) PROVE U = T
    <3>1. absent = {}
      BY <1>2, <2>4 DEF ParentsThere
    <3>2. U = [a \in DOMAIN T |-> T[a]]
      BY <2>1, <3>1
    <3> QED BY <3>2 DEF IsTree
  <2>5. ParentsThere(U, n)
    BY <2>1 DEF ParentsThere
  <2>6. U = [m \in DOMAIN U |-> U[m]]
    BY <2>1
  <2> QED BY <2>1, <2>3, <2>4, <2>5, <2>6 DEF IsTree
<1> QED BY <1>1, <1>2

\* In a new fakeroot everything belongs to root and nothing is a device.
LEMMA SessionFact ==
  ASSUME NEW T, IsTree(T), NEW U, U = Session(T)
  PROVE  /\ IsTree(U) /\ DOMAIN U = DOMAIN T
         /\ \A n \in DOMAIN T :
              /\ Plain(U[n]) /\ U[n].uid = 0 /\ U[n].gid = 0
              /\ U[n].kind = "d" <=> T[n].kind = "d"
              /\ Plain(T[n]) /\ T[n].uid = 0 /\ T[n].gid = 0 => U[n] = T[n]
<1>1. /\ DOMAIN U = DOMAIN T /\ U = [n \in DOMAIN U |-> U[n]]
      /\ \A n \in DOMAIN T :
           U[n] = [T[n] EXCEPT !.uid = 0, !.gid = 0, !.dev = NoDev,
                               !.kind = IF @ = "d" THEN "d" ELSE "f"]
  BY DEF Session
<1>2. ASSUME NEW n \in DOMAIN T
      PROVE  U[n] = [kind |-> IF T[n].kind = "d" THEN "d" ELSE "f", mode |-> T[n].mode,
                     uid |-> 0, gid |-> 0, dev |-> NoDev]
  <2>1. T[n] = [kind |-> T[n].kind, mode |-> T[n].mode, uid |-> T[n].uid, gid |-> T[n].gid,
                dev |-> T[n].dev]
    BY DEF IsTree, IsEntry
  <2> QED BY <1>1, <2>1
<1>3. ASSUME NEW n \in DOMAIN T, Plain(T[n]), T[n].uid = 0, T[n].gid = 0 PROVE U[n] = T[n]
  <2>1. T[n] = [kind |-> T[n].kind, mode |-> T[n].mode, uid |-> T[n].uid, gid |-> T[n].gid,
                dev |-> T[n].dev]
    BY DEF IsTree, IsEntry
  <2> QED BY <1>2, <1>3, <2>1 DEF Plain
<1>4. ASSUME NEW n \in DOMAIN T
      PROVE  /\ IsEntry(U[n]) /\ Plain(U[n]) /\ U[n].uid = 0 /\ U[n].gid = 0
             /\ U[n].kind = "d" <=> T[n].kind = "d"
  <2>1. PICK k : k = IF T[n].kind = "d" THEN "d" ELSE "f"
    OBVIOUS
  <2>2. PICK e : e = U[n]
    OBVIOUS
  <2>3. PICK m : m = T[n].mode
    OBVIOUS
  <2>4. e = [kind |-> k, mode |-> m, uid |-> 0, gid |-> 0, dev |-> NoDev]
    BY <1>2, <2>1, <2>2, <2>3
  <2>5. IsEntry(e) /\ e.kind = k /\ e.uid = 0 /\ e.gid = 0 /\ e.dev = NoDev
    BY <2>4, EntryFields
  <2> QED BY <2>1, <2>2, <2>5 DEF Plain
<1> QED BY <1>1, <1>3, <1>4 DEF IsTree

-----------------------------------------------------------------------------
(* Where makedevs is, and what it has done so far                            *)

\* The number in the batch counts only for a row that makes nodes, and
\* without an error the image is made after the last row.
Place ==
  /\ table \in Tables /\ IsTree(tree)
  /\ pc \in {"idle", "table", "image"} /\ line \in Nat \ {0} /\ i \in Nat
  /\ pc = "table" =>
       /\ line <= Len(table) + 1
       /\ i # 0 => /\ line <= Len(table) /\ Worked(table[line])
                   /\ table[line].type \in DeviceTypes /\ i \in Spots(table[line])
  /\ pc = "image" /\ ret = 0 => line = Len(table) + 1 /\ i = 0

InProgress == Complete(table) /\ pc # "idle" /\ ret = 0 => Effect(table, tree, line, i)

\* The row that is worked on, and the number in its batch.
LEMMA AtWork ==
  ASSUME Place, Reading
  PROVE  /\ table \in Tables /\ line \in 1..Len(table) /\ Len(table) \in Nat /\ Row = table[line]
         /\ i \in Spots(Row)
         /\ i # 0 => Worked(Row) /\ Row.type \in DeviceTypes
<1>1. table \in Tables /\ line \in 1..Len(table) /\ Len(table) \in Nat
  BY TablesAssumption DEF Place, Reading
<1>2. 0 \in Spots(table[line])
  BY <1>1, SpotsFact
<1> QED BY <1>1, <1>2 DEF Place, Reading, Row

\* A step to the next file of the row, or to the next row.
LEMMA StepAfter ==
  ASSUME Place, Known,
         \/ Row.type \notin DeviceTypes /\ NextLine
         \/ /\ Row.type \in DeviceTypes
            /\ IF i + 1 \in Batch(Row) THEN i' = i + 1 /\ UNCHANGED <<table, pc, line, images, runs>>
               ELSE NextLine
  PROVE  /\ Worked(Row) /\ After(table, line, i, line', i')
         /\ UNCHANGED <<table, pc, images, runs>>
         /\ Place' <=> IsTree(tree')
<1>1. /\ table \in Tables /\ line \in 1..Len(table) /\ Len(table) \in Nat /\ Row = table[line]
      /\ i \in Spots(Row) /\ (i # 0 => Row.type \in DeviceTypes) /\ i \in Nat /\ pc = "table"
  BY AtWork DEF Known, Parsed, Reading, Place
<1>2. Worked(Row)
  BY DEF Known, Parsed, Worked
<1>3. UNCHANGED <<table, pc, images, runs>>
  BY DEF NextLine
<1>4. \/ i + 1 \in Spots(Row) /\ Row.type \in DeviceTypes /\ line' = line /\ i' = i + 1
      \/ i + 1 \notin Spots(Row) /\ line' = line + 1 /\ i' = 0
  BY <1>1 DEF NextLine, Spots
<1>5. After(table, line, i, line', i')
  BY <1>1, <1>4 DEF After
<1>6. /\ line' \in Nat \ {0} /\ i' \in Nat /\ line' <= Len(table) + 1
      /\ i' # 0 => line' = line /\ Row.type \in DeviceTypes /\ i' \in Spots(Row)
  BY <1>1, <1>4
<1>7. i' # 0 => table'[line'] = Row
  BY <1>1, <1>3, <1>6
<1>8. Place' <=> IsTree(tree')
  BY <1>1, <1>2, <1>3, <1>6, <1>7 DEF Place
<1> QED BY <1>2, <1>3, <1>5, <1>8

\* What a row for a directory does to the tree.
LEMMA DirectoryTree ==
  ASSUME Place, Directory
  PROVE  LET n0 == Row.name
         IN  /\ IsTree(tree') /\ DOMAIN tree \subseteq DOMAIN tree'
             /\ \A n \in DOMAIN tree : n # n0 => tree'[n] = tree[n]
             /\ \A n \in DOMAIN tree : tree'[n].kind = tree[n].kind
             /\ n0 \in DOMAIN tree /\ ParentsThere(tree, n0) => DOMAIN tree' = DOMAIN tree
             /\ ret' = 0 => ret = 0 /\ n0 \in DOMAIN tree'
             /\ n0 \in DOMAIN tree' =>
                  /\ \A n \in DOMAIN tree' \ DOMAIN tree : n # n0 =>
                       tree'[n] = Entry("d", "777", NoDev)
                  /\ tree'[n0].mode = Mode(Row)
                  /\ tree'[n0].uid = Id(User) /\ tree'[n0].gid = Id(Group)
                  /\ ParentsThere(tree', n0)
                  /\ IF n0 \in DOMAIN tree THEN tree'[n0].dev = tree[n0].dev
                     ELSE Plain(tree'[n0])
<1> DEFINE n0 == Row.name
           t == bb_make_directory(tree, n0, Mode(Row))
<1>0. IsTree(tree)
  BY DEF Place
<1>1. /\ IsTree(t) /\ DOMAIN tree \subseteq DOMAIN t /\ \A m \in DOMAIN tree : t[m] = tree[m]
      /\ \A m \in DOMAIN t \ DOMAIN tree : m # n0 => t[m] = Entry("d", "777", NoDev)
      /\ n0 \in DOMAIN t \ DOMAIN tree => t[n0] = Entry("d", Mode(Row), NoDev)
      /\ ParentsThere(t, n0)
      /\ n0 \in DOMAIN tree /\ ParentsThere(tree, n0) => t = tree
  BY <1>0, MkdirFact
<1>2. /\ tree' = IF n0 \in DOMAIN t THEN Owned(t, n0, Id(User), Id(Group), Mode(Row)) ELSE t
      /\ ret' = IF n0 \notin DOMAIN t THEN 1 ELSE ret
  BY DEF Directory, Result
<1>3. \A m : Plain(Entry("d", m, NoDev))
  BY DEF Plain, Entry
<1> HIDE DEF t, n0
<1>4. CASE n0 \in DOMAIN t
  <2>1. /\ IsTree(tree') /\ DOMAIN tree' = DOMAIN t
        /\ \A m \in DOMAIN t : m # n0 => tree'[m] = t[m]
        /\ tree'[n0].mode = Mode(Row) /\ tree'[n0].uid = Id(User) /\ tree'[n0].gid = Id(Group)
        /\ tree'[n0].kind = t[n0].kind /\ tree'[n0].dev = t[n0].dev
    BY <1>1, <1>2, <1>4, OwnedFact
  <2>2. \A m \in DOMAIN t : tree'[m].kind = t[m].kind
    BY <2>1
  <2>3. ParentsThere(tree', n0)
    BY <1>1, <2>1, <2>2 DEF ParentsThere
  <2>4. n0 \notin DOMAIN tree => Plain(tree'[n0])
    BY <1>1, <1>3, <1>4, <2>1 DEF Plain
  <2>5. ret' = 0 => ret = 0
    BY <1>2
  <2>6. \A n \in DOMAIN tree' \ DOMAIN tree : n # n0 => tree'[n] = Entry("d", "777", NoDev)
    BY <1>1, <2>1
  <2>7. n0 \in DOMAIN tree /\ ParentsThere(tree, n0) => DOMAIN tree' = DOMAIN tree
    BY <1>1, <2>1
  <2>8. /\ DOMAIN tree \subseteq DOMAIN tree'
        /\ \A n \in DOMAIN tree : n # n0 => tree'[n] = tree[n]
        /\ \A n \in DOMAIN tree : tree'[n].kind = tree[n].kind
        /\ n0 \in DOMAIN tree => tree'[n0].dev = tree[n0].dev
    BY <1>1, <2>1, <2>2
  <2> QED BY <1>4, <2>1, <2>3, <2>4, <2>5, <2>6, <2>7, <2>8 DEF n0
<1>5. CASE n0 \notin DOMAIN t
  <2>1. tree' = t /\ ret' = 1
    BY <1>2, <1>5
  <2> QED BY <1>1, <1>5, <2>1 DEF n0
<1> QED BY <1>4, <1>5

\* What a row for a file does to the tree.
LEMMA RegularFileTree ==
  ASSUME Place, RegularFile
  PROVE  LET n0 == Row.name
         IN  /\ IsTree(tree') /\ DOMAIN tree' = DOMAIN tree
             /\ \A n \in DOMAIN tree : n # n0 => tree'[n] = tree[n]
             /\ \A n \in DOMAIN tree : tree'[n].kind = tree[n].kind
             /\ ret' = 0 =>
                  /\ ret = 0 /\ n0 \in DOMAIN tree
                  /\ tree'[n0].kind = "f" /\ tree[n0].kind = "f" /\ tree'[n0].dev = tree[n0].dev
                  /\ tree'[n0].mode = Mode(Row)
                  /\ tree'[n0].uid = Id(User) /\ tree'[n0].gid = Id(Group)
<1> DEFINE n0 == Row.name
<1>1. IsTree(tree)
  BY DEF Place
<1>2. CASE IsFile
  <2>1. n0 \in DOMAIN tree /\ tree[n0].kind = "f"
    BY <1>2 DEF IsFile
  <2>2. tree' = Owned(tree, n0, Id(User), Id(Group), Mode(Row)) /\ ret' = ret
    BY <1>2 DEF RegularFile, Result
  <2>3. /\ IsTree(tree') /\ DOMAIN tree' = DOMAIN tree
        /\ \A m \in DOMAIN tree : m # n0 => tree'[m] = tree[m]
        /\ tree'[n0].mode = Mode(Row) /\ tree'[n0].uid = Id(User) /\ tree'[n0].gid = Id(Group)
        /\ tree'[n0].kind = tree[n0].kind /\ tree'[n0].dev = tree[n0].dev
    BY <1>1, <2>1, <2>2, OwnedFact
  <2> QED BY <2>1, <2>2, <2>3
<1>3. CASE ~IsFile
  <2>1. tree' = tree /\ ret' = 1
    BY <1>3 DEF RegularFile, Result
  <2> QED BY <1>1, <2>1
<1> QED BY <1>2, <1>3

\* What one number of a row for nodes does to the tree.
LEMMA NodeTree ==
  ASSUME Place, Node
  PROVE  LET n0 == NodeName(Row, i)
         IN  /\ IsTree(tree')
             /\ DOMAIN tree \subseteq DOMAIN tree' /\ DOMAIN tree' \subseteq DOMAIN tree \union {n0}
             /\ \A n \in DOMAIN tree : n # n0 => tree'[n] = tree[n]
             /\ \A n \in DOMAIN tree : tree[n].kind = "d" <=> tree'[n].kind = "d"
             /\ ret' = 0 =>
                  /\ ret = 0 /\ n0 \in DOMAIN tree'
                  /\ tree'[n0].kind = Row.type /\ tree'[n0].dev = Device(Row, i)
                  /\ tree'[n0].mode = Mode(Row)
                  /\ tree'[n0].uid = Id(User) /\ tree'[n0].gid = Id(Group)
<1> DEFINE n0 == NodeName(Row, i)
           new == Entry(Row.type, Mode(Row), IF Row.type = "p" THEN NoDev ELSE Rdev(Row, i))
<1>0. IsTree(tree) /\ Row.type \in DeviceTypes
  BY DEF Place, Node
<1>1. tree' = Made(n0) /\ ret' = IF ~CanMknod(tree, n0) THEN 1 ELSE ret
  BY DEF Node, Result
<1>2. CASE CanMknod(tree, n0)
  <2>1. n0 \in DOMAIN tree => tree[n0].kind # "d"
    BY <1>2 DEF CanMknod, IsDir
  <2>2. IsEntry(new) /\ new.kind = Row.type /\ new.dev = Device(Row, i)
    <3>1. PICK d : d = IF Row.type = "p" THEN NoDev ELSE Rdev(Row, i)
      OBVIOUS
    <3>2. d = Device(Row, i)
      BY <1>0, <3>1 DEF Device, DeviceTypes
    <3>3. new = [kind |-> Row.type, mode |-> Mode(Row), uid |-> 0, gid |-> 0, dev |-> d]
      BY <3>1 DEF Entry
    <3> HIDE DEF new
    <3> QED BY <3>2, <3>3, EntryFields
  <2>3. PICK e : e = new
    OBVIOUS
  <2>4. PICK t : t = With(tree, n0, e)
    OBVIOUS
  <2>5. tree' = Owned(t, n0, Id(User), Id(Group), Mode(Row)) /\ ret' = ret
    BY <1>1, <1>2, <2>3, <2>4 DEF Made
  <2> HIDE DEF new, n0
  <2>6. IsEntry(e)
    BY <2>2, <2>3
  <2>7. /\ IsTree(t) /\ DOMAIN t = DOMAIN tree \union {n0} /\ t[n0] = e
        /\ \A m \in DOMAIN tree : m # n0 => t[m] = tree[m]
    BY <1>0, <2>4, <2>6 DEF IsTree, With
  <2>8. /\ IsTree(tree') /\ DOMAIN tree' = DOMAIN t
        /\ \A m \in DOMAIN t : m # n0 => tree'[m] = t[m]
        /\ tree'[n0].mode = Mode(Row) /\ tree'[n0].uid = Id(User) /\ tree'[n0].gid = Id(Group)
        /\ tree'[n0].kind = t[n0].kind /\ tree'[n0].dev = t[n0].dev
    BY <2>5, <2>7, OwnedFact
  <2>9. tree'[n0].kind = Row.type /\ tree'[n0].dev = Device(Row, i) /\ Row.type # "d"
    BY <1>0, <2>2, <2>3, <2>7, <2>8 DEF DeviceTypes
  <2> QED BY <2>1, <2>5, <2>7, <2>8, <2>9 DEF n0
<1>3. CASE ~CanMknod(tree, n0) /\ n0 \in DOMAIN tree
  <2>1. tree' = Chmod(tree, n0, Mode(Row)) /\ ret' = 1
    BY <1>1, <1>3 DEF Made
  <2> HIDE DEF n0
  <2>2. /\ IsTree(tree') /\ DOMAIN tree' = DOMAIN tree
        /\ \A m \in DOMAIN tree : m # n0 => tree'[m] = tree[m]
        /\ tree'[n0].kind = tree[n0].kind
    BY <1>0, <1>3, <2>1, ChmodFact
  <2> QED BY <2>1, <2>2 DEF n0
<1>4. CASE ~CanMknod(tree, n0) /\ n0 \notin DOMAIN tree
  <2>1. tree' = tree /\ ret' = 1
    BY <1>1, <1>4 DEF Made
  <2> QED BY <1>0, <2>1
<1> QED BY <1>2, <1>3, <1>4

\* What is a regular file is no device, though a device of an image before may have been there.
LEMMA FileHasNoDev ==
  ASSUME NEW t \in Tables, NEW T, NEW c, NEW k, Effect(t, T, c, k),
         NEW n \in DOMAIN T, T[n].kind = "f"
  PROVE  T[n].dev = NoDev
<1>1. CASE \E l : Shapes(t, n, l, c, k)
  <2>1. PICK m : LastShape(t, n, m, c, k) /\ HasShape(T[n], n, t[m])
    BY <1>1 DEF Effect
  <2>2. PICK j \in Spots(t[m]) : NameOf(t[m], j) = n
    BY <2>1 DEF LastShape, Shapes, Names, Reached
  <2>3. t[m].type = "f" /\ T[n].dev = Device(t[m], j)
    BY <2>1, <2>2 DEF HasShape
  <2> QED BY <2>3 DEF Device
<1>2. CASE \A l : ~Shapes(t, n, l, c, k)
  BY <1>2 DEF Effect, Plain
<1> QED BY <1>1, <1>2

-----------------------------------------------------------------------------
(* The inductive invariant                                                   *)

LEMMA PlaceInit ==
  ASSUME Init
  PROVE  Place
<1>1. tree \in [DOMAIN tree -> [kind : STRING, mode : STRING, uid : Nat, gid : Nat,
                                dev : Nat \X Nat]]
  BY TreesAssumption DEF Init
<1>2. \A n \in DOMAIN tree :
        tree[n] \in [kind : STRING, mode : STRING, uid : Nat, gid : Nat, dev : Nat \X Nat]
  BY <1>1
<1>3. IsTree(tree)
  BY <1>1, <1>2 DEF IsTree, IsEntry
<1>4. /\ table \in Tables /\ pc = "idle" /\ line = 1 /\ i = 0
  BY DEF Init
<1> QED BY <1>3, <1>4 DEF Place

LEMMA PlaceStep ==
  ASSUME Place, [Next]_vars
  PROVE  Place'
<1>1. CASE BeginImage
  <2>1. IsTree(tree') /\ table' = table /\ pc' = "table" /\ line' = 1 /\ i' = 0
    BY <1>1, SessionFact DEF BeginImage, Place
  <2>2. Len(table) \in Nat
    BY TablesAssumption DEF Place
  <2> QED BY <2>1, <2>2 DEF Place
<1>2. CASE SkipLine \/ InvalidLine
  <2>1. Reading /\ ~Worked(Row)
    BY <1>2 DEF SkipLine, InvalidLine, Worked
  <2>2. i = 0 /\ Len(table) \in Nat
    BY <2>1, AtWork
  <2>3. UNCHANGED <<table, tree, pc, i>> /\ pc = "table" /\ line' = line + 1 /\ line <= Len(table)
    BY <1>2 DEF SkipLine, InvalidLine, Reading
  <2> QED BY <2>2, <2>3 DEF Place
<1>3. CASE UnknownId
  BY <1>3 DEF UnknownId, Place
<1>4. CASE Directory
  <2>1. Known /\ Row.type \notin DeviceTypes /\ NextLine
    BY <1>4 DEF Directory, DeviceTypes
  <2> QED BY <1>4, <2>1, StepAfter, DirectoryTree
<1>5. CASE RegularFile
  <2>1. Known /\ Row.type \notin DeviceTypes /\ NextLine
    BY <1>5 DEF RegularFile, DeviceTypes
  <2> QED BY <1>5, <2>1, StepAfter, RegularFileTree
<1>6. CASE Node
  <2>1. /\ Known /\ Row.type \in DeviceTypes
        /\ IF i + 1 \in Batch(Row) THEN i' = i + 1 /\ UNCHANGED <<table, pc, line, images, runs>>
           ELSE NextLine
    BY <1>6 DEF Node
  <2> QED BY <1>6, <2>1, StepAfter, NodeTree
<1>7. CASE UnsupportedType
  <2>1. Known /\ Row.type \notin DeviceTypes /\ NextLine /\ tree' = tree
    BY <1>7 DEF UnsupportedType
  <2>2. IsTree(tree')
    BY <2>1 DEF Place
  <2> QED BY <2>1, <2>2, StepAfter
<1>8. CASE EndOfTable
  <2>1. /\ pc = "table" /\ line > Len(table) /\ pc' = "image"
        /\ UNCHANGED <<table, tree, line, i, ret>>
    BY <1>8 DEF EndOfTable
  <2>2. Len(table) \in Nat
    BY TablesAssumption DEF Place
  <2>3. line = Len(table) + 1 /\ i = 0
    BY <2>1, <2>2 DEF Place
  <2> QED BY <2>1, <2>3 DEF Place
<1>9. CASE MakeImage \/ Killed
  BY <1>9 DEF MakeImage, Killed, Place
<1>10. CASE UNCHANGED vars
  BY <1>10 DEF vars, Place
<1> QED BY <1>1, <1>2, <1>3, <1>4, <1>5, <1>6, <1>7, <1>8, <1>9, <1>10 DEF Next

LEMMA InProgressStep ==
  ASSUME Place, InProgress, [Next]_vars
  PROVE  InProgress'
<1> SUFFICES ASSUME Complete(table'), pc' # "idle", ret' = 0
             PROVE  Effect(table', tree', line', i')
  BY DEF InProgress
<1>0. table' = table /\ table \in Tables /\ Complete(table) /\ IsTree(tree)
  <2>1. table' = table
    BY DEF Next, BeginImage, SkipLine, InvalidLine, UnknownId, Directory, RegularFile, Node,
           UnsupportedType, EndOfTable, MakeImage, Killed, NextLine, vars
  <2> QED BY <2>1 DEF Place
<1>1. CASE BeginImage
  <2>1. tree' = Session(tree) /\ line' = 1 /\ i' = 0
    BY <1>1 DEF BeginImage
  <2>2. \A n \in DOMAIN tree' : Plain(tree'[n]) /\ tree'[n].uid = 0 /\ tree'[n].gid = 0
    BY <1>0, <2>1, SessionFact
  <2>3. \A n, l : ~Names(table, n, l, 1, 0)
    BY <1>0, NamesNothing
  <2> QED BY <1>0, <2>1, <2>2, <2>3 DEF Effect, Shapes
<1>2. CASE SkipLine
  <2>1. Reading /\ ~Worked(Row) /\ UNCHANGED <<tree, pc, i, ret>> /\ line' = line + 1
    BY <1>2 DEF SkipLine, Worked
  <2>2. i = 0 /\ line \in 1..Len(table) /\ Row = table[line]
    BY <2>1, AtWork
  <2>3. Effect(table, tree, line, 0)
    BY <1>0, <2>1, <2>2 DEF InProgress, Reading
  <2>4. \A n, l : Names(table, n, l, line + 1, 0) <=> Names(table, n, l, line, 0)
    BY <1>0, <2>1, <2>2, NamesSkipped
  <2>5. Effect(table, tree, line + 1, 0)
    BY <2>3, <2>4 DEF Effect, Shapes, LastName, LastShape
  <2> QED BY <1>0, <2>1, <2>2, <2>5
<1>3. CASE Directory
  <2>1. Known /\ Row.type \notin DeviceTypes /\ NextLine /\ Row.type = "d" /\ Reading
    BY <1>3 DEF Directory, DeviceTypes, Known, Parsed
  <2>2. /\ line \in 1..Len(table) /\ Row = table[line] /\ i \in Spots(Row)
        /\ Worked(Row) /\ After(table, line, i, line', i')
    BY <2>1, AtWork, StepAfter
  <2>3. NameOf(Row, i) = Row.name /\ User = Field(Row, "user", "") /\ Group = Field(Row, "group", "")
    BY <1>0, <2>1, <2>2, CompleteFields DEF NameOf, User, Group
  <2>4. PICK n0 : n0 = Row.name
    OBVIOUS
  <2>5. /\ DOMAIN tree \union {n0} \subseteq DOMAIN tree'
        /\ \A n \in DOMAIN tree : n # n0 => tree'[n] = tree[n]
        /\ \A n \in DOMAIN tree : tree'[n].kind = tree[n].kind
        /\ ret = 0
        /\ \A n \in DOMAIN tree' \ DOMAIN tree : n # n0 => tree'[n] = Entry("d", "777", NoDev)
        /\ tree'[n0].mode = Mode(Row) /\ tree'[n0].uid = Id(User) /\ tree'[n0].gid = Id(Group)
        /\ ParentsThere(tree', n0)
        /\ IF n0 \in DOMAIN tree THEN tree'[n0].dev = tree[n0].dev ELSE Plain(tree'[n0])
    BY <1>3, <2>4, DirectoryTree
  <2>6. Effect(table, tree, line, i)
    BY <1>0, <2>1, <2>5 DEF InProgress, Reading
  <2>7. Owns(tree'[n0], Row)
    BY <2>3, <2>5 DEF Owns
  <2>8. PICK t, c, k, T : t = table /\ c = line /\ k = i /\ T = tree
    OBVIOUS
  <2>9. /\ t \in Tables /\ c \in 1..Len(t) /\ Worked(t[c]) /\ k \in Spots(t[c])
        /\ After(t, c, k, line', i') /\ Effect(t, T, c, k) /\ n0 = NameOf(t[c], k)
    BY <1>0, <2>2, <2>3, <2>4, <2>6, <2>8
  <2>10. /\ DOMAIN T \union {n0} \subseteq DOMAIN tree'
         /\ \A n \in DOMAIN T : n # n0 => tree'[n] = T[n]
         /\ \A n \in DOMAIN T : T[n].kind = "d" <=> tree'[n].kind = "d"
         /\ \A n \in DOMAIN tree' \ DOMAIN T : n # n0 => tree'[n] = Entry("d", "777", NoDev)
    BY <2>5, <2>8
  <2>11. /\ Owns(tree'[n0], t[c]) /\ t[c].type = "d" /\ ParentsThere(tree', n0)
         /\ IF n0 \in DOMAIN T THEN tree'[n0].kind = T[n0].kind /\ tree'[n0].dev = T[n0].dev
            ELSE Plain(tree'[n0])
    BY <2>1, <2>2, <2>5, <2>7, <2>8
  <2>12. Effect(t, tree', line', i')
    BY <2>9, <2>10, <2>11, EffectAfter
  <2> QED BY <1>0, <2>8, <2>12
<1>4. CASE RegularFile
  <2>1. Known /\ Row.type \notin DeviceTypes /\ NextLine /\ Row.type = "f" /\ Reading
    BY <1>4 DEF RegularFile, DeviceTypes, Known, Parsed
  <2>2. /\ line \in 1..Len(table) /\ Row = table[line] /\ i \in Spots(Row)
        /\ Worked(Row) /\ After(table, line, i, line', i')
    BY <2>1, AtWork, StepAfter
  <2>3. NameOf(Row, i) = Row.name /\ User = Field(Row, "user", "") /\ Group = Field(Row, "group", "")
    BY <1>0, <2>1, <2>2, CompleteFields DEF NameOf, User, Group
  <2>4. PICK n0 : n0 = Row.name
    OBVIOUS
  <2>5. /\ DOMAIN tree' = DOMAIN tree /\ n0 \in DOMAIN tree
        /\ \A n \in DOMAIN tree : n # n0 => tree'[n] = tree[n]
        /\ \A n \in DOMAIN tree : tree'[n].kind = tree[n].kind
        /\ ret = 0 /\ tree'[n0].kind = "f" /\ tree[n0].kind = "f" /\ tree'[n0].dev = tree[n0].dev
        /\ tree'[n0].mode = Mode(Row) /\ tree'[n0].uid = Id(User) /\ tree'[n0].gid = Id(Group)
    BY <1>4, <2>4, RegularFileTree
  <2>6. Effect(table, tree, line, i)
    BY <1>0, <2>1, <2>5 DEF InProgress, Reading
  <2>7. Owns(tree'[n0], Row) /\ tree'[n0].dev = Device(Row, i)
    <3>1. tree[n0].dev = NoDev
      BY <1>0, <2>5, <2>6, FileHasNoDev
    <3> QED BY <2>1, <2>3, <2>5, <3>1 DEF Owns, Device
  <2>8. PICK t, c, k, T : t = table /\ c = line /\ k = i /\ T = tree
    OBVIOUS
  <2>9. /\ t \in Tables /\ c \in 1..Len(t) /\ Worked(t[c]) /\ k \in Spots(t[c])
        /\ After(t, c, k, line', i') /\ Effect(t, T, c, k) /\ n0 = NameOf(t[c], k)
    BY <1>0, <2>2, <2>3, <2>4, <2>6, <2>8
  <2>10. /\ DOMAIN T \union {n0} \subseteq DOMAIN tree'
         /\ \A n \in DOMAIN T : n # n0 => tree'[n] = T[n]
         /\ \A n \in DOMAIN T : T[n].kind = "d" <=> tree'[n].kind = "d"
         /\ \A n \in DOMAIN tree' \ DOMAIN T : n # n0 => tree'[n] = Entry("d", "777", NoDev)
    BY <2>5, <2>8
  <2>11. /\ Owns(tree'[n0], t[c]) /\ t[c].type # "d" /\ tree'[n0].kind = t[c].type
         /\ tree'[n0].dev = Device(t[c], k)
    BY <2>1, <2>2, <2>5, <2>7, <2>8
  <2>12. Effect(t, tree', line', i')
    BY <2>9, <2>10, <2>11, EffectAfter
  <2> QED BY <1>0, <2>8, <2>12
<1>5. CASE Node
  <2>1. /\ Known /\ Row.type \in DeviceTypes /\ Reading
        /\ IF i + 1 \in Batch(Row) THEN i' = i + 1 /\ UNCHANGED <<table, pc, line, images, runs>>
           ELSE NextLine
    BY <1>5 DEF Node, Known, Parsed
  <2>2. /\ line \in 1..Len(table) /\ Row = table[line] /\ i \in Spots(Row)
        /\ Worked(Row) /\ After(table, line, i, line', i')
    BY <2>1, AtWork, StepAfter
  <2>3. /\ NameOf(Row, i) = NodeName(Row, i) /\ Row.type # "d"
        /\ User = Field(Row, "user", "") /\ Group = Field(Row, "group", "")
    BY <1>0, <2>1, <2>2, CompleteFields DEF NameOf, User, Group, DeviceTypes
  <2>4. PICK n0 : n0 = NodeName(Row, i)
    OBVIOUS
  <2>5. /\ DOMAIN tree \subseteq DOMAIN tree' /\ DOMAIN tree' \subseteq DOMAIN tree \union {n0}
        /\ n0 \in DOMAIN tree'
        /\ \A n \in DOMAIN tree : n # n0 => tree'[n] = tree[n]
        /\ \A n \in DOMAIN tree : tree[n].kind = "d" <=> tree'[n].kind = "d"
        /\ ret = 0 /\ tree'[n0].kind = Row.type /\ tree'[n0].dev = Device(Row, i)
        /\ tree'[n0].mode = Mode(Row) /\ tree'[n0].uid = Id(User) /\ tree'[n0].gid = Id(Group)
    BY <1>5, <2>4, NodeTree
  <2>6. Effect(table, tree, line, i)
    BY <1>0, <2>1, <2>5 DEF InProgress, Reading
  <2>7. Owns(tree'[n0], Row)
    BY <2>3, <2>5 DEF Owns
  <2>8. \A n \in DOMAIN tree' \ DOMAIN tree : n # n0 => tree'[n] = Entry("d", "777", NoDev)
    BY <2>5
  <2>9. PICK t, c, k, T : t = table /\ c = line /\ k = i /\ T = tree
    OBVIOUS
  <2>10. /\ t \in Tables /\ c \in 1..Len(t) /\ Worked(t[c]) /\ k \in Spots(t[c])
         /\ After(t, c, k, line', i') /\ Effect(t, T, c, k) /\ n0 = NameOf(t[c], k)
    BY <1>0, <2>2, <2>3, <2>4, <2>6, <2>9
  <2>11. /\ DOMAIN T \union {n0} \subseteq DOMAIN tree'
         /\ \A n \in DOMAIN T : n # n0 => tree'[n] = T[n]
         /\ \A n \in DOMAIN T : T[n].kind = "d" <=> tree'[n].kind = "d"
         /\ \A n \in DOMAIN tree' \ DOMAIN T : n # n0 => tree'[n] = Entry("d", "777", NoDev)
    BY <2>5, <2>8, <2>9
  <2>12. /\ Owns(tree'[n0], t[c]) /\ t[c].type # "d" /\ tree'[n0].kind = t[c].type
         /\ tree'[n0].dev = Device(t[c], k)
    BY <2>2, <2>3, <2>5, <2>7, <2>9
  <2>13. Effect(t, tree', line', i')
    BY <2>10, <2>11, <2>12, EffectAfter
  <2> QED BY <1>0, <2>9, <2>13
<1>6. CASE InvalidLine \/ UnknownId \/ UnsupportedType
  BY <1>6 DEF InvalidLine, UnknownId, UnsupportedType, Result
<1>7. CASE EndOfTable \/ UNCHANGED vars
  <2>1. UNCHANGED <<tree, line, i, ret>> /\ pc # "idle"
    BY <1>7 DEF EndOfTable, vars
  <2> QED BY <1>0, <2>1 DEF InProgress
<1>8. CASE MakeImage \/ Killed
  BY <1>8 DEF MakeImage, Killed
<1> QED BY <1>1, <1>2, <1>3, <1>4, <1>5, <1>6, <1>7, <1>8 DEF Next

-----------------------------------------------------------------------------
(* What makedevs says it has done                                            *)

\* No number of a batch is too large for the minor number of a device.
MinorsFit(t) ==
  \A l \in 1..Len(t) : Worked(t[l]) /\ t[l].type \in {"c", "b"} =>
    \A k \in Batch(t[l]) : Number(t[l], "minor") + k * Number(t[l], "increment") < IntSize

LEMMA SmallRemainder ==
  ASSUME NEW a \in Nat, NEW b \in Nat, a < b
  PROVE  a % b = a
  OBVIOUS

LEMMA ProductType ==
  ASSUME NEW a \in Nat, NEW b \in Nat, NEW c \in Nat
  PROVE  a + b * c \in Nat
  OBVIOUS

\* The files of a row are those that its documentation asks for.
LEMMA WantedSpots ==
  ASSUME NEW t \in Tables, NEW l \in 1..Len(t), Worked(t[l])
  PROVE  /\ \A k \in Spots(t[l]) : \E x \in Wanted(t[l]) : x[1] = NameOf(t[l], k)
         /\ \A w \in Wanted(t[l]) : \E k \in Spots(t[l]) :
              /\ NameOf(t[l], k) = w[1]
              /\ MinorsFit(t) /\ t[l].type \in {"c", "b"} =>
                   Device(t[l], k) = <<Number(t[l], "major"), w[2]>>
<1> DEFINE r == t[l]
           start == Number(r, "start")
           count == Number(r, "count")
           minor == Number(r, "minor")
           step == Number(r, "increment")
           NodeAt(n) == [r.name EXCEPT ![Len(r.name)] = Numbered(@, n)]
<1>1. start \in Nat /\ count \in Nat /\ minor \in Nat /\ step \in Nat
  BY NumberType DEF NumericFields
<1>2. \A k \in Batch(r) : k \in Nat
  BY <1>1 DEF Batch
<1>3. ASSUME MinorsFit(t), r.type \in {"c", "b"}, NEW k \in Batch(r)
      PROVE  Device(r, k) = <<Number(r, "major"), minor + k * step>>
  <2>1. minor + k * step < IntSize
    BY <1>3 DEF MinorsFit
  <2>2. minor + k * step \in Nat
    BY <1>1, <1>2, ProductType
  <2>3. (minor + k * step) % IntSize = minor + k * step
    BY <2>1, <2>2, SmallRemainder, MakeDevsAssumption
  <2> QED BY <1>3, <2>3 DEF Device, Rdev
<1>4. CASE r.type \in DeviceTypes /\ count > 0
  <2>1. Wanted(r) = {<<NodeAt(n), minor + (n - start) * step>> : n \in start .. start + count - 1}
    BY <1>4 DEF Wanted
  <2>2. Spots(r) = 0 .. (count - 1) /\ Spots(r) = Batch(r)
    BY <1>1, <1>4 DEF Spots, Batch
  <2>3. \A k : NameOf(r, k) = NodeAt(start + k)
    BY <1>1, <1>4 DEF NameOf, NodeName
  <2> HIDE DEF start, count, minor, step, NodeAt
  <2>4. ASSUME NEW k \in Spots(r) PROVE \E x \in Wanted(r) : x[1] = NameOf(r, k)
    <3>1. start + k \in start .. start + count - 1
      BY <1>1, <2>2
    <3>2. PICK n \in start .. start + count - 1 : n = start + k
      BY <3>1
    <3>3. <<NodeAt(n), minor + (n - start) * step>> \in Wanted(r)
      BY <2>1
    <3> QED BY <2>3, <3>2, <3>3
  <2>5. ASSUME NEW w \in Wanted(r)
        PROVE  \E k \in Spots(r) : /\ NameOf(r, k) = w[1]
                                   /\ MinorsFit(t) /\ r.type \in {"c", "b"} =>
                                        Device(r, k) = <<Number(r, "major"), w[2]>>
    <3>1. PICK n \in start .. start + count - 1 : w = <<NodeAt(n), minor + (n - start) * step>>
      BY <2>1
    <3>2. PICK k : k = n - start
      OBVIOUS
    <3>3. k \in 0 .. (count - 1) /\ start + k = n
      BY <1>1, <3>2
    <3>4. w[1] = NodeAt(n) /\ w[2] = minor + k * step
      BY <3>1, <3>2
    <3>5. k \in Spots(r) /\ k \in Batch(r)
      BY <2>2, <3>3
    <3>6. NameOf(r, k) = w[1]
      BY <2>3, <3>3, <3>4
    <3> QED BY <1>3, <3>4, <3>5, <3>6
  <2> QED BY <2>4, <2>5
<1>5. CASE ~ (r.type \in DeviceTypes /\ count > 0)
  <2>1. Wanted(r) = {<<r.name, minor>>}
    BY <1>5 DEF Wanted
  <2>2. Spots(r) = {0} /\ NameOf(r, 0) = r.name
    BY <1>1, <1>5 DEF Spots, Batch, NameOf, NodeName
  <2>3. r.type \in {"c", "b"} => 0 \in Batch(r)
    BY <2>2 DEF Spots, DeviceTypes
  <2>4. minor + 0 * step = minor
    BY <1>1
  <2>5. <<r.name, minor>>[1] = r.name /\ <<r.name, minor>>[2] = minor
    OBVIOUS
  <2> QED BY <1>3, <2>1, <2>2, <2>3, <2>4, <2>5
<1> QED BY <1>4, <1>5

\* After the last row every row has been gone through.
LEMMA NamesAll ==
  ASSUME NEW t \in Tables, NEW n, NEW l
  PROVE  Names(t, n, l, Len(t) + 1, 0) <=>
           l \in 1..Len(t) /\ Worked(t[l]) /\ \E j \in Spots(t[l]) : NameOf(t[l], j) = n
<1>1. ASSUME l \in 1..Len(t) PROVE Reached(t, l, Len(t) + 1, 0) = Spots(t[l])
  <2>1. l < Len(t) + 1
    BY <1>1, TablesAssumption
  <2> QED BY <2>1 DEF Reached
<1> QED BY <1>1 DEF Names

\* With the effect of all rows, each of them holds or is overruled by a later one.
LEMMA EffectIsDone ==
  ASSUME Place, Complete(table), MinorsFit(table), Effect(table, tree, Len(table) + 1, 0),
         NEW l \in 1..Len(table), Worked(table[l]), NEW w \in Wanted(table[l])
  PROVE  \/ Holds(table[l], w[1], w[2])
         \/ \E m \in l + 1 .. Len(table) : Worked(table[m]) /\ \E x \in Wanted(table[m]) : x[1] = w[1]
<1> DEFINE n == w[1]
           c == Len(table) + 1
<1>0. table \in Tables /\ Len(table) \in Nat
  BY TablesAssumption DEF Place
<1>1. PICK k \in Spots(table[l]) :
        /\ NameOf(table[l], k) = n
        /\ table[l].type \in {"c", "b"} => Device(table[l], k) = <<Number(table[l], "major"), w[2]>>
  BY <1>0, WantedSpots
<1>2. Names(table, n, l, c, 0)
  BY <1>0, <1>1, NamesAll
<1>3. PICK m : n \in DOMAIN tree /\ LastName(table, n, m, c, 0) /\ Owns(tree[n], table[m])
  BY <1>2 DEF Effect
<1>4. Names(table, n, m, c, 0) /\ m \in 1..Len(table)
  BY <1>3 DEF LastName, Names
<1>5. CASE m = l
  <2>1. table[l].type # "d" => HasShape(tree[n], n, table[l])
    <3> SUFFICES ASSUME table[l].type # "d" PROVE HasShape(tree[n], n, table[l])
      OBVIOUS
    <3>1. Shapes(table, n, l, c, 0)
      BY <1>2 DEF Shapes
    <3>2. PICK q : LastShape(table, n, q, c, 0) /\ HasShape(tree[n], n, table[q])
      BY <3>1 DEF Effect
    <3>3. q \in 1..Len(table) /\ Names(table, n, q, c, 0)
      BY <3>2 DEF LastShape, Shapes, Names
    <3>4. ~ (q > l) /\ ~ (l > q)
      BY <1>3, <1>5, <3>1, <3>2, <3>3 DEF LastName, LastShape
    <3> QED BY <3>2, <3>3, <3>4
  <2>2. Holds(table[l], n, w[2])
    <3>1. table[l].type # "d" => tree[n].kind = table[l].type
      BY <2>1 DEF HasShape
    <3>2. table[l].type \in {"c", "b"} => tree[n].dev = <<Number(table[l], "major"), w[2]>>
      BY <1>1, <2>1 DEF HasShape
    <3> QED BY <1>3, <1>5, <3>1, <3>2 DEF Holds, Owns
  <2> QED BY <2>2
<1>6. CASE m # l
  <2>1. ~ (l > m)
    BY <1>2, <1>3 DEF LastName
  <2>2. m \in l + 1 .. Len(table)
    BY <1>0, <1>4, <1>6, <2>1
  <2>3. Worked(table[m]) /\ \E x \in Wanted(table[m]) : x[1] = n
    <3>1. Worked(table[m])
      BY <1>0, <1>4, NamesAll
    <3>2. PICK j \in Spots(table[m]) : NameOf(table[m], j) = n
      BY <1>0, <1>4, NamesAll
    <3>3. \E x \in Wanted(table[m]) : x[1] = NameOf(table[m], j)
      BY <1>0, <1>4, <3>1, WantedSpots
    <3> QED BY <3>1, <3>2, <3>3
  <2> QED BY <2>2, <2>3
<1> QED BY <1>5, <1>6

LEMMA PlaceInvariant == Spec => []Place
<1>1. Init => Place
  BY PlaceInit
<1>2. Place /\ [Next]_vars => Place'
  BY PlaceStep
<1> QED BY <1>1, <1>2, PTL DEF Spec

LEMMA InProgressInvariant == Spec => []InProgress
<1>1. Init => InProgress
  BY DEF Init, InProgress
<1>2. Place /\ InProgress /\ [Next]_vars => InProgress'
  BY InProgressStep
<1> QED BY <1>1, <1>2, PlaceInvariant, PTL DEF Spec

(* When makedevs ends without an error, every row of the table has had its     *)
(* effect unless a later row names the same file (main of makedevs.c, and its  *)
(* README).  The code checks each number of a row against 0xfffff but not the  *)
(* last minor number of a batch, which is computed with 32 bits: the theorem is *)
(* about tables in which it fits.                                             *)
THEOREM TablesAreDone ==
  ASSUME \A t \in Tables : MinorsFit(t)
  PROVE  Spec => []SuccessMeansDone
<1>1. Place /\ InProgress => SuccessMeansDone
  <2> SUFFICES ASSUME Place, InProgress, pc = "image", ret = 0, Complete(table),
                      NEW l \in 1..Len(table), Worked(table[l]), NEW w \in Wanted(table[l])
               PROVE  \/ Holds(table[l], w[1], w[2])
                      \/ \E m \in l + 1 .. Len(table) :
                           Worked(table[m]) /\ \E x \in Wanted(table[m]) : x[1] = w[1]
    BY DEF SuccessMeansDone
  <2>1. Effect(table, tree, Len(table) + 1, 0)
    BY DEF Place, InProgress
  <2>2. MinorsFit(table)
    BY DEF Place
  <2> QED BY <2>1, <2>2, EffectIsDone
<1> QED BY <1>1, PlaceInvariant, InProgressInvariant, PTL

-----------------------------------------------------------------------------
(* Images                                                                    *)

\* The directory T can become A again: A has had the whole table, and T has
\* the same files, the same of them are directories, and those that no row
\* names are as they were.
Alike(t, T, A) ==
  /\ IsTree(A) /\ Effect(t, A, Len(t) + 1, 0)
  /\ DOMAIN T = DOMAIN A
  /\ \A n \in DOMAIN A : T[n].kind = "d" <=> A[n].kind = "d"
  /\ \A n \in DOMAIN A : (\A l : ~Names(t, n, l, Len(t) + 1, 0)) => T[n] = A[n]

IsImage(a) == a = [tree |-> a.tree, ret |-> a.ret]

ImagesKept ==
  Complete(table) => \A a \in images : IsImage(a) /\ (a.ret = 0 => Alike(table, tree, a.tree))

\* Two directories that have had the whole table do not differ.
LEMMA AlikeEqual ==
  ASSUME NEW t \in Tables, NEW T, NEW A, NEW B, Alike(t, T, A), Alike(t, T, B)
  PROVE  A = B
<1> DEFINE c == Len(t) + 1
<1>0. /\ A = [n \in DOMAIN A |-> A[n]] /\ B = [n \in DOMAIN B |-> B[n]] /\ DOMAIN A = DOMAIN B
      /\ \A n \in DOMAIN A : IsEntry(A[n]) /\ IsEntry(B[n])
  BY DEF Alike, IsTree
<1>1. ASSUME NEW n \in DOMAIN A PROVE A[n] = B[n]
  <2>1. CASE \A l : ~Names(t, n, l, c, 0)
    BY <1>0, <2>1 DEF Alike
  <2>2. CASE \E l : Names(t, n, l, c, 0)
    <3>1. PICK p : LastName(t, n, p, c, 0) /\ Owns(A[n], t[p])
      BY <2>2 DEF Alike, Effect
    <3>2. PICK q : LastName(t, n, q, c, 0) /\ Owns(B[n], t[q])
      BY <2>2 DEF Alike, Effect
    <3>3. p = q
      <4>1. p \in 1..Len(t) /\ q \in 1..Len(t) /\ Len(t) \in Nat
        BY <3>1, <3>2, TablesAssumption DEF LastName, Names
      <4>2. ~ (p > q) /\ ~ (q > p)
        BY <3>1, <3>2, <4>1 DEF LastName
      <4> QED BY <4>1, <4>2
    <3>4. A[n].mode = B[n].mode /\ A[n].uid = B[n].uid /\ A[n].gid = B[n].gid
      BY <3>1, <3>2, <3>3 DEF Owns
    <3>5. A[n].kind = B[n].kind /\ A[n].dev = B[n].dev
      <4>1. CASE \A l : ~Shapes(t, n, l, c, 0)
        <5>1. Plain(A[n]) /\ Plain(B[n])
          BY <1>0, <4>1 DEF Alike, Effect
        <5>2. A[n].kind = "d" <=> B[n].kind = "d"
          BY <1>0 DEF Alike
        <5> QED BY <5>1, <5>2 DEF Plain
      <4>2. CASE \E l : Shapes(t, n, l, c, 0)
        <5>1. PICK v : LastShape(t, n, v, c, 0) /\ HasShape(A[n], n, t[v])
          BY <4>2 DEF Alike, Effect
        <5>2. PICK w : LastShape(t, n, w, c, 0) /\ HasShape(B[n], n, t[w])
          BY <4>2 DEF Alike, Effect
        <5>3. v = w
          <6>1. v \in 1..Len(t) /\ w \in 1..Len(t) /\ Len(t) \in Nat
            BY <5>1, <5>2, TablesAssumption DEF LastShape, Shapes, Names
          <6>2. ~ (v > w) /\ ~ (w > v)
            BY <5>1, <5>2, <6>1 DEF LastShape
          <6> QED BY <6>1, <6>2
        <5>4. PICK j \in Spots(t[v]) : NameOf(t[v], j) = n
          BY <5>1 DEF LastShape, Shapes, Names, Reached
        <5> QED BY <5>1, <5>2, <5>3, <5>4 DEF HasShape
      <4> QED BY <4>1, <4>2
    <3> QED BY <1>0, <3>4, <3>5 DEF IsEntry
  <2> QED BY <2>1, <2>2
<1> QED BY <1>0, <1>1

\* A new fakeroot leaves what no row names as it is.
LEMMA AlikeSession ==
  ASSUME NEW t \in Tables, NEW T, IsTree(T), NEW A, Alike(t, T, A), NEW U, U = Session(T)
  PROVE  Alike(t, U, A)
<1>1. /\ DOMAIN U = DOMAIN T /\ DOMAIN T = DOMAIN A
      /\ \A n \in DOMAIN T :
           /\ U[n].kind = "d" <=> T[n].kind = "d"
           /\ Plain(T[n]) /\ T[n].uid = 0 /\ T[n].gid = 0 => U[n] = T[n]
  BY SessionFact DEF Alike
<1>2. ASSUME NEW n \in DOMAIN A, \A l : ~Names(t, n, l, Len(t) + 1, 0) PROVE U[n] = A[n]
  <2>1. T[n] = A[n] /\ \A l : ~Shapes(t, n, l, Len(t) + 1, 0)
    BY <1>2 DEF Alike, Shapes
  <2>2. Plain(A[n]) /\ A[n].uid = 0 /\ A[n].gid = 0
    BY <1>2, <2>1 DEF Alike, Effect
  <2> QED BY <1>1, <2>1, <2>2
<1> QED BY <1>1, <1>2 DEF Alike

\* The table works only on files that it names, which are there already.
LEMMA AlikeWork ==
  ASSUME NEW t \in Tables, NEW l \in 1..Len(t), Worked(t[l]), NEW k \in Spots(t[l]),
         NEW n0, n0 = NameOf(t[l], k), NEW T, NEW A, Alike(t, T, A)
  PROVE  /\ n0 \in DOMAIN T /\ (t[l].type = "d" => ParentsThere(T, n0))
         /\ \A U : /\ DOMAIN U = DOMAIN T
                   /\ \A n \in DOMAIN T : n # n0 => U[n] = T[n]
                   /\ \A n \in DOMAIN T : T[n].kind = "d" <=> U[n].kind = "d"
                   => Alike(t, U, A)
<1>1. Names(t, n0, l, Len(t) + 1, 0)
  BY NamesAll
<1>2. n0 \in DOMAIN A /\ DOMAIN A = DOMAIN T
  BY <1>1 DEF Alike, Effect
<1>3. ASSUME t[l].type = "d" PROVE ParentsThere(T, n0)
  <2>1. ParentsThere(A, n0)
    BY <1>1, <1>3 DEF Alike, Effect
  <2> QED BY <1>2, <2>1 DEF Alike, ParentsThere
<1>4. ASSUME NEW U, DOMAIN U = DOMAIN T, \A n \in DOMAIN T : n # n0 => U[n] = T[n],
             \A n \in DOMAIN T : T[n].kind = "d" <=> U[n].kind = "d"
      PROVE  Alike(t, U, A)
  <2>1. \A n \in DOMAIN A : (\A m : ~Names(t, n, m, Len(t) + 1, 0)) => U[n] = A[n]
    BY <1>1, <1>2, <1>4 DEF Alike
  <2> QED BY <1>2, <1>4, <2>1 DEF Alike
<1> QED BY <1>2, <1>3, <1>4

LEMMA ImagesKeptStep ==
  ASSUME Place, InProgress, ImagesKept, [Next]_vars
  PROVE  ImagesKept'
<1> SUFFICES ASSUME Complete(table'), NEW a \in images'
             PROVE  IsImage(a) /\ (a.ret = 0 => Alike(table', tree', a.tree))
  BY DEF ImagesKept
<1>0. table' = table /\ table \in Tables /\ Complete(table) /\ IsTree(tree)
  <2>1. table' = table
    BY DEF Next, BeginImage, SkipLine, InvalidLine, UnknownId, Directory, RegularFile, Node,
           UnsupportedType, EndOfTable, MakeImage, Killed, NextLine, vars
  <2> QED BY <2>1 DEF Place
<1>1. a \in images => IsImage(a) /\ (a.ret = 0 => Alike(table, tree, a.tree))
  BY <1>0 DEF ImagesKept
<1>2. CASE BeginImage
  <2>1. tree' = Session(tree) /\ images' = images
    BY <1>2 DEF BeginImage
  <2>2. IsImage(a) /\ (a.ret = 0 => Alike(table, tree, a.tree))
    BY <1>1, <2>1
  <2>3. a.ret = 0 => Alike(table, tree', a.tree)
    BY <1>0, <2>1, <2>2, AlikeSession
  <2> QED BY <1>0, <2>2, <2>3
<1>3. CASE Directory \/ RegularFile \/ Node
  <2>1. /\ Known /\ Reading
        /\ \/ Row.type \notin DeviceTypes /\ NextLine
           \/ /\ Row.type \in DeviceTypes
              /\ IF i + 1 \in Batch(Row)
                 THEN i' = i + 1 /\ UNCHANGED <<table, pc, line, images, runs>> ELSE NextLine
    BY <1>3 DEF Directory, RegularFile, Node, DeviceTypes, Known, Parsed
  <2>2. /\ line \in 1..Len(table) /\ Row = table[line] /\ i \in Spots(Row)
        /\ Worked(Row) /\ images' = images
    BY <2>1, AtWork, StepAfter
  <2>3. IsImage(a) /\ (a.ret = 0 => Alike(table, tree, a.tree))
    BY <1>1, <2>2
  <2> SUFFICES ASSUME a.ret = 0 PROVE Alike(table, tree', a.tree)
    BY <1>0, <2>3
  <2>4. PICK n0 : n0 = NameOf(table[line], i)
    OBVIOUS
  <2>5. /\ n0 \in DOMAIN tree /\ (Row.type = "d" => ParentsThere(tree, n0))
        /\ \A U : /\ DOMAIN U = DOMAIN tree
                  /\ \A n \in DOMAIN tree : n # n0 => U[n] = tree[n]
                  /\ \A n \in DOMAIN tree : tree[n].kind = "d" <=> U[n].kind = "d"
                  => Alike(table, U, a.tree)
    <3>1. PICK t, l, k, T, A : t = table /\ l = line /\ k = i /\ T = tree /\ A = a.tree
      OBVIOUS
    <3>2. /\ t \in Tables /\ l \in 1..Len(t) /\ Worked(t[l]) /\ k \in Spots(t[l])
          /\ n0 = NameOf(t[l], k) /\ Alike(t, T, A)
      BY <1>0, <2>2, <2>3, <2>4, <3>1
    <3>3. /\ n0 \in DOMAIN T /\ (t[l].type = "d" => ParentsThere(T, n0))
          /\ \A U : /\ DOMAIN U = DOMAIN T
                    /\ \A n \in DOMAIN T : n # n0 => U[n] = T[n]
                    /\ \A n \in DOMAIN T : T[n].kind = "d" <=> U[n].kind = "d"
                    => Alike(t, U, A)
      BY <3>2, AlikeWork
    <3> QED BY <2>2, <3>1, <3>3
  <2>6. /\ DOMAIN tree' = DOMAIN tree
        /\ \A n \in DOMAIN tree : n # n0 => tree'[n] = tree[n]
        /\ \A n \in DOMAIN tree : tree[n].kind = "d" <=> tree'[n].kind = "d"
    <3>1. CASE Directory
      <4>1. Row.type = "d" /\ n0 = Row.name
        BY <2>2, <2>4, <3>1 DEF Directory, NameOf, DeviceTypes
      <4>2. /\ \A n \in DOMAIN tree : n # n0 => tree'[n] = tree[n]
            /\ \A n \in DOMAIN tree : tree'[n].kind = tree[n].kind
            /\ n0 \in DOMAIN tree /\ ParentsThere(tree, n0) => DOMAIN tree' = DOMAIN tree
        BY <3>1, <4>1, DirectoryTree
      <4> QED BY <2>5, <4>1, <4>2
    <3>2. CASE RegularFile
      <4>1. n0 = Row.name
        BY <2>2, <2>4, <3>2 DEF RegularFile, NameOf, DeviceTypes
      <4> QED BY <3>2, <4>1, RegularFileTree
    <3>3. CASE Node
      <4>1. n0 = NodeName(Row, i)
        BY <2>2, <2>4, <3>3 DEF Node, NameOf
      <4>2. /\ DOMAIN tree \subseteq DOMAIN tree' /\ DOMAIN tree' \subseteq DOMAIN tree \union {n0}
            /\ \A n \in DOMAIN tree : n # n0 => tree'[n] = tree[n]
            /\ \A n \in DOMAIN tree : tree[n].kind = "d" <=> tree'[n].kind = "d"
        BY <3>3, <4>1, NodeTree
      <4> QED BY <2>5, <4>2
    <3> QED BY <1>3, <3>1, <3>2, <3>3
  <2> QED BY <2>5, <2>6
<1>4. CASE MakeImage
  <2>1. tree' = tree /\ images' = images \union {[tree |-> tree, ret |-> ret]} /\ pc = "image"
    BY <1>4 DEF MakeImage
  <2>2. CASE a \in images
    BY <1>0, <1>1, <2>1, <2>2
  <2>3. CASE a = [tree |-> tree, ret |-> ret]
    <3>1. IsImage(a) /\ a.tree = tree /\ a.ret = ret
      BY <2>3 DEF IsImage
    <3>2. ret = 0 => Effect(table, tree, Len(table) + 1, 0)
      BY <1>0, <2>1 DEF Place, InProgress
    <3>3. ret = 0 => Alike(table, tree, tree)
      BY <1>0, <3>2 DEF Alike
    <3> QED BY <1>0, <2>1, <3>1, <3>3
  <2> QED BY <2>1, <2>2, <2>3
<1>5. CASE SkipLine \/ InvalidLine \/ UnknownId \/ UnsupportedType \/ EndOfTable \/ Killed
           \/ UNCHANGED vars
  <2>1. UNCHANGED <<tree, images>>
    BY <1>5 DEF SkipLine, InvalidLine, UnknownId, UnsupportedType, EndOfTable, Killed, NextLine, vars
  <2> QED BY <1>0, <1>1, <2>1
<1> QED BY <1>2, <1>3, <1>4, <1>5 DEF Next

-----------------------------------------------------------------------------
(* What a run that succeeded shows of the table                              *)

\* A row that makedevs goes through without an error: it is no bad line, its
\* names are known, and the file of an "f" row was last made a file.
RowOk(t, l) ==
  /\ t[l].text = "row" => ~Invalid(t[l])
  /\ Worked(t[l]) =>
       /\ Id(Field(t[l], "user", "")) # -1 /\ Id(Field(t[l], "group", "")) # -1
       /\ t[l].type \in DeviceTypes \union {"d", "f"}
       /\ t[l].type = "f" => \A m : LastShape(t, t[l].name, m, l, 0) => t[m].type = "f"

\* All rows before row c are of that kind, and the devices could be made.
Passed(t, T, c, k) ==
  /\ \A l \in 1..Len(t) : l < c => RowOk(t, l)
  /\ \A n, l : Names(t, n, l, c, k) /\ t[l].type \in DeviceTypes => n \in DOMAIN T /\ CanMknod(T, n)

PassedSoFar == Complete(table) /\ pc # "idle" /\ ret = 0 => Passed(table, tree, line, i)

\* Where directories stay directories a device can be made again.
LEMMA MknodAgain ==
  ASSUME NEW T, NEW U, DOMAIN T \subseteq DOMAIN U,
         \A n \in DOMAIN T : T[n].kind = "d" <=> U[n].kind = "d",
         NEW n0 \in DOMAIN T, CanMknod(T, n0)
  PROVE  n0 \in DOMAIN U /\ CanMknod(U, n0)
  BY DEF CanMknod, IsDir

LEMMA PassedAfter ==
  ASSUME NEW t \in Tables, NEW c \in 1..Len(t), Worked(t[c]), NEW k \in Spots(t[c]),
         NEW c2, NEW k2, After(t, c, k, c2, k2), RowOk(t, c),
         NEW T, Passed(t, T, c, k), NEW U, DOMAIN T \subseteq DOMAIN U,
         \A n \in DOMAIN T : T[n].kind = "d" <=> U[n].kind = "d",
         NEW n0, n0 = NameOf(t[c], k),
         t[c].type \in DeviceTypes => n0 \in DOMAIN U /\ CanMknod(U, n0)
  PROVE  Passed(t, U, c2, k2)
<1>0. Len(t) \in Nat
  BY TablesAssumption
<1>1. \A l \in 1..Len(t) : l < c2 => RowOk(t, l)
  <2>1. \A l \in 1..Len(t) : l < c2 => l < c \/ l = c
    BY <1>0 DEF After
  <2> QED BY <2>1 DEF Passed
<1>2. ASSUME NEW n, NEW l, Names(t, n, l, c2, k2), t[l].type \in DeviceTypes
      PROVE  n \in DOMAIN U /\ CanMknod(U, n)
  <2>1. Names(t, n, l, c, k) \/ (l = c /\ n = n0)
    BY <1>2, NamesAfter
  <2>2. CASE Names(t, n, l, c, k)
    <3>1. n \in DOMAIN T /\ CanMknod(T, n)
      BY <1>2, <2>2 DEF Passed
    <3> QED BY <3>1, MknodAgain
  <2> QED BY <1>2, <2>1, <2>2
<1> QED BY <1>1, <1>2 DEF Passed

\* A row that ends without an error is one of those, and so is a line that is skipped.
LEMMA RowIsOk ==
  ASSUME Place, InProgress, Complete(table), ret = 0, ret' = 0,
         Directory \/ RegularFile \/ Node
  PROVE  RowOk(table, line)
<1>1. Known /\ Reading /\ Row.type \in DeviceTypes \union {"d", "f"}
  BY DEF Directory, RegularFile, Node, Known, Parsed
<1>2. /\ table \in Tables /\ line \in 1..Len(table) /\ Row = table[line] /\ Len(table) \in Nat
      /\ (i # 0 => Row.type \in DeviceTypes) /\ Worked(Row) /\ ~Invalid(Row)
  BY <1>1, AtWork DEF Known, Parsed, Worked
<1>3. User = Field(Row, "user", "") /\ Group = Field(Row, "group", "")
  BY <1>2, CompleteFields DEF User, Group
<1>4. ASSUME Row.type = "f", NEW m, LastShape(table, Row.name, m, line, 0)
      PROVE  table[m].type = "f"
  <2>1. RegularFile /\ i = 0
    BY <1>2, <1>4 DEF Directory, Node, DeviceTypes
  <2>2. tree[Row.name].kind = "f"
    BY <2>1, RegularFileTree
  <2>3. Effect(table, tree, line, 0)
    BY <1>1, <2>1 DEF InProgress, Reading
  <2>4. PICK q : /\ LastShape(table, Row.name, q, line, 0)
                 /\ HasShape(tree[Row.name], Row.name, table[q])
    BY <1>4, <2>3 DEF Effect, LastShape
  <2>5. m = q
    <3>1. m \in 1..Len(table) /\ q \in 1..Len(table)
      BY <1>4, <2>4 DEF LastShape, Shapes, Names
    <3>2. ~ (m > q) /\ ~ (q > m)
      BY <1>4, <2>4, <3>1 DEF LastShape
    <3> QED BY <1>2, <3>1, <3>2
  <2> QED BY <2>2, <2>4, <2>5 DEF HasShape
<1> QED BY <1>1, <1>2, <1>3, <1>4 DEF RowOk, Known

LEMMA PassedStep ==
  ASSUME Place, InProgress, PassedSoFar, [Next]_vars
  PROVE  PassedSoFar'
<1> SUFFICES ASSUME Complete(table'), pc' # "idle", ret' = 0
             PROVE  Passed(table', tree', line', i')
  BY DEF PassedSoFar
<1>0. table' = table /\ table \in Tables /\ Complete(table) /\ IsTree(tree) /\ Len(table) \in Nat
  <2>1. table' = table
    BY DEF Next, BeginImage, SkipLine, InvalidLine, UnknownId, Directory, RegularFile, Node,
           UnsupportedType, EndOfTable, MakeImage, Killed, NextLine, vars
  <2> QED BY <2>1, TablesAssumption DEF Place
<1>1. CASE BeginImage
  <2>1. line' = 1 /\ i' = 0
    BY <1>1 DEF BeginImage
  <2>2. \A n, l : ~Names(table, n, l, 1, 0)
    BY <1>0, NamesNothing
  <2>3. \A l \in 1..Len(table) : ~ (l < 1)
    BY <1>0
  <2> QED BY <1>0, <2>1, <2>2, <2>3 DEF Passed
<1>2. CASE SkipLine
  <2>1. Reading /\ ~Worked(Row) /\ UNCHANGED <<tree, pc, i, ret>> /\ line' = line + 1
    BY <1>2 DEF SkipLine, Worked
  <2>2. i = 0 /\ line \in 1..Len(table) /\ Row = table[line]
    BY <2>1, AtWork
  <2>3. Passed(table, tree, line, 0)
    BY <1>0, <2>1, <2>2 DEF PassedSoFar, Reading
  <2>4. \A n, l : Names(table, n, l, line + 1, 0) <=> Names(table, n, l, line, 0)
    BY <1>0, <2>1, <2>2, NamesSkipped
  <2>5. RowOk(table, line)
    BY <1>2, <2>1, <2>2 DEF RowOk, SkipLine
  <2>6. \A l \in 1..Len(table) : l < line + 1 => l < line \/ l = line
    BY <1>0, <2>2
  <2>7. Passed(table, tree, line + 1, 0)
    BY <2>3, <2>4, <2>5, <2>6 DEF Passed
  <2> QED BY <1>0, <2>1, <2>2, <2>7
<1>3. CASE Directory \/ RegularFile \/ Node
  <2>1. /\ Known /\ Reading
        /\ \/ Row.type \notin DeviceTypes /\ NextLine
           \/ /\ Row.type \in DeviceTypes
              /\ IF i + 1 \in Batch(Row)
                 THEN i' = i + 1 /\ UNCHANGED <<table, pc, line, images, runs>> ELSE NextLine
    BY <1>3 DEF Directory, RegularFile, Node, DeviceTypes, Known, Parsed
  <2>2. /\ line \in 1..Len(table) /\ Row = table[line] /\ i \in Spots(Row)
        /\ Worked(Row) /\ After(table, line, i, line', i')
    BY <2>1, AtWork, StepAfter
  <2>3. /\ ret = 0 /\ DOMAIN tree \subseteq DOMAIN tree'
        /\ \A n \in DOMAIN tree : tree[n].kind = "d" <=> tree'[n].kind = "d"
    BY <1>3, DirectoryTree, RegularFileTree, NodeTree
  <2>4. Passed(table, tree, line, i)
    BY <1>0, <2>1, <2>3 DEF PassedSoFar, Reading
  <2>5. RowOk(table, line)
    BY <1>0, <1>3, <2>3, RowIsOk
  <2>6. PICK n0 : n0 = NameOf(Row, i)
    OBVIOUS
  <2>7. Row.type \in DeviceTypes => n0 \in DOMAIN tree' /\ CanMknod(tree', n0)
    <3> SUFFICES ASSUME Row.type \in DeviceTypes PROVE n0 \in DOMAIN tree' /\ CanMknod(tree', n0)
      OBVIOUS
    <3>1. Node /\ n0 = NodeName(Row, i) /\ Row.type # "d"
      BY <1>3, <2>6 DEF Directory, RegularFile, DeviceTypes, NameOf
    <3>2. CanMknod(tree, n0)
      BY <2>3, <3>1 DEF Node, Result
    <3>3. n0 \in DOMAIN tree' /\ tree'[n0].kind = Row.type
      BY <3>1, NodeTree
    <3> QED BY <2>3, <3>1, <3>2, <3>3 DEF CanMknod, IsDir
  <2>8. PICK t, c, k, T : t = table /\ c = line /\ k = i /\ T = tree
    OBVIOUS
  <2>9. /\ t \in Tables /\ c \in 1..Len(t) /\ Worked(t[c]) /\ k \in Spots(t[c])
        /\ After(t, c, k, line', i') /\ Passed(t, T, c, k) /\ RowOk(t, c) /\ n0 = NameOf(t[c], k)
    BY <1>0, <2>2, <2>4, <2>5, <2>6, <2>8
  <2>10. /\ DOMAIN T \subseteq DOMAIN tree'
         /\ \A n \in DOMAIN T : T[n].kind = "d" <=> tree'[n].kind = "d"
         /\ t[c].type \in DeviceTypes => n0 \in DOMAIN tree' /\ CanMknod(tree', n0)
    BY <2>2, <2>3, <2>7, <2>8
  <2>11. Passed(t, tree', line', i')
    BY <2>9, <2>10, PassedAfter
  <2> QED BY <1>0, <2>8, <2>11
<1>4. CASE InvalidLine \/ UnknownId \/ UnsupportedType
  BY <1>4 DEF InvalidLine, UnknownId, UnsupportedType, Result
<1>5. CASE EndOfTable \/ UNCHANGED vars
  <2>1. UNCHANGED <<tree, line, i, ret>> /\ pc # "idle"
    BY <1>5 DEF EndOfTable, vars
  <2> QED BY <1>0, <2>1 DEF PassedSoFar
<1>6. CASE MakeImage \/ Killed
  BY <1>6 DEF MakeImage, Killed
<1> QED BY <1>1, <1>2, <1>3, <1>4, <1>5, <1>6 DEF Next

\* A table that was carried out once is carried out again.
ImagesAgain ==
  Complete(table) => \A a \in images : a.ret = 0 =>
    Passed(table, a.tree, Len(table) + 1, 0) /\ (pc # "idle" => ret = 0)

\* No row fails in a directory that can become that of the image a again.
LEMMA RowAgain ==
  ASSUME Place, InProgress, Complete(table), pc # "idle", ret = 0, NEW A,
         Alike(table, tree, A), Passed(table, A, Len(table) + 1, 0),
         \/ InvalidLine \/ UnknownId \/ Directory \/ RegularFile \/ Node \/ UnsupportedType
  PROVE  ret' = 0
<1>1. Reading
  BY DEF InvalidLine, UnknownId, Directory, RegularFile, Node, UnsupportedType, Known, Parsed
<1>2. /\ table \in Tables /\ line \in 1..Len(table) /\ Row = table[line] /\ Len(table) \in Nat
      /\ i \in Spots(Row) /\ (i # 0 => Row.type \in DeviceTypes)
  BY <1>1, AtWork
<1>3. RowOk(table, line)
  BY <1>2 DEF Passed
<1>4. ~InvalidLine
  BY <1>2, <1>3 DEF InvalidLine, RowOk
<1>5. Worked(Row)
  BY <1>4 DEF UnknownId, Directory, RegularFile, Node, UnsupportedType, Known, Parsed, Worked
<1>6. User = Field(Row, "user", "") /\ Group = Field(Row, "group", "")
  BY <1>2, <1>5, CompleteFields DEF User, Group
<1>7. ~UnknownId /\ ~UnsupportedType
  BY <1>2, <1>3, <1>5, <1>6 DEF UnknownId, UnsupportedType, RowOk
<1>8. PICK n0 : n0 = NameOf(Row, i)
  OBVIOUS
<1>9. PICK t, l, k, T : t = table /\ l = line /\ k = i /\ T = tree
  OBVIOUS
<1>10. Names(table, n0, line, Len(table) + 1, 0) /\ n0 \in DOMAIN tree
  <2>1. /\ t \in Tables /\ l \in 1..Len(t) /\ Worked(t[l]) /\ k \in Spots(t[l])
        /\ n0 = NameOf(t[l], k) /\ Alike(t, T, A)
    BY <1>2, <1>5, <1>8, <1>9
  <2>2. n0 \in DOMAIN T
    BY <2>1, AlikeWork
  <2>3. Names(t, n0, l, Len(t) + 1, 0)
    BY <2>1, NamesAll
  <2> QED BY <1>9, <2>2, <2>3
<1>11. CASE Directory
  <2>1. Row.type = "d" /\ n0 = Row.name
    BY <1>8, <1>11 DEF Directory, NameOf, DeviceTypes
  <2>2. PICK t2 : t2 = bb_make_directory(tree, n0, Mode(Row))
    OBVIOUS
  <2>3. DOMAIN tree \subseteq DOMAIN t2
    BY <2>2, MkdirFact DEF Place
  <2>4. ret' = IF n0 \notin DOMAIN t2 THEN 1 ELSE ret
    BY <1>11, <2>1, <2>2 DEF Directory, Result
  <2> QED BY <1>10, <2>3, <2>4
<1>12. CASE RegularFile
  <2>1. Row.type = "f" /\ n0 = Row.name /\ i = 0
    BY <1>2, <1>8, <1>12 DEF RegularFile, NameOf, DeviceTypes
  <2>2. tree[n0].kind # "d"
    <3>1. Shapes(table, n0, line, Len(table) + 1, 0)
      BY <1>2, <1>10, <2>1 DEF Shapes
    <3>2. PICK m : /\ LastShape(table, n0, m, Len(table) + 1, 0)
                   /\ HasShape(A[n0], n0, table[m])
      BY <3>1 DEF Alike, Effect
    <3>3. A[n0].kind # "d"
      BY <3>2 DEF LastShape, Shapes, HasShape
    <3> QED BY <1>10, <3>3 DEF Alike
  <2>3. Effect(table, tree, line, 0)
    BY <2>1 DEF InProgress
  <2>4. tree[n0].kind = "f"
    <3>1. CASE \A m : ~Shapes(table, n0, m, line, 0)
      BY <1>10, <2>2, <2>3, <3>1 DEF Effect, Plain
    <3>2. CASE \E m : Shapes(table, n0, m, line, 0)
      <4>1. PICK m : LastShape(table, n0, m, line, 0) /\ HasShape(tree[n0], n0, table[m])
        BY <2>3, <3>2 DEF Effect
      <4>2. table[m].type = "f"
        BY <1>2, <1>3, <1>5, <2>1, <4>1 DEF RowOk
      <4> QED BY <4>1, <4>2 DEF HasShape
    <3> QED BY <3>1, <3>2
  <2> QED BY <1>10, <1>12, <2>1, <2>4 DEF RegularFile, Result, IsFile
<1>13. CASE Node
  <2>1. Row.type \in DeviceTypes /\ n0 = NodeName(Row, i)
    BY <1>8, <1>13 DEF Node, NameOf
  <2>2. n0 \in DOMAIN A /\ CanMknod(A, n0)
    BY <1>2, <1>10, <2>1 DEF Passed
  <2>3. /\ DOMAIN A \subseteq DOMAIN T
        /\ \A n \in DOMAIN A : A[n].kind = "d" <=> T[n].kind = "d"
    BY <1>9 DEF Alike
  <2>4. CanMknod(T, n0)
    BY <2>2, <2>3, MknodAgain
  <2> QED BY <1>9, <1>13, <2>1, <2>4 DEF Node, Result
<1> QED BY <1>4, <1>7, <1>11, <1>12, <1>13

LEMMA ImagesAgainStep ==
  ASSUME Place, InProgress, PassedSoFar, ImagesKept, ImagesAgain, [Next]_vars
  PROVE  ImagesAgain'
<1> SUFFICES ASSUME Complete(table'), NEW a \in images', a.ret = 0
             PROVE  /\ Passed(table', a.tree, Len(table') + 1, 0)
                    /\ pc' # "idle" => ret' = 0
  BY DEF ImagesAgain
<1>0. table' = table /\ Complete(table)
  BY DEF Next, BeginImage, SkipLine, InvalidLine, UnknownId, Directory, RegularFile, Node,
         UnsupportedType, EndOfTable, MakeImage, Killed, NextLine, vars
<1>1. a \in images => /\ Passed(table, a.tree, Len(table) + 1, 0) /\ Alike(table, tree, a.tree)
                      /\ pc # "idle" => ret = 0
  BY <1>0 DEF ImagesAgain, ImagesKept
<1>2. CASE MakeImage
  <2>1. pc = "image" /\ pc' = "idle" /\ images' = images \union {[tree |-> tree, ret |-> ret]}
    BY <1>2 DEF MakeImage
  <2>2. CASE a \in images
    BY <1>0, <1>1, <2>1, <2>2
  <2>3. CASE a = [tree |-> tree, ret |-> ret]
    <3>1. a.tree = tree /\ ret = 0
      BY <2>3
    <3>2. Passed(table, tree, Len(table) + 1, 0)
      BY <1>0, <2>1, <3>1 DEF Place, PassedSoFar
    <3> QED BY <1>0, <2>1, <3>1, <3>2
  <2> QED BY <2>1, <2>2, <2>3
<1>3. CASE InvalidLine \/ UnknownId \/ Directory \/ RegularFile \/ Node \/ UnsupportedType
  <2>1. images' = images /\ pc = "table"
    BY <1>3 DEF InvalidLine, UnknownId, Directory, RegularFile, Node, UnsupportedType, Known,
                Parsed, Reading, NextLine
  <2>2. Passed(table, a.tree, Len(table) + 1, 0) /\ Alike(table, tree, a.tree) /\ ret = 0
    BY <1>1, <2>1
  <2>3. ret' = 0
    <3>1. PICK A : A = a.tree
      OBVIOUS
    <3>2. Passed(table, A, Len(table) + 1, 0) /\ Alike(table, tree, A)
      BY <2>2, <3>1
    <3>3. pc # "idle"
      BY <2>1
    <3> QED BY <1>0, <1>3, <2>2, <3>2, <3>3, RowAgain
  <2> QED BY <1>0, <2>2, <2>3
<1>4. CASE BeginImage
  BY <1>0, <1>1, <1>4 DEF BeginImage
<1>5. CASE SkipLine \/ EndOfTable \/ Killed \/ UNCHANGED vars
  <2>1. images' = images /\ ret' = ret /\ (pc' # "idle" => pc # "idle")
    BY <1>5 DEF SkipLine, EndOfTable, Killed, Reading, vars
  <2> QED BY <1>0, <1>1, <2>1
<1> QED BY <1>2, <1>3, <1>4, <1>5 DEF Next

(* Once the device table of a build was carried out for an image it is carried *)
(* out for every later one, with the same result, whatever the target          *)
(* directory was at first and however often make was killed on the way         *)
(* (ROOTFS_DEVICE_TABLES and the fakeroot script of src/fs/common.mk).         *)
THEOREM ImagesDoNotDiffer == Spec => []ImagesAlike
<1>1. Init => ImagesKept /\ PassedSoFar /\ ImagesAgain
  BY DEF Init, ImagesKept, PassedSoFar, ImagesAgain
<1>2. Place /\ InProgress /\ ImagesKept /\ [Next]_vars => ImagesKept'
  BY ImagesKeptStep
<1>3. Place /\ InProgress /\ PassedSoFar /\ [Next]_vars => PassedSoFar'
  BY PassedStep
<1>4. Place /\ InProgress /\ PassedSoFar /\ ImagesKept /\ ImagesAgain /\ [Next]_vars => ImagesAgain'
  BY ImagesAgainStep
<1>5. Place /\ InProgress /\ ImagesKept /\ ImagesAgain => ImagesAlike
  <2> SUFFICES ASSUME Place, InProgress, ImagesKept, ImagesAgain, pc = "image", Complete(table),
                      NEW a \in images, a.ret = 0
               PROVE  a = [tree |-> tree, ret |-> ret]
    BY DEF ImagesAlike
  <2>1. /\ IsImage(a) /\ table \in Tables /\ IsTree(tree)
        /\ Alike(table, tree, a.tree) /\ ret = 0
    BY DEF ImagesKept, ImagesAgain, Place
  <2>2. Effect(table, tree, Len(table) + 1, 0)
    BY <2>1 DEF Place, InProgress
  <2>3. Alike(table, tree, tree)
    BY <2>1, <2>2 DEF Alike
  <2>4. a.tree = tree
    BY <2>1, <2>3, AlikeEqual
  <2> QED BY <2>1, <2>4 DEF IsImage
<1> QED BY <1>1, <1>2, <1>3, <1>4, <1>5, PlaceInvariant, InProgressInvariant, PTL DEF Spec
=============================================================================
