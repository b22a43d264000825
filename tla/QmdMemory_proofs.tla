-------------------------- MODULE QmdMemory_proofs --------------------------
(***************************************************************************)
(* Theorems about QmdMemory, for every set of callers, paths and contents  *)
(* and every bound on ids, cache entries and restarts.                     *)
(***************************************************************************)
EXTENDS MCQmdClient, SequenceTheorems, FunctionTheorems, FiniteSetTheorems,
        WellFoundedInduction, TLAPS

-----------------------------------------------------------------------------
(* Positions in a sequence *)

(* A non-empty set of naturals has a least element. *)
LEMMA NatMin ==
    ASSUME NEW T \in SUBSET Nat, T # {}
    PROVE  Min(T) \in T
<1>1. PICK x \in T : \A y \in T : ~(<<y, x>> \in OpToRel(<, Nat))
  BY NatLessThanWellFounded, WFMin
<1>2. ASSUME NEW y \in T  PROVE x <= y
  <2>1. SUFFICES ASSUME y < x  PROVE FALSE
    OBVIOUS
  <2>2. <<y, x>> \in OpToRel(<, Nat)
    BY <2>1, Zenon DEF OpToRel
  <2> QED
    BY <1>1, <2>2
<1>3. \E z \in T : \A y \in T : z <= y
  BY <1>2
<1> QED
  BY <1>3 DEF Min

(* The first position of I, or 0 when I is empty, as the scans of docs and    *)
(* of the store compute it.                                                   *)
LEMMA FirstFact ==
    ASSUME NEW n \in Nat, NEW I \in SUBSET (1..n), NEW k,
           k = IF I # {} THEN Min(I) ELSE 0
    PROVE  /\ k \in 0..n
           /\ k # 0 => k \in 1..n /\ k \in I
           /\ k = 0 => I = {}
<1>1. CASE I = {}
  BY <1>1
<1>2. CASE I # {}
  <2>1. I \in SUBSET Nat
    OBVIOUS
  <2>2. k \in I
    BY <1>2, <2>1, NatMin
  <2> QED
    BY <2>2
<1> QED
  BY <1>1, <1>2

(* PathPos: the position of a document of the path, 0 when there is none. *)
LEMMA PathPosFact ==
    ASSUME NEW S, NEW s \in Seq(S), NEW path
    PROVE  /\ PathPos(s, path) \in 0..Len(s)
           /\ PathPos(s, path) # 0 => /\ PathPos(s, path) \in 1..Len(s)
                                      /\ s[PathPos(s, path)].path = path
           /\ PathPos(s, path) = 0 => \A i \in 1..Len(s) : s[i].path # path
<1> DEFINE I == {i \in 1..Len(s) : s[i].path = path}
<1>1. I \in SUBSET (1..Len(s)) /\ Len(s) \in Nat  OBVIOUS
<1>2. PathPos(s, path) = IF I # {} THEN Min(I) ELSE 0
  BY DEF PathPos, SelectInSeq
<1>3. \A i : i \in I <=> i \in 1..Len(s) /\ s[i].path = path
  OBVIOUS
<1> HIDE DEF I
<1> QED
  BY <1>1, <1>2, <1>3, FirstFact

(* IdPos: the position of a document with the id, 0 when there is none. *)
LEMMA IdPosFact ==
    ASSUME NEW S, NEW s \in Seq(S), NEW id
    PROVE  /\ IdPos(s, id) \in 0..Len(s)
           /\ IdPos(s, id) # 0 => IdPos(s, id) \in 1..Len(s) /\ s[IdPos(s, id)].id = id
           /\ IdPos(s, id) = 0 => \A i \in 1..Len(s) : s[i].id # id
<1> DEFINE I == {i \in 1..Len(s) : s[i].id = id}
<1>1. I \in SUBSET (1..Len(s)) /\ Len(s) \in Nat  OBVIOUS
<1>2. IdPos(s, id) = IF I # {} THEN Min(I) ELSE 0
  BY DEF IdPos, SelectInSeq
<1>3. \A i : i \in I <=> i \in 1..Len(s) /\ s[i].id = id
  OBVIOUS
<1> HIDE DEF I
<1> QED
  BY <1>1, <1>2, <1>3, FirstFact

(* KeyPos: the position of a document with the key as id or path. *)
LEMMA KeyPosFact ==
    ASSUME NEW S, NEW s \in Seq(S), NEW key
    PROVE  /\ KeyPos(s, key) \in 0..Len(s)
           /\ KeyPos(s, key) # 0 =>
                 /\ KeyPos(s, key) \in 1..Len(s)
                 /\ s[KeyPos(s, key)].path = key \/ s[KeyPos(s, key)].id = key
           /\ KeyPos(s, key) = 0 => \A i \in 1..Len(s) : s[i].path # key /\ s[i].id # key
<1> DEFINE I == {i \in 1..Len(s) : s[i].path = key \/ s[i].id = key}
<1>1. I \in SUBSET (1..Len(s)) /\ Len(s) \in Nat  OBVIOUS
<1>2. KeyPos(s, key) = IF I # {} THEN Min(I) ELSE 0
  BY DEF KeyPos, SelectInSeq
<1>3. \A i : i \in I <=> i \in 1..Len(s) /\ (s[i].path = key \/ s[i].id = key)
  OBVIOUS
<1> HIDE DEF I
<1> QED
  BY <1>1, <1>2, <1>3, FirstFact

(* NamePos: the position of a document with the id or the path of d. *)
LEMMA NamePosFact ==
    ASSUME NEW S, NEW s \in Seq(S), NEW d
    PROVE  LET k == NamePos(s, d)
           IN  /\ k \in 0..Len(s)
               /\ k # 0 => k \in 1..Len(s) /\ (s[k].id = d.id \/ s[k].path = d.path)
               /\ k = 0 => \A i \in 1..Len(s) : s[i].id # d.id /\ s[i].path # d.path
<1> DEFINE I == {i \in 1..Len(s) : s[i].id = d.id \/ s[i].path = d.path}
<1>1. I \in SUBSET (1..Len(s)) /\ Len(s) \in Nat  OBVIOUS
<1>2. NamePos(s, d) = IF I # {} THEN Min(I) ELSE 0
  BY DEF NamePos, SelectInSeq
<1>3. \A i : i \in I <=> i \in 1..Len(s) /\ (s[i].id = d.id \/ s[i].path = d.path)
  OBVIOUS
<1> HIDE DEF I
<1> QED
  BY <1>1, <1>2, <1>3, FirstFact

(* TwinPos: the position of a document identical to d. *)
LEMMA TwinPosFact ==
    ASSUME NEW S, NEW s \in Seq(S), NEW d
    PROVE  LET k == TwinPos(s, d)
           IN  /\ k \in 0..Len(s)
               /\ k # 0 => k \in 1..Len(s) /\ IsIdentical(s[k], d)
               /\ k = 0 => \A i \in 1..Len(s) : ~IsIdentical(s[i], d)
<1> DEFINE I == {i \in 1..Len(s) : IsIdentical(s[i], d)}
<1>1. I \in SUBSET (1..Len(s)) /\ Len(s) \in Nat  OBVIOUS
<1>2. TwinPos(s, d) = IF I # {} THEN Min(I) ELSE 0
  BY DEF TwinPos, SelectInSeq
<1>3. \A i : i \in I <=> i \in 1..Len(s) /\ IsIdentical(s[i], d)
  OBVIOUS
<1> HIDE DEF I
<1> QED
  BY <1>1, <1>2, <1>3, FirstFact

-----------------------------------------------------------------------------
(* Sequences of documents *)

(* Removing a position keeps the other elements and adds none. *)
LEMMA RemoveAtFact ==
    ASSUME NEW S, NEW s \in Seq(S), NEW i \in 1..Len(s)
    PROVE  /\ RemoveAt(s, i) \in Seq(S)
           /\ Len(RemoveAt(s, i)) = Len(s) - 1
           /\ \A j \in 1..(Len(s) - 1) :
                 RemoveAt(s, i)[j] = IF j < i THEN s[j] ELSE s[j + 1]
<1> DEFINE a == SubSeq(s, 1, i - 1)
           b == SubSeq(s, i + 1, Len(s))
<1>0. Len(s) \in Nat /\ \A k \in 1..Len(s) : s[k] \in S
  OBVIOUS
<1>1. /\ a \in Seq(S)
      /\ Len(a) = i - 1
      /\ \A k \in 1..(i - 1) : a[k] = s[k]
  BY <1>0
<1>2. /\ b \in Seq(S)
      /\ Len(b) = Len(s) - i
      /\ \A k \in 1..(Len(s) - i) : b[k] = s[i + k]
  BY <1>0
<1>3. RemoveAt(s, i) = a \o b
  BY DEF RemoveAt
<1> HIDE DEF a, b
<1>4. /\ a \o b \in Seq(S)
      /\ Len(a \o b) = Len(a) + Len(b)
      /\ \A k \in 1..(Len(a) + Len(b)) :
            (a \o b)[k] = IF k <= Len(a) THEN a[k] ELSE b[k - Len(a)]
  BY <1>1, <1>2, ConcatProperties
<1>5. Len(a) + Len(b) = Len(s) - 1
  BY <1>0, <1>1, <1>2
<1>6. ASSUME NEW j \in 1..(Len(s) - 1)
      PROVE  (a \o b)[j] = IF j < i THEN s[j] ELSE s[j + 1]
  <2>1. CASE j < i
    BY <2>1, <1>0, <1>1, <1>4, <1>5
  <2>2. CASE ~(j < i)
    <3>1. (a \o b)[j] = b[j - (i - 1)]
      BY <2>2, <1>0, <1>1, <1>4, <1>5
    <3>2. j - (i - 1) \in 1..(Len(s) - i) /\ i + (j - (i - 1)) = j + 1
      BY <2>2, <1>0
    <3> QED
      BY <2>2, <3>1, <3>2, <1>2
  <2> QED
    BY <2>1, <2>2
<1> QED
  BY <1>3, <1>4, <1>5, <1>6

(* The elements of a sequence form a finite set. *)
LEMMA RangeFact ==
    ASSUME NEW S, NEW s \in Seq(S)
    PROVE  /\ IsFiniteSet(Range(s))
           /\ Range(s) \subseteq S
           /\ \A i \in 1..Len(s) : s[i] \in Range(s)
           /\ \A e \in Range(s) : \E i \in 1..Len(s) : e = s[i]
<1>1. Len(s) \in Nat /\ s \in [1..Len(s) -> S] /\ DOMAIN s = 1..Len(s)
  BY LenProperties
<1>2. IsFiniteSet(1..Len(s))
  BY <1>1, FS_Interval
<1>3. s \in Surjection(1..Len(s), Range(s))
  BY <1>1, Fun_RangeProperties
<1>4. IsFiniteSet(Range(s))
  BY <1>2, <1>3, FS_Surjection
<1> QED
  BY <1>1, <1>4 DEF Range

(* A listing of a finite set of documents has each of them exactly once. *)
LEMMA SetToSeqsFact ==
    ASSUME NEW S, NEW T \in SUBSET S, IsFiniteSet(T), NEW s \in SetToSeqs(T)
    PROVE  /\ s \in Seq(S)
           /\ \A i \in 1..Len(s) : s[i] \in T
           /\ \A i, j \in 1..Len(s) : s[i] = s[j] => i = j
           /\ \A e \in T : \E i \in 1..Len(s) : s[i] = e
<1> DEFINE n == Cardinality(T)
<1>1. n \in Nat
  BY FS_CardinalityType
<1>2. s \in [1..n -> T] /\ \A i, j \in 1..n : i # j => s[i] # s[j]
  BY DEF SetToSeqs
<1>3. s \in Injection(1..n, T)
  BY <1>2, Fun_IsInj
<1>4. Cardinality(1..n) = n
  BY <1>1, FS_Interval
<1>5. s \in Surjection(1..n, T)
  BY <1>3, <1>4, FS_Injection
<1>6. \A e \in T : \E i \in 1..n : s[i] = e
  BY <1>5 DEF Surjection
<1> HIDE DEF n
<1>7. s \in Seq(T) /\ Len(s) = n
  BY <1>1, <1>2
<1>8. s \in Seq(S)
  BY <1>7, SeqMonotonic
<1> QED
  BY <1>1, <1>2, <1>6, <1>7, <1>8

-----------------------------------------------------------------------------
(* Type correctness *)

(* The calls that reach a label. *)
OpsAt(label) ==
    CASE label = "idle" -> {"none"}
      [] label \in {"load", "install"} ->
            {"update", "move", "delete", "deletePath", "refresh", "get"}
      [] label \in {"identDocs", "identStore", "canonStore", "write", "resolve"} -> {"add"}
      [] label \in {"fetchDocs", "fetchStore", "updWrite", "updById", "updByPath"} ->
            {"update", "move"}
      [] label \in {"putValidate", "putCommit"} -> {"add", "update", "move"}
      [] label = "remove" -> {"delete", "deletePath"}
      [] label \in {"delLookup", "delCommit"} -> {"delete", "deletePath", "drop"}
      [] label = "evict" -> {"drop"}
      [] label \in {"setVector", "upsert"} -> {"refresh"}
      [] label = "fill" -> {"search"}
      [] label = "invalidate" ->
            {"add", "update", "move", "delete", "deletePath", "drop", "refresh"}

(* Where the document of a caller must have its id already. *)
HasId(label, l) ==
    \/ l.op \in {"update", "move", "refresh"}
    \/ label \in {"write", "resolve", "putValidate", "putCommit"}
    \/ label = "invalidate" /\ l.op = "add"
    \/ label \in {"identDocs", "identStore"} /\ l.then # "mint"

(* What the locals of a caller at a label are.  The rows read by a load are   *)
(* finitely many, which is what makes the index it installs a sequence.       *)
CallOK(label, l) ==
    /\ label \in Labels
    /\ l \in Locals
    /\ IsFiniteSet(l.snap)
    /\ l.op \in OpsAt(label)
    /\ HasId(label, l) => l.doc.id \in Ids
    /\ label \in {"putValidate", "putCommit"} => l.key \in Ids

ControlOK ==
    /\ pc \in [Procs -> Labels]
    /\ loc \in [Procs -> Locals]
    /\ ret \in [Procs -> Ids \cup {NoId}]
    /\ \A p \in Procs : CallOK(pc[p], loc[p])

(* The state all callers share. *)
SharedOK ==
    /\ docs \in Seq(Doc)
    /\ DOMAIN cache \subseteq Contents
    /\ \A q \in DOMAIN cache : cache[q] \subseteq Doc
    /\ loaded \in BOOLEAN
    /\ store \in Seq(Doc)
    /\ nextId \in 1..(MaxIds + 1)
    /\ restarts \in 0..MaxRestarts

(* The inductive invariant behind TypeOK. *)
TypeInv == SharedOK /\ ControlOK

LEMMA NoLocalsFact ==
    /\ NoLocals \in Locals
    /\ IsFiniteSet(NoLocals.snap)
    /\ CallOK("idle", NoLocals)
<1>1. PICK path \in Paths, content \in Contents : TRUE
  BY QmdAssumption
<1>2. [id |-> NoId, path |-> path, content |-> content] \in Draft
  BY DEF Draft
<1>3. (CHOOSE d \in Draft : d.id = NoId) \in Draft
  BY <1>2
<1>4. (CHOOSE c \in Contents : TRUE) \in Contents
  BY <1>1
<1>5. NoLocals.snap = {}
  BY DEF NoLocals
<1>6. NoLocals \in Locals
  BY <1>3, <1>4 DEF NoLocals, Locals
<1>7. NoLocals.op = "none"
  BY DEF NoLocals
<1> QED
  BY <1>5, <1>6, <1>7, FS_EmptySet DEF CallOK, OpsAt, HasId, Labels

(* Going on at a label keeps the control well typed. *)
LEMMA GotoFact ==
    ASSUME ControlOK, NEW p \in Procs, NEW label, NEW l, CallOK(label, l), Goto(p, label, l)
    PROVE  ControlOK'
<1>1. label \in Labels /\ l \in Locals
  BY DEF CallOK
<1> QED
  BY <1>1 DEF ControlOK, Goto

(* So does returning. *)
LEMMA ReturnFact ==
    ASSUME ControlOK, NEW p \in Procs, NEW id \in Ids \cup {NoId}, Return(p, id)
    PROVE  ControlOK'
<1>1. "idle" \in Labels
  BY DEF Labels
<1> QED
  BY <1>1, NoLocalsFact DEF ControlOK, Return

(* And starting a call. *)
LEMMA BeginFact ==
    ASSUME ControlOK, NEW p \in Procs, NEW label, NEW l, CallOK(label, l), Begin(p, label, l)
    PROVE  ControlOK'
<1>1. label \in Labels /\ l \in Locals
  BY DEF CallOK
<1> QED
  BY <1>1 DEF ControlOK, Begin

(* Replacing or pushing a document keeps the index a sequence of documents. *)
LEMMA PlaceAtFact ==
    ASSUME docs \in Seq(Doc), NEW i \in 0..Len(docs), NEW d \in Doc, PlaceAt(i, d)
    PROVE  docs' \in Seq(Doc)
<1>1. CASE i = 0
  BY <1>1 DEF PlaceAt
<1>2. CASE i # 0
  <2>1. i \in 1..Len(docs)
    BY <1>2
  <2> QED
    BY <1>2, <2>1, ExceptSeq DEF PlaceAt
<1> QED
  BY <1>1, <1>2

(* The rows after a put or a delete are rows. *)
LEMMA RowsWithoutFact ==
    ASSUME store \in Seq(Doc), NEW id
    PROVE  RowsWithout(id) \in Seq(Doc)
BY IdPosFact, RemoveAtFact DEF RowsWithout

LEMMA StorePutFact ==
    ASSUME store \in Seq(Doc), NEW row \in Doc
    PROVE  StorePut(row) \in Seq(Doc)
BY RowsWithoutFact DEF StorePut

(* The cache stays a partial map from contents to sets of documents. *)
LEMMA CacheInsertFact ==
    ASSUME SharedOK, NEW query \in Contents, NEW found \in SUBSET Doc
    PROVE  /\ DOMAIN CacheInsert(query, found) \subseteq Contents
           /\ \A q \in DOMAIN CacheInsert(query, found) :
                 CacheInsert(query, found)[q] \subseteq Doc
BY DEF CacheInsert, SharedOK

(* Every document of the index and every row is a draft with an id. *)
LEMMA DocFact ==
    /\ \A d \in Doc : d \in Draft /\ d.id \in Ids /\ d.path \in Paths
    /\ \A d \in Draft : d.path \in Paths /\ d.id \in Ids \cup {NoId}
    /\ \A d \in Draft, i \in Ids : [d EXCEPT !.id = i] \in Doc
BY DEF Doc, Draft

LEMMA FoundFact ==
    ASSUME NEW s \in Seq(Doc), NEW i \in 1..Len(s)
    PROVE  s[i] \in Doc /\ s[i].id \in Ids /\ s[i].path \in Paths
<1>1. s[i] \in Doc
  OBVIOUS
<1> QED
  BY <1>1 DEF Doc

LEMMA NextIdFact == \A n \in Ids : n + 1 \in 1..(MaxIds + 1)
<1>1. MaxIds \in Nat
  BY QmdAssumption
<1> QED
  BY <1>1 DEF Ids

LEMMA MintedFact ==
    ASSUME nextId \in 1..(MaxIds + 1)
    PROVE  MintedIds \subseteq Ids
<1>1. MaxIds \in Nat
  BY QmdAssumption
<1> QED
  BY <1>1 DEF MintedIds, Ids

(* Minting an id. *)
LEMMA MintFact ==
    ASSUME TypeInv, NEW p \in Procs, NEW label, NEW next, Mint(p, label, next),
           \A id \in Ids : CallOK(label, [loc[p] EXCEPT !.doc.id = id, !.then = next])
    PROVE  ControlOK' /\ nextId' \in 1..(MaxIds + 1)
<1>1. nextId \in Ids /\ nextId' = nextId + 1
  BY DEF Mint
<1>2. nextId' \in 1..(MaxIds + 1)
  BY <1>1, NextIdFact
<1>3. CallOK(label, [loc[p] EXCEPT !.doc.id = nextId, !.then = next])
  BY <1>1
<1> QED
  BY <1>2, <1>3, GotoFact DEF Mint, TypeInv

(* The load: rows read, then installed. *)
LEMMA LoadType ==
    ASSUME TypeInv, NEW p \in Procs, LoadSnapshot(p) \/ LoadInstall(p) \/ GetStart(p)
    PROVE  TypeInv'
<1> USE DEF TypeInv
<1>0. CallOK(pc[p], loc[p])
  BY DEF ControlOK
<1>1. CASE LoadSnapshot(p)
  <2>1. IsFiniteSet(Range(store)) /\ Range(store) \in SUBSET Doc
    BY RangeFact DEF SharedOK
  <2>2. CallOK("install", [loc[p] EXCEPT !.snap = Range(store)])
    BY <1>0, <1>1, <2>1 DEF LoadSnapshot, CallOK, OpsAt, HasId, Labels, Locals
  <2> QED
    BY <1>1, <2>2, GotoFact DEF LoadSnapshot, SharedOK
<1>2. CASE LoadInstall(p)
  <2>1. docs' \in Seq(Doc)
    BY <1>0, <1>2, SetToSeqsFact DEF LoadInstall, CallOK, Locals
  <2>2. CASE loc[p].op = "get"
    BY <1>2, <2>1, <2>2, ReturnFact DEF LoadInstall, SharedOK, NoId
  <2>3. CASE loc[p].op # "get"
    <3>1. loc[p].op \in {"update", "move", "delete", "deletePath", "refresh"}
      BY <1>0, <1>2, <2>3 DEF LoadInstall, CallOK, OpsAt
    <3>2. CallOK(AfterLoad(loc[p].op), [loc[p] EXCEPT !.snap = {}])
      BY <1>0, <3>1, FS_EmptySet DEF CallOK, OpsAt, HasId, Labels, Locals, AfterLoad
    <3> QED
      BY <1>2, <2>1, <2>3, <3>2, GotoFact DEF LoadInstall, SharedOK
  <2> QED
    BY <2>2, <2>3
<1>3. CASE GetStart(p)
  <2>1. CallOK("load", [NoLocals EXCEPT !.op = "get"])
    BY NoLocalsFact DEF CallOK, OpsAt, HasId, Labels, Locals, AllOps
  <2> QED
    BY <1>3, <2>1, BeginFact DEF GetStart, SharedOK
<1> QED
  BY <1>1, <1>2, <1>3

(* The lookups of an add. *)
LEMMA AddType ==
    ASSUME TypeInv, NEW p \in Procs,
           \/ AddStart(p) \/ AddCanonicalLookup(p) \/ IdenticalInDocs(p)
           \/ IdenticalInStore(p)
    PROVE  TypeInv'
<1> USE DEF TypeInv
<1>0. CallOK(pc[p], loc[p])
  BY DEF ControlOK
<1>1. CASE AddStart(p)
  <2>1. PICK path \in Paths, content \in Contents :
            LET d == [id |-> NoId, path |-> path, content |-> content]
                i == PathPos(docs, path)
                locals == [NoLocals EXCEPT !.op = "add", !.doc = d]
            IN  /\ IF path \notin Canonical THEN Begin(p, "identDocs", locals)
                   ELSE IF i = 0 THEN Begin(p, "canonStore", locals)
                   ELSE IF IsIdentical(docs[i], d)
                   THEN /\ "add" \in Ops
                        /\ pc[p] = "idle"
                        /\ Return(p, docs[i].id)
                   ELSE Begin(p, "write", [locals EXCEPT !.doc.id = docs[i].id])
                /\ UNCHANGED <<docs, cache, loaded, store, nextId, restarts>>
    BY <1>1 DEF AddStart
  <2> DEFINE d == [id |-> NoId, path |-> path, content |-> content]
             i == PathPos(docs, path)
             locals == [NoLocals EXCEPT !.op = "add", !.doc = d]
  <2>2. CallOK("identDocs", locals) /\ CallOK("canonStore", locals)
    BY NoLocalsFact DEF CallOK, OpsAt, HasId, Labels, Locals, AllOps, Draft, NoLocals
  <2>3. ASSUME i # 0  PROVE docs[i].id \in Ids
    BY <2>3, PathPosFact, FoundFact DEF SharedOK
  <2>4. ASSUME i # 0  PROVE CallOK("write", [locals EXCEPT !.doc.id = docs[i].id])
    BY <2>3, <2>4, NoLocalsFact DEF CallOK, OpsAt, HasId, Labels, Locals, AllOps, Draft
  <2>5. ControlOK'
    BY <2>1, <2>2, <2>3, <2>4, BeginFact, ReturnFact
  <2> QED
    BY <2>1, <2>5 DEF SharedOK
<1>2. CASE AddCanonicalLookup(p)
  <2> DEFINE i == PathPos(store, loc[p].doc.path)
  <2>1. ASSUME i # 0  PROVE store[i].id \in Ids
    BY <2>1, PathPosFact, FoundFact DEF SharedOK
  <2>2. ASSUME NEW id \in Ids
        PROVE  /\ CallOK("write", [loc[p] EXCEPT !.doc.id = id])
               /\ CallOK("write", [loc[p] EXCEPT !.doc.id = id, !.then = "mint"])
    BY <1>0, <1>2 DEF AddCanonicalLookup, CallOK, OpsAt, HasId, Labels, Locals, Draft
  <2>3. ASSUME Mint(p, "write", "mint")  PROVE ControlOK' /\ nextId' \in 1..(MaxIds + 1)
    BY <2>2, <2>3, MintFact
  <2>4. CASE /\ i # 0
             /\ IF IsIdentical(store[i], loc[p].doc)
                THEN Return(p, store[i].id)
                ELSE Goto(p, "write", [loc[p] EXCEPT !.doc.id = store[i].id])
             /\ UNCHANGED nextId
    BY <1>2, <2>1, <2>2, <2>4, GotoFact, ReturnFact DEF AddCanonicalLookup, SharedOK
  <2>5. CASE Mint(p, "write", "mint")
    BY <1>2, <2>3, <2>5 DEF AddCanonicalLookup, SharedOK
  <2> QED
    BY <1>2, <2>4, <2>5 DEF AddCanonicalLookup
<1>3. ASSUME pc[p] \in {"identDocs", "identStore"}, loc[p].then = "write"
      PROVE  CallOK("resolve", loc[p])
  BY <1>0, <1>3 DEF CallOK, OpsAt, HasId, Labels
<1>4. CASE IdenticalInDocs(p)
  <2> DEFINE i == TwinPos(docs, loc[p].doc)
  <2>1. CallOK("identStore", loc[p])
    BY <1>0, <1>4 DEF IdenticalInDocs, CallOK, OpsAt, HasId, Labels
  <2>2. ASSUME i # 0  PROVE docs[i].id \in Ids
    BY <2>2, TwinPosFact, FoundFact DEF SharedOK
  <2> QED
    BY <1>3, <1>4, <2>1, <2>2, GotoFact, ReturnFact
       DEF IdenticalInDocs, IdenticalFound, SharedOK
<1>5. CASE IdenticalInStore(p)
  <2> DEFINE i == PathPos(store, loc[p].doc.path)
             same == i # 0 /\ IsIdentical(store[i], loc[p].doc)
  <2>1. ASSUME i # 0  PROVE store[i].id \in Ids
    BY <2>1, PathPosFact, FoundFact DEF SharedOK
  <2>2. CASE same /\ IdenticalFound(p, store[i].id) /\ UNCHANGED nextId
    BY <1>3, <1>5, <2>1, <2>2, GotoFact, ReturnFact
       DEF IdenticalInStore, IdenticalFound, SharedOK
  <2>3. loc[p].then \in {"mint", "write", "return"}
    BY <1>0 DEF CallOK, Locals
  <2>4. CASE loc[p].then = "mint" /\ Mint(p, "identDocs", "write")
    <3>1. ASSUME NEW id \in Ids
          PROVE  CallOK("identDocs", [loc[p] EXCEPT !.doc.id = id, !.then = "write"])
      BY <1>0, <1>5 DEF IdenticalInStore, CallOK, OpsAt, HasId, Labels, Locals, Draft
    <3> QED
      BY <1>5, <2>4, <3>1, MintFact DEF IdenticalInStore, SharedOK
  <2>5. CASE loc[p].then = "write" /\ Goto(p, "write", loc[p]) /\ UNCHANGED nextId
    <3>1. CallOK("write", loc[p])
      BY <1>0, <1>5, <2>5 DEF IdenticalInStore, CallOK, OpsAt, HasId, Labels
    <3> QED
      BY <1>5, <2>5, <3>1, GotoFact DEF IdenticalInStore, SharedOK
  <2>6. CASE loc[p].then = "return" /\ Return(p, loc[p].doc.id) /\ UNCHANGED nextId
    <3>1. loc[p].doc.id \in Ids
      BY <1>0, <1>5, <2>6 DEF IdenticalInStore, CallOK, HasId
    <3> QED
      BY <1>5, <2>6, <3>1, ReturnFact DEF IdenticalInStore, SharedOK
  <2> QED
    BY <1>5, <2>2, <2>3, <2>4, <2>5, <2>6 DEF IdenticalInStore
<1> QED
  BY <1>1, <1>2, <1>4, <1>5

(* The write of an add and what follows it. *)
LEMMA AddWriteType ==
    ASSUME TypeInv, NEW p \in Procs, AddWrite(p) \/ AddResolve(p)
    PROVE  TypeInv'
<1> USE DEF TypeInv
<1>0. CallOK(pc[p], loc[p])
  BY DEF ControlOK
<1>1. CASE AddWrite(p)
  <2> DEFINE d == loc[p].doc
             i == PathPos(docs, d.path)
             kept == [d EXCEPT !.id = docs[i].id]
  <2>1. d \in Draft /\ d.id \in Ids /\ d \in Doc
    BY <1>0, <1>1 DEF AddWrite, CallOK, HasId, Locals, Draft, Doc
  <2>2. ASSUME i # 0  PROVE kept \in Doc /\ kept.id \in Ids
    <3>1. docs[i].id \in Ids
      BY <2>2, PathPosFact, FoundFact DEF SharedOK
    <3> QED
      BY <2>1, <3>1 DEF Doc, Draft
  <2>3. CallOK("invalidate", loc[p]) /\ CallOK("resolve", loc[p])
    BY <1>0, <1>1, <2>1 DEF AddWrite, CallOK, OpsAt, HasId, Labels
  <2>4. ASSUME i # 0  PROVE CallOK("invalidate", [loc[p] EXCEPT !.doc = kept])
    <3>1. kept \in Draft
      BY <2>2, <2>4, DocFact
    <3> HIDE DEF kept
    <3> QED
      BY <1>0, <1>1, <2>2, <2>4, <3>1 DEF AddWrite, CallOK, OpsAt, HasId, Labels, Locals
  <2>5. i \in 0..Len(docs) /\ 0 \in 0..Len(docs)
    BY PathPosFact DEF SharedOK
  <2>6. UNCHANGED <<cache, loaded, store, nextId, restarts>>
    BY <1>1 DEF AddWrite
  <2>7. CASE i # 0 /\ Return(p, kept.id) /\ UNCHANGED docs
    BY <2>2, <2>6, <2>7, ReturnFact DEF SharedOK
  <2>8. CASE i # 0 /\ PlaceAt(i, kept) /\ Goto(p, "invalidate", [loc[p] EXCEPT !.doc = kept])
    <3>1. docs' \in Seq(Doc)
      BY <2>2, <2>5, <2>8, PlaceAtFact DEF SharedOK
    <3>2. ControlOK'
      BY <2>4, <2>8, GotoFact
    <3> QED
      BY <2>6, <3>1, <3>2 DEF SharedOK
  <2>9. CASE PlaceAt(0, d) /\ Goto(p, "invalidate", loc[p])
    <3>1. docs' \in Seq(Doc)
      BY <2>1, <2>5, <2>9, PlaceAtFact DEF SharedOK
    <3>2. ControlOK'
      BY <2>3, <2>9, GotoFact
    <3> QED
      BY <2>6, <3>1, <3>2 DEF SharedOK
  <2>10. CASE Goto(p, "resolve", loc[p]) /\ UNCHANGED docs
    BY <2>3, <2>6, <2>10, GotoFact DEF SharedOK
  <2> QED
    BY <1>1, <2>7, <2>8, <2>9, <2>10 DEF AddWrite
<1>2. CASE AddResolve(p)
  <2>1. loc[p].doc.id \in Ids
    BY <1>0, <1>2 DEF AddResolve, CallOK, HasId
  <2>2. CallOK("identDocs", [loc[p] EXCEPT !.then = "return"])
    BY <1>0, <1>2, <2>1 DEF AddResolve, CallOK, OpsAt, HasId, Labels, Locals
  <2> QED
    BY <1>2, <2>1, <2>2, GotoFact, ReturnFact DEF AddResolve, SharedOK
<1> QED
  BY <1>1, <1>2

(* The steps several calls share. *)
LEMMA SharedStepType ==
    ASSUME TypeInv, NEW p \in Procs,
           Invalidate(p) \/ PutValidate(p) \/ PutCommit(p) \/ StoreError(p)
    PROVE  TypeInv'
<1> USE DEF TypeInv
<1>0. CallOK(pc[p], loc[p]) /\ NoId \in Ids \cup {NoId}
  BY DEF ControlOK
<1>1. CASE Invalidate(p)
  <2>1. SharedOK'
    BY <1>1 DEF Invalidate, SharedOK
  <2>2. loc[p].op \in {"add", "update", "move", "delete", "deletePath", "drop", "refresh"}
    BY <1>0, <1>1 DEF Invalidate, CallOK, OpsAt
  <2>3. CASE loc[p].op = "add"
    <3>1. CallOK(PutLabel(loc[p].doc.path), [loc[p] EXCEPT !.key = loc[p].doc.id])
      BY <1>0, <1>1, <2>3 DEF Invalidate, CallOK, OpsAt, HasId, Labels, Locals, PutLabel
    <3> QED
      BY <1>1, <2>1, <2>3, <3>1, GotoFact DEF Invalidate
  <2>4. CASE loc[p].op \in {"update", "move"}
    <3>1. CallOK("updById", loc[p])
      BY <1>0, <2>4 DEF CallOK, OpsAt, HasId, Labels
    <3> QED
      BY <1>1, <2>1, <2>4, <3>1, GotoFact DEF Invalidate
  <2>5. CASE loc[p].op \in {"delete", "deletePath"}
    <3>1. CallOK("delLookup", loc[p])
      BY <1>0, <2>5 DEF CallOK, OpsAt, HasId, Labels
    <3> QED
      BY <1>1, <2>1, <2>5, <3>1, GotoFact DEF Invalidate
  <2>6. CASE loc[p].op \in {"drop", "refresh"}
    BY <1>0, <1>1, <2>1, <2>6, ReturnFact DEF Invalidate
  <2> QED
    BY <2>2, <2>3, <2>4, <2>5, <2>6
<1>2. CASE PutValidate(p)
  <2> DEFINE i == PathPos(store, loc[p].doc.path)
  <2>1. ASSUME i # 0  PROVE store[i].id \in Ids
    BY <2>1, PathPosFact, FoundFact DEF SharedOK
  <2>2. CallOK("putCommit", loc[p])
    BY <1>0, <1>2 DEF PutValidate, CallOK, OpsAt, HasId, Labels
  <2>3. ASSUME NEW id \in Ids  PROVE CallOK("putCommit", [loc[p] EXCEPT !.key = id])
    BY <2>2 DEF CallOK, OpsAt, HasId, Labels, Locals
  <2>4. ControlOK'
    BY <1>2, <2>1, <2>2, <2>3, GotoFact DEF PutValidate
  <2> QED
    BY <1>2, <2>4 DEF PutValidate, SharedOK
<1>3. CASE PutCommit(p)
  <2> DEFINE row == [loc[p].doc EXCEPT !.id = loc[p].key]
  <2>1. row \in Doc /\ loc[p].doc.id \in Ids
    BY <1>0, <1>3, DocFact DEF PutCommit, CallOK, HasId, Locals
  <2>2. store' \in Seq(Doc)
    BY <1>3, <2>1, StorePutFact DEF PutCommit, SharedOK
  <2>3. loc[p].op = "add" => CallOK("resolve", loc[p])
    BY <1>0, <1>3 DEF PutCommit, CallOK, OpsAt, HasId, Labels
  <2>4. ControlOK'
    BY <1>0, <1>3, <2>1, <2>3, GotoFact, ReturnFact DEF PutCommit
  <2> QED
    BY <1>3, <2>2, <2>4 DEF PutCommit, SharedOK
<1>4. CASE StoreError(p)
  BY <1>0, <1>4, ReturnFact DEF StoreError, SharedOK
<1> QED
  BY <1>1, <1>2, <1>3, <1>4

(* The updates. *)
LEMMA UpdateType ==
    ASSUME TypeInv, NEW p \in Procs,
           UpdateStart(p) \/ UpdateFetch(p) \/ UpdateWrite(p) \/ UpdateLookup(p)
    PROVE  TypeInv'
<1> USE DEF TypeInv
<1>0. CallOK(pc[p], loc[p]) /\ NoId \in Ids \cup {NoId}
  BY DEF ControlOK
<1>1. CASE UpdateStart(p)
  <2>1. PICK op \in {"update", "move"}, id \in MintedIds, path \in Paths, content \in Contents :
          /\ Begin(p, EnsureLoaded("fetchDocs"),
                   [NoLocals EXCEPT !.op = op,
                                    !.doc = [id |-> id, path |-> path, content |-> content]])
          /\ UNCHANGED <<docs, cache, loaded, store, nextId, restarts>>
    BY <1>1 DEF UpdateStart
  <2>2. id \in Ids
    BY MintedFact DEF SharedOK
  <2>3. CallOK(EnsureLoaded("fetchDocs"),
               [NoLocals EXCEPT !.op = op,
                                !.doc = [id |-> id, path |-> path, content |-> content]])
    BY <2>2, NoLocalsFact
       DEF CallOK, OpsAt, HasId, Labels, Locals, AllOps, Draft, EnsureLoaded
  <2> QED
    BY <2>1, <2>3, BeginFact DEF SharedOK
<1>2. CASE UpdateFetch(p)
  <2>1. pc[p] \in {"fetchDocs", "fetchStore"} /\ UNCHANGED <<docs, cache, loaded, store, nextId, restarts>>
    BY <1>2 DEF UpdateFetch
  <2>2. CallOK("fetchStore", loc[p]) /\ CallOK("updWrite", loc[p])
    BY <1>0, <2>1 DEF CallOK, OpsAt, HasId, Labels
  <2>3. ASSUME NEW path \in Paths, UpdateFound(p, path)  PROVE ControlOK'
    <3>1. CallOK("updWrite", [loc[p] EXCEPT !.doc.path = path])
      BY <2>2 DEF CallOK, OpsAt, HasId, Labels, Locals, Draft
    <3> QED
      BY <2>2, <2>3, <3>1, GotoFact DEF UpdateFound
  <2> DEFINE i == IdPos(docs, loc[p].doc.id)
             j == IdPos(store, loc[p].doc.id)
  <2>4. i # 0 => docs[i].path \in Paths
    BY IdPosFact, FoundFact DEF SharedOK
  <2>5. j # 0 => store[j].path \in Paths
    BY IdPosFact, FoundFact DEF SharedOK
  <2>6. ControlOK'
    BY <1>0, <1>2, <2>2, <2>3, <2>4, <2>5, GotoFact, ReturnFact DEF UpdateFetch
  <2> QED
    BY <2>1, <2>6 DEF SharedOK
<1>3. CASE UpdateWrite(p)
  <2>1. CallOK("invalidate", loc[p]) /\ loc[p].doc \in Draft /\ loc[p].doc.id \in Ids
    BY <1>0, <1>3 DEF UpdateWrite, CallOK, OpsAt, HasId, Labels, Locals
  <2>2. loc[p].doc \in Doc
    BY <2>1 DEF Doc, Draft
  <2>3. NamePos(docs, loc[p].doc) \in 0..Len(docs)
    BY NamePosFact DEF SharedOK
  <2>4. docs' \in Seq(Doc)
    BY <1>3, <2>2, <2>3, PlaceAtFact DEF UpdateWrite, SharedOK
  <2> QED
    BY <1>3, <2>1, <2>4, GotoFact DEF UpdateWrite, SharedOK
<1>4. CASE UpdateLookup(p)
  <2> DEFINE i == PathPos(store, loc[p].doc.path)
  <2>1. pc[p] \in {"updById", "updByPath"} /\ UNCHANGED <<docs, cache, loaded, store, nextId, restarts>>
    BY <1>4 DEF UpdateLookup
  <2>2. loc[p].doc.id \in Ids /\ CallOK("updByPath", loc[p])
    BY <1>0, <2>1 DEF CallOK, OpsAt, HasId, Labels
  <2>3. ASSUME NEW id \in Ids
        PROVE  CallOK(PutLabel(loc[p].doc.path), [loc[p] EXCEPT !.key = id])
    BY <2>2 DEF CallOK, OpsAt, HasId, Labels, Locals, PutLabel
  <2>4. i # 0 => store[i].id \in Ids
    BY PathPosFact, FoundFact DEF SharedOK
  <2>5. ControlOK'
    BY <1>4, <2>2, <2>3, <2>4, GotoFact DEF UpdateLookup
  <2> QED
    BY <2>1, <2>5 DEF SharedOK
<1> QED
  BY <1>1, <1>2, <1>3, <1>4

(* The deletes. *)
LEMMA DeleteType ==
    ASSUME TypeInv, NEW p \in Procs,
           \/ DeleteStart(p) \/ DeleteFromDocs(p) \/ DropStart(p)
           \/ StoreDeleteLookup(p) \/ StoreDeleteCommit(p) \/ DropEvict(p)
    PROVE  TypeInv'
<1> USE DEF TypeInv
<1>0. CallOK(pc[p], loc[p]) /\ NoId \in Ids \cup {NoId}
  BY DEF ControlOK
<1>1. \A id \in MintedIds : id \in Ids
  BY MintedFact DEF SharedOK
<1>2. ASSUME NEW key \in Ids \cup Paths
      PROVE  /\ CallOK(EnsureLoaded("remove"), [NoLocals EXCEPT !.op = "delete", !.key = key])
             /\ CallOK(EnsureLoaded("remove"), [NoLocals EXCEPT !.op = "deletePath", !.key = key])
             /\ CallOK("delLookup", [NoLocals EXCEPT !.op = "drop", !.key = key])
  BY NoLocalsFact DEF CallOK, OpsAt, HasId, Labels, Locals, AllOps, EnsureLoaded
<1>3. CASE DeleteStart(p)
  <2>1. ControlOK'
    BY <1>1, <1>2, <1>3, BeginFact DEF DeleteStart
  <2> QED
    BY <1>3, <2>1 DEF DeleteStart, SharedOK
<1>4. CASE DropStart(p)
  <2>1. ControlOK'
    BY <1>1, <1>2, <1>4, BeginFact DEF DropStart
  <2> QED
    BY <1>4, <2>1 DEF DropStart, SharedOK
<1> DEFINE i == KeyPos(docs, loc[p].key)
<1>5. i # 0 => RemoveAt(docs, i) \in Seq(Doc)
  BY KeyPosFact, RemoveAtFact DEF SharedOK
<1>6. CASE DeleteFromDocs(p)
  <2>1. CallOK("invalidate", loc[p])
    BY <1>0, <1>6 DEF DeleteFromDocs, CallOK, OpsAt, HasId, Labels
  <2>2. ControlOK'
    BY <1>0, <1>6, <2>1, GotoFact, ReturnFact DEF DeleteFromDocs
  <2> QED
    BY <1>5, <1>6, <2>2 DEF DeleteFromDocs, SharedOK
<1>7. CASE DropEvict(p)
  <2>1. CallOK("invalidate", loc[p])
    BY <1>0, <1>7 DEF DropEvict, CallOK, OpsAt, HasId, Labels
  <2>2. ControlOK'
    BY <1>7, <2>1, GotoFact DEF DropEvict
  <2> QED
    BY <1>5, <1>7, <2>2 DEF DropEvict, SharedOK
<1>8. CASE StoreDeleteLookup(p)
  <2> DEFINE k == StoreGet(loc[p].key)
  <2>1. k # 0 => store[k].id \in Ids
    BY IdPosFact, PathPosFact, FoundFact DEF StoreGet, SharedOK
  <2>2. ASSUME NEW id \in Ids  PROVE CallOK("delCommit", [loc[p] EXCEPT !.key = id])
    BY <1>0, <1>8 DEF StoreDeleteLookup, CallOK, OpsAt, HasId, Labels, Locals
  <2>3. ControlOK'
    BY <1>0, <1>8, <2>1, <2>2, GotoFact, ReturnFact DEF StoreDeleteLookup
  <2> QED
    BY <1>8, <2>3 DEF StoreDeleteLookup, SharedOK
<1>9. CASE StoreDeleteCommit(p)
  <2>1. store' \in Seq(Doc)
    BY <1>9, RowsWithoutFact DEF StoreDeleteCommit, SharedOK
  <2>2. loc[p].op = "drop" => CallOK("evict", loc[p])
    BY <1>0, <1>9 DEF StoreDeleteCommit, CallOK, OpsAt, HasId, Labels
  <2>3. ControlOK'
    BY <1>0, <1>9, <2>2, GotoFact, ReturnFact DEF StoreDeleteCommit
  <2> QED
    BY <1>9, <2>1, <2>3 DEF StoreDeleteCommit, SharedOK
<1> QED
  BY <1>3, <1>4, <1>6, <1>7, <1>8, <1>9

(* The background embedding and the searches. *)
LEMMA RefreshSearchType ==
    ASSUME TypeInv, NEW p \in Procs,
           \/ RefreshStart(p) \/ RefreshSetVector(p) \/ IndexUpsert(p)
           \/ SearchStart(p) \/ SearchFill(p)
    PROVE  TypeInv'
<1> USE DEF TypeInv
<1>0. CallOK(pc[p], loc[p]) /\ NoId \in Ids \cup {NoId}
  BY DEF ControlOK
<1>1. CASE RefreshStart(p)
  <2>1. PICK r \in Range(store) :
          /\ Begin(p, "setVector", [NoLocals EXCEPT !.op = "refresh", !.doc = r])
          /\ UNCHANGED <<docs, cache, loaded, store, nextId, restarts>>
    BY <1>1 DEF RefreshStart
  <2>2. r \in Draft /\ r.id \in Ids
    BY RangeFact, DocFact DEF SharedOK
  <2>3. CallOK("setVector", [NoLocals EXCEPT !.op = "refresh", !.doc = r])
    BY <2>2, NoLocalsFact DEF CallOK, OpsAt, HasId, Labels, Locals, AllOps
  <2> QED
    BY <2>1, <2>3, BeginFact DEF SharedOK
<1>2. CASE RefreshSetVector(p)
  <2>1. CallOK(EnsureLoaded("upsert"), loc[p])
    BY <1>0, <1>2 DEF RefreshSetVector, EnsureLoaded, CallOK, OpsAt, HasId, Labels
  <2>2. ControlOK'
    BY <1>0, <1>2, <2>1, GotoFact, ReturnFact DEF RefreshSetVector
  <2> QED
    BY <1>2, <2>2 DEF RefreshSetVector, SharedOK
<1>3. CASE IndexUpsert(p)
  <2>1. CallOK("invalidate", loc[p]) /\ loc[p].doc \in Draft /\ loc[p].doc.id \in Ids
    BY <1>0, <1>3 DEF IndexUpsert, CallOK, OpsAt, HasId, Labels, Locals
  <2>2. loc[p].doc \in Doc
    BY <2>1 DEF Doc, Draft
  <2>3. NamePos(docs, loc[p].doc) \in 0..Len(docs)
    BY NamePosFact DEF SharedOK
  <2>4. docs' \in Seq(Doc)
    BY <1>3, <2>2, <2>3, PlaceAtFact DEF IndexUpsert, SharedOK
  <2> QED
    BY <1>3, <2>1, <2>4, GotoFact DEF IndexUpsert, SharedOK
<1>4. CASE SearchStart(p)
  <2>1. PICK query \in Contents :
          /\ Begin(p, "fill", [NoLocals EXCEPT !.op = "search", !.query = query,
                                                !.snap = Scan(query)])
          /\ UNCHANGED <<docs, cache, loaded, store, nextId, restarts>>
    BY <1>4 DEF SearchStart
  <2>2. IsFiniteSet(Range(docs)) /\ Range(docs) \subseteq Doc
    BY RangeFact DEF SharedOK
  <2>3. Scan(query) \in SUBSET Range(docs)
    BY DEF Scan
  <2>4. IsFiniteSet(Scan(query)) /\ Scan(query) \in SUBSET Doc
    BY <2>2, <2>3, FS_Subset
  <2>5. CallOK("fill", [NoLocals EXCEPT !.op = "search", !.query = query, !.snap = Scan(query)])
    BY <2>4, NoLocalsFact DEF CallOK, OpsAt, HasId, Labels, Locals, AllOps
  <2> QED
    BY <2>1, <2>5, BeginFact DEF SharedOK
<1>5. CASE SearchFill(p)
  <2>1. loc[p].query \in Contents /\ loc[p].snap \in SUBSET Doc
    BY <1>0 DEF CallOK, Locals
  <2>2. DOMAIN cache' \subseteq Contents /\ \A q \in DOMAIN cache' : cache'[q] \subseteq Doc
    BY <1>5, <2>1, CacheInsertFact DEF SearchFill
  <2>3. ControlOK'
    BY <1>0, <1>5, ReturnFact DEF SearchFill
  <2> QED
    BY <1>5, <2>2, <2>3 DEF SearchFill, SharedOK
<1> QED
  BY <1>1, <1>2, <1>3, <1>4, <1>5

(* Restarts and the first boot. *)
LEMMA BootFact ==
    ASSUME NEW s \in Seq(Doc), NEW t \in IF Lazy THEN {<< >>} ELSE SetToSeqs(Range(s))
    PROVE  t \in Seq(Doc)
<1>1. CASE Lazy
  BY <1>1
<1>2. CASE ~Lazy
  <2>1. IsFiniteSet(Range(s)) /\ Range(s) \in SUBSET Doc
    BY RangeFact
  <2> QED
    BY <1>2, <2>1, SetToSeqsFact
<1> QED
  BY <1>1, <1>2

LEMMA BoundsFact ==
    /\ 1 \in Ids /\ 2 \in 1..(MaxIds + 1) /\ 0 \in 0..MaxRestarts
    /\ \A n \in 0..MaxRestarts : n < MaxRestarts => n + 1 \in 0..MaxRestarts
<1>1. MaxIds \in Nat /\ MaxIds >= 1 /\ MaxRestarts \in Nat
  BY QmdAssumption
<1> QED
  BY <1>1 DEF Ids

LEMMA InitType == Init => TypeInv
<1> SUFFICES ASSUME Init  PROVE TypeInv
  OBVIOUS
<1>1. 1 \in Ids /\ 2 \in 1..(MaxIds + 1) /\ 0 \in 0..MaxRestarts
  BY BoundsFact
<1>2. store \in Seq(Doc)
  <2>1. CASE store = << >>
    BY <2>1
  <2>2. CASE \E r \in [id : {1}, path : Paths, content : Contents] : store = <<r>>
    <3>1. PICK r \in [id : {1}, path : Paths, content : Contents] : store = <<r>>
      BY <2>2
    <3>2. r \in Doc
      BY <1>1 DEF Doc
    <3> QED
      BY <3>1, <3>2
  <2> QED
    BY <2>1, <2>2 DEF Init
<1>3. docs \in Seq(Doc)
  BY <1>2, BootFact DEF Init
<1>4. cache = << >> /\ loaded = FALSE /\ nextId = 2 /\ restarts = 0
  BY DEF Init
<1>5. SharedOK
  <2>1. loaded \in BOOLEAN
    BY <1>4
  <2>2. DOMAIN cache = {}
    BY <1>4
  <2> QED
    BY <1>1, <1>2, <1>3, <1>4, <2>1, <2>2 DEF SharedOK
<1>6. ControlOK
  BY NoLocalsFact DEF Init, ControlOK, Labels
<1> QED
  BY <1>5, <1>6 DEF TypeInv

LEMMA RestartType ==
    ASSUME TypeInv, Restart
    PROVE  TypeInv'
<1> USE DEF TypeInv
<1>1. docs' \in Seq(Doc)
  BY BootFact DEF Restart, SharedOK
<1>2. restarts' \in 0..MaxRestarts
  BY BoundsFact DEF Restart, SharedOK
<1>3. SharedOK'
  <2>1. loaded' \in BOOLEAN
    BY DEF Restart
  <2>2. DOMAIN cache' = {}
    BY DEF Restart
  <2> QED
    BY <1>1, <1>2, <2>1, <2>2 DEF Restart, SharedOK
<1>4. ControlOK'
  BY NoLocalsFact DEF Restart, ControlOK, Labels
<1> QED
  BY <1>3, <1>4

(* Every step keeps the types. *)
LEMMA StepType ==
    ASSUME TypeInv, [Next]_vars
    PROVE  TypeInv'
<1>1. ASSUME NEW p \in Procs, Step(p)  PROVE TypeInv'
  BY <1>1, LoadType, AddType, AddWriteType, SharedStepType, UpdateType, DeleteType,
     RefreshSearchType DEF Step
<1>2. CASE UNCHANGED vars
  BY <1>2 DEF vars, TypeInv, SharedOK, ControlOK
<1> QED
  BY <1>1, <1>2, RestartType DEF Next

(* TypeOK is an invariant: no interleaving of calls, store errors and         *)
(* restarts writes a document without an id into the index or the store, or   *)
(* leaves a caller with locals its next step does not expect.                 *)
THEOREM TypeCorrect == Spec => []TypeOK
<1>1. TypeInv => TypeOK
  BY DEF TypeInv, SharedOK, ControlOK, TypeOK
<1>2. TypeInv /\ [Next]_vars => TypeInv'
  BY StepType
<1> QED
  BY <1>1, <1>2, InitType, PTL DEF Spec
-----------------------------------------------------------------------------
(* One record per canonical path.                                             *)
(*                                                                            *)
(* The argument.  Without deletes and moves an id is bound to one path for    *)
(* good, so a write that matches "id or path" replaces a document of its own  *)
(* path; and whatever the store or a caller behind the write guard holds of   *)
(* a canonical path is the name that the index has for it.  A caller that     *)
(* has not passed the guard may hold another id: the guard replaces it.       *)

Name(d) == <<d.id, d.path>>

(* The labels behind the guard of a call that writes a document. *)
Settling == {"updWrite", "updById", "updByPath", "setVector", "upsert", "invalidate",
             "putValidate", "putCommit"}

(* The names behind the guard, and all names, that a caller holds. *)
CallSettled(label, l) ==
    {n \in {Name(l.doc)} : label \in Settling}
    \cup {n \in {<<l.key, l.doc.path>>} : label \in {"putValidate", "putCommit"}}

CallNames(label, l) ==
    CallSettled(label, l)
    \cup {n \in {Name(l.doc)} : \/ label \in {"write", "resolve"}
                                \/ label \in {"identDocs", "identStore"} /\ l.then # "mint"}

DocNames == {Name(docs[i]) : i \in 1..Len(docs)}
RowNames == {Name(store[i]) : i \in 1..Len(store)}
Settled == DocNames \cup RowNames \cup UNION {CallSettled(pc[p], loc[p]) : p \in Procs}
Names == DocNames \cup RowNames \cup UNION {CallNames(pc[p], loc[p]) : p \in Procs}

(* The calls the theorem is about: none that deletes or moves a record, and   *)
(* an index that is loaded before it serves calls.                            *)
SafeOps == {"add", "update", "refresh", "search"}

(* An id names one path; ids in use were minted. *)
IdsBound ==
    /\ \A m, n \in Names : m[1] = n[1] => m[2] = n[2]
    /\ \A n \in Names : n[1] \in MintedIds

(* What is settled of a canonical path is what the index has. *)
CanonicalSettled == \A n \in Settled : n[2] \in Canonical => n \in DocNames

RowIdsUnique == \A i, j \in 1..Len(store) : store[i].id = store[j].id => i = j

SafeCall(label, l) == l.op \in SafeOps \cup {"none"} /\ label \notin {"load", "install"}
SafeCalls == \A p \in Procs : SafeCall(pc[p], loc[p])

NameInv == IdsBound /\ CanonicalSettled /\ CanonicalUnique /\ RowIdsUnique /\ SafeCalls

(* Names the index has after a push and after a replacement in place. *)
LEMMA PushNames ==
    ASSUME docs \in Seq(Doc), NEW d \in Doc, docs' = Append(docs, d)
    PROVE  DocNames' = DocNames \cup {Name(d)}
<1>1. /\ Len(docs') = Len(docs) + 1 /\ Len(docs) \in Nat
      /\ \A i \in 1..Len(docs) : docs'[i] = docs[i]
      /\ docs'[Len(docs) + 1] = d
  BY AppendProperties
<1>2. ASSUME NEW i \in 1..Len(docs')  PROVE Name(docs'[i]) \in DocNames \cup {Name(d)}
  <2>1. i \in 1..Len(docs) \/ i = Len(docs) + 1
    BY <1>1
  <2> QED
    BY <1>1, <2>1 DEF DocNames
<1>3. Name(d) \in DocNames'
  <2>1. Len(docs) + 1 \in 1..Len(docs')
    BY <1>1
  <2> QED
    BY <1>1, <2>1 DEF DocNames
<1>4. ASSUME NEW i \in 1..Len(docs)  PROVE Name(docs[i]) \in DocNames'
  <2>1. i \in 1..Len(docs')
    BY <1>1
  <2> QED
    BY <1>1, <2>1 DEF DocNames
<1> QED
  BY <1>2, <1>3, <1>4 DEF DocNames

LEMMA ReplaceNames ==
    ASSUME docs \in Seq(Doc), NEW d \in Doc, NEW k \in 1..Len(docs),
           docs' = [docs EXCEPT ![k] = d], CanonicalUnique,
           d.path = docs[k].path, d.path \in Canonical => d.id = docs[k].id
    PROVE  /\ CanonicalUnique'
           /\ DocNames' \subseteq DocNames \cup {Name(d)}
           /\ \A n \in DocNames : n[2] \in Canonical => n \in DocNames'
<1>1. /\ Len(docs') = Len(docs)
      /\ DOMAIN docs = 1..Len(docs) /\ DOMAIN docs' = 1..Len(docs)
      /\ \A j \in 1..Len(docs) : docs'[j] = IF j = k THEN d ELSE docs[j]
  BY ExceptSeq
<1>2. \A j \in 1..Len(docs) : docs'[j].path = docs[j].path
  BY <1>1
<1>3. CanonicalUnique'
  BY <1>1, <1>2 DEF CanonicalUnique
<1>4. DocNames' \subseteq DocNames \cup {Name(d)}
  BY <1>1 DEF DocNames
<1>5. ASSUME NEW j \in 1..Len(docs), docs[j].path \in Canonical
      PROVE  Name(docs[j]) = Name(docs'[j])
  BY <1>1, <1>5 DEF Name
<1>6. ASSUME NEW n \in DocNames, n[2] \in Canonical  PROVE n \in DocNames'
  <2>1. PICK j \in 1..Len(docs) : n = Name(docs[j])
    BY DEF DocNames
  <2>2. docs[j].path \in Canonical
    BY <1>6, <2>1 DEF Name
  <2> QED
    BY <1>1, <1>5, <2>1, <2>2 DEF DocNames
<1> QED
  BY <1>3, <1>4, <1>6

(* The rows after a put: the row written, and the others. *)
LEMMA PutNames ==
    ASSUME store \in Seq(Doc), NEW row \in Doc, store' = StorePut(row), RowIdsUnique
    PROVE  RowIdsUnique' /\ RowNames' \subseteq RowNames \cup {Name(row)}
<1> DEFINE rest == RowsWithout(row.id)
<1>1. /\ rest \in Seq(Doc)
      /\ \A i \in 1..Len(rest) : \E m \in 1..Len(store) : rest[i] = store[m]
      /\ \A i, j \in 1..Len(rest) : rest[i].id = rest[j].id => i = j
      /\ \A i \in 1..Len(rest) : rest[i].id # row.id
  <2> DEFINE k == IdPos(store, row.id)
  <2>1. CASE k = 0
    BY <2>1, IdPosFact DEF RowsWithout, RowIdsUnique
  <2>2. CASE k # 0
    <3>1. k \in 1..Len(store) /\ store[k].id = row.id /\ Len(store) \in Nat
      BY <2>2, IdPosFact
    <3>2. rest = RemoveAt(store, k)
      BY <2>2 DEF RowsWithout
    <3> HIDE DEF k, rest
    <3>3. /\ rest \in Seq(Doc) /\ Len(rest) = Len(store) - 1
          /\ \A j \in 1..(Len(store) - 1) : rest[j] = IF j < k THEN store[j] ELSE store[j + 1]
      BY <3>1, <3>2, RemoveAtFact
    <3>4. \A i \in 1..Len(rest) : \E m \in 1..Len(store) : rest[i] = store[m] /\ m # k
      BY <3>1, <3>3
    <3>5. ASSUME NEW i \in 1..Len(rest), NEW j \in 1..Len(rest), rest[i].id = rest[j].id
          PROVE  i = j
      <4> DEFINE a == IF i < k THEN i ELSE i + 1
                 b == IF j < k THEN j ELSE j + 1
      <4>1. a \in 1..Len(store) /\ b \in 1..Len(store) /\ (a = b => i = j)
        BY <3>1, <3>3
      <4>2. rest[i] = store[a] /\ rest[j] = store[b]
        BY <3>3
      <4> HIDE DEF a, b
      <4> QED
        BY <3>5, <4>1, <4>2 DEF RowIdsUnique
    <3>6. \A i \in 1..Len(rest) : rest[i].id # row.id
      BY <3>1, <3>4 DEF RowIdsUnique
    <3> QED
      BY <3>3, <3>4, <3>5, <3>6
  <2> QED
    BY <2>1, <2>2
<1>2. store' = Append(rest, row)
  BY DEF StorePut
<1> HIDE DEF rest
<1>3. /\ Len(store') = Len(rest) + 1 /\ Len(rest) \in Nat
      /\ \A i \in 1..Len(rest) : store'[i] = rest[i]
      /\ store'[Len(rest) + 1] = row
  BY <1>1, <1>2, AppendProperties
<1>4. \A i \in 1..Len(store') : i \in 1..Len(rest) \/ i = Len(rest) + 1
  BY <1>3
<1>5. RowIdsUnique'
  <2>1. SUFFICES ASSUME NEW i \in 1..Len(store'), NEW j \in 1..Len(store'),
                        store'[i].id = store'[j].id
                 PROVE  i = j
    BY DEF RowIdsUnique
  <2>2. CASE i \in 1..Len(rest) /\ j \in 1..Len(rest)
    BY <1>1, <1>3, <2>1, <2>2
  <2>3. CASE i \in 1..Len(rest) /\ j = Len(rest) + 1
    BY <1>1, <1>3, <2>1, <2>3
  <2>4. CASE i = Len(rest) + 1 /\ j \in 1..Len(rest)
    BY <1>1, <1>3, <2>1, <2>4
  <2> QED
    BY <1>4, <2>2, <2>3, <2>4
<1>6. RowNames' \subseteq RowNames \cup {Name(row)}
  BY <1>1, <1>3, <1>4 DEF RowNames
<1> QED
  BY <1>5, <1>6

(* Caller p goes on at a label with some locals. *)
Moves(p, label, l) ==
    /\ pc' = [pc EXCEPT ![p] = label]
    /\ loc' = [loc EXCEPT ![p] = l]

LEMMA GotoMoves ==
    ASSUME NEW p, NEW label, NEW l, Goto(p, label, l) \/ Begin(p, label, l)
    PROVE  Moves(p, label, l)
BY DEF Goto, Begin, Moves

LEMMA ReturnMoves ==
    ASSUME NEW p, NEW id, Return(p, id)
    PROVE  Moves(p, "idle", NoLocals)
BY DEF Return, Moves

(* An idle caller holds no name. *)
LEMMA IdleNames ==
    /\ CallNames("idle", NoLocals) = {} /\ CallSettled("idle", NoLocals) = {}
    /\ SafeCall("idle", NoLocals)
BY DEF CallNames, CallSettled, Settling, SafeCall, NoLocals

(* The names after a step of p, when no other caller moves. *)
LEMMA MoveNames ==
    ASSUME TypeInv, NEW p \in Procs, NEW label, NEW l, Moves(p, label, l)
    PROVE  /\ Names' \subseteq Names \cup DocNames' \cup RowNames' \cup CallNames(label, l)
           /\ Settled' \subseteq Settled \cup DocNames' \cup RowNames' \cup CallSettled(label, l)
           /\ SafeCalls /\ SafeCall(label, l) => SafeCalls'
<1>1. /\ pc'[p] = label /\ loc'[p] = l
      /\ \A q \in Procs : q # p => pc'[q] = pc[q] /\ loc'[q] = loc[q]
  BY DEF Moves, TypeInv, ControlOK
<1>2. ASSUME NEW q \in Procs
      PROVE  /\ CallNames(pc'[q], loc'[q]) \subseteq Names \cup CallNames(label, l)
             /\ CallSettled(pc'[q], loc'[q]) \subseteq Settled \cup CallSettled(label, l)
  <2>1. CASE q = p
    BY <1>1, <2>1
  <2>2. CASE q # p
    BY <1>1, <2>2 DEF Names, Settled
  <2> QED
    BY <2>1, <2>2
<1>3. Names' \subseteq Names \cup DocNames' \cup RowNames' \cup CallNames(label, l)
  BY <1>2 DEF Names
<1>4. Settled' \subseteq Settled \cup DocNames' \cup RowNames' \cup CallSettled(label, l)
  BY <1>2 DEF Settled
<1> QED
  BY <1>1, <1>3, <1>4 DEF SafeCalls

(* No new name: the ids stay bound. *)
LEMMA BoundKept ==
    ASSUME IdsBound, Names' \subseteq Names, UNCHANGED nextId
    PROVE  IdsBound'
BY DEF IdsBound, MintedIds

(* A minted id is new, so it binds its path. *)
LEMMA BoundMinted ==
    ASSUME TypeInv, IdsBound, NEW path, Names' \subseteq Names \cup {<<nextId, path>>},
           nextId \in Ids, nextId' = nextId + 1
    PROVE  IdsBound'
<1>1. nextId \in Nat /\ nextId >= 1
  BY QmdAssumption DEF Ids
<1>2. MintedIds' = MintedIds \cup {nextId} /\ nextId \notin MintedIds
  BY <1>1 DEF MintedIds
<1>3. \A n \in Names' : n \in Names \/ (n[1] = nextId /\ n[2] = path)
  OBVIOUS
<1> QED
  BY <1>2, <1>3 DEF IdsBound

(* A step that only moves p, to names that were there before. *)
LEMMA QuietStep ==
    ASSUME TypeInv, NameInv, NEW p \in Procs, NEW label, NEW l, Moves(p, label, l),
           UNCHANGED <<docs, store, nextId>>, SafeCall(label, l),
           CallNames(label, l) \subseteq Names, CallSettled(label, l) \subseteq Settled
    PROVE  NameInv'
<1>1. DocNames' = DocNames /\ RowNames' = RowNames
  BY DEF DocNames, RowNames
<1>2. DocNames \subseteq Names /\ RowNames \subseteq Names
      /\ DocNames \subseteq Settled /\ RowNames \subseteq Settled
  BY DEF Names, Settled
<1>3. Names' \subseteq Names /\ Settled' \subseteq Settled /\ SafeCalls'
  BY <1>1, <1>2, MoveNames DEF NameInv
<1>4. IdsBound'
  BY <1>3, BoundKept DEF NameInv
<1>5. CanonicalSettled'
  BY <1>1, <1>3 DEF NameInv, CanonicalSettled
<1>6. CanonicalUnique' /\ RowIdsUnique'
  BY DEF NameInv, CanonicalUnique, RowIdsUnique
<1> QED
  BY <1>3, <1>4, <1>5, <1>6 DEF NameInv

(* A return is quiet. *)
LEMMA QuietReturn ==
    ASSUME TypeInv, NameInv, NEW p \in Procs, NEW id, Return(p, id),
           UNCHANGED <<docs, store, nextId>>
    PROVE  NameInv'
<1>1. Moves(p, "idle", NoLocals)
  BY ReturnMoves
<1> QED
  BY <1>1, IdleNames, QuietStep

(* A mint of the document of p brings one new name. *)
LEMMA MintStep ==
    ASSUME TypeInv, NameInv, NEW p \in Procs, NEW label, NEW next, Mint(p, label, next),
           UNCHANGED <<docs, store>>, label \in {"write", "identDocs"},
           SafeCall(label, loc[p])
    PROVE  NameInv'
<1> DEFINE l == [loc[p] EXCEPT !.doc.id = nextId, !.then = next]
<1>1. Moves(p, label, l)
  BY GotoMoves DEF Mint
<1>2. /\ CallSettled(label, l) = {} /\ CallNames(label, l) \subseteq {Name(l.doc)}
  BY DEF CallSettled, CallNames, Settling
<1>3. loc[p] \in Locals
  BY DEF TypeInv, ControlOK
<1>4. Name(l.doc) = <<nextId, loc[p].doc.path>> /\ SafeCall(label, l)
  BY <1>3 DEF Name, Locals, Draft, SafeCall
<1> HIDE DEF l
<1>5. DocNames' = DocNames /\ RowNames' = RowNames
  BY DEF DocNames, RowNames
<1>6. DocNames \subseteq Names /\ RowNames \subseteq Names
      /\ DocNames \subseteq Settled /\ RowNames \subseteq Settled
  BY DEF Names, Settled
<1>7. /\ Names' \subseteq Names \cup {<<nextId, loc[p].doc.path>>}
      /\ Settled' \subseteq Settled /\ SafeCalls'
  BY <1>1, <1>2, <1>4, <1>5, <1>6, MoveNames DEF NameInv
<1>8. IdsBound'
  BY <1>7, BoundMinted DEF NameInv, Mint
<1>9. CanonicalSettled'
  BY <1>5, <1>7 DEF NameInv, CanonicalSettled
<1>10. CanonicalUnique' /\ RowIdsUnique'
  BY DEF NameInv, CanonicalUnique, RowIdsUnique
<1> QED
  BY <1>7, <1>8, <1>9, <1>10 DEF NameInv

(* A pushed document that is the first of its path, or not canonical. *)
LEMMA PushUnique ==
    ASSUME docs \in Seq(Doc), NEW d \in Doc, docs' = Append(docs, d), CanonicalUnique,
           d.path \in Canonical => \A i \in 1..Len(docs) : docs[i].path # d.path
    PROVE  CanonicalUnique'
<1>1. /\ Len(docs') = Len(docs) + 1 /\ Len(docs) \in Nat
      /\ DOMAIN docs = 1..Len(docs) /\ DOMAIN docs' = 1..Len(docs')
      /\ \A i \in 1..Len(docs) : docs'[i] = docs[i]
      /\ docs'[Len(docs) + 1] = d
  BY AppendProperties
<1>2. SUFFICES ASSUME NEW i \in 1..Len(docs'), NEW j \in 1..Len(docs'),
                      docs'[i].path = docs'[j].path, docs'[i].path \in Canonical
               PROVE  i = j
  BY <1>1 DEF CanonicalUnique
<1>3. /\ i \in 1..Len(docs) \/ i = Len(docs) + 1
      /\ j \in 1..Len(docs) \/ j = Len(docs) + 1
  BY <1>1
<1>4. CASE i \in 1..Len(docs) /\ j \in 1..Len(docs)
  BY <1>1, <1>2, <1>4 DEF CanonicalUnique
<1>5. CASE i \in 1..Len(docs) /\ j = Len(docs) + 1
  BY <1>1, <1>2, <1>5
<1>6. CASE i = Len(docs) + 1 /\ j \in 1..Len(docs)
  BY <1>1, <1>2, <1>6
<1> QED
  BY <1>3, <1>4, <1>5, <1>6

(* A step that writes d into the index and settles its name. *)
LEMMA WriteStep ==
    ASSUME TypeInv, NameInv, NEW p \in Procs, NEW l, Moves(p, "invalidate", l),
           UNCHANGED <<store, nextId>>, SafeCall("invalidate", l), Name(l.doc) \in Names \cup DocNames',
           CanonicalUnique', DocNames' \subseteq Names,
           \A n \in DocNames : n[2] \in Canonical => n \in DocNames',
           l.doc.path \in Canonical => Name(l.doc) \in DocNames'
    PROVE  NameInv'
<1>1. CallNames("invalidate", l) = {Name(l.doc)} /\ CallSettled("invalidate", l) = {Name(l.doc)}
  BY DEF CallNames, CallSettled, Settling
<1>2. RowNames' = RowNames /\ RowNames \subseteq Names /\ RowNames \subseteq Settled
  BY DEF RowNames, Names, Settled
<1>3. Names' \subseteq Names /\ Settled' \subseteq Settled \cup DocNames' \cup {Name(l.doc)} /\ SafeCalls'
  BY <1>1, <1>2, MoveNames DEF NameInv
<1>4. IdsBound'
  BY <1>3, BoundKept DEF NameInv
<1>5. Name(l.doc)[2] = l.doc.path
  BY DEF Name
<1>6. ASSUME NEW n \in Settled', n[2] \in Canonical  PROVE n \in DocNames'
  BY <1>3, <1>5, <1>6 DEF NameInv, CanonicalSettled
<1>7. RowIdsUnique'
  BY DEF NameInv, RowIdsUnique
<1> QED
  BY <1>3, <1>4, <1>6, <1>7 DEF NameInv, CanonicalSettled

(* The replacement by id or path that update and index_upsert make. *)
LEMMA UpsertStep ==
    ASSUME TypeInv, NameInv, NEW p \in Procs, loc[p].doc \in Doc, pc[p] \in {"updWrite", "upsert"},
           PlaceAt(NamePos(docs, loc[p].doc), loc[p].doc), Goto(p, "invalidate", loc[p]),
           UNCHANGED <<store, nextId>>
    PROVE  NameInv'
<1> DEFINE d == loc[p].doc
           k == NamePos(docs, d)
<1>1. docs \in Seq(Doc) /\ d \in Doc
  BY DEF TypeInv, SharedOK
<1>2. Name(d) \in CallSettled(pc[p], loc[p]) /\ Name(d) \in CallNames(pc[p], loc[p])
  BY DEF CallSettled, CallNames, Settling
<1>3. Name(d) \in Settled /\ Name(d) \in Names
  BY <1>2 DEF Settled, Names
<1>4. Moves(p, "invalidate", loc[p]) /\ SafeCall("invalidate", loc[p])
  BY GotoMoves DEF NameInv, SafeCalls, SafeCall
<1>5. ASSUME d.path \in Canonical
      PROVE  \E i \in 1..Len(docs) : docs[i].path = d.path /\ docs[i].id = d.id
  <2>1. Name(d) \in DocNames
    BY <1>3, <1>5 DEF NameInv, CanonicalSettled, Name
  <2> QED
    BY <2>1 DEF DocNames, Name
<1>6. DocNames \subseteq Names
  BY DEF Names
<1>7. CASE k = 0
  <2>1. docs' = Append(docs, d)
    BY <1>7 DEF PlaceAt
  <2>2. \A i \in 1..Len(docs) : docs[i].path # d.path
    BY <1>1, <1>7, NamePosFact
  <2>3. d.path \notin Canonical
    BY <1>5, <2>2
  <2>4. CanonicalUnique'
    BY <1>1, <2>1, <2>3, PushUnique DEF NameInv
  <2>5. DocNames' = DocNames \cup {Name(d)}
    BY <1>1, <2>1, PushNames
  <2> HIDE DEF d, k
  <2> QED
    BY <1>3, <1>4, <1>6, <2>3, <2>4, <2>5, WriteStep DEF d
<1>8. CASE k # 0
  <2>1. k \in 1..Len(docs) /\ (docs[k].id = d.id \/ docs[k].path = d.path)
    BY <1>1, <1>8, NamePosFact
  <2>2. Name(docs[k]) \in Names
    BY <1>6, <2>1 DEF DocNames
  <2>3. docs[k].path = d.path
    BY <1>3, <2>1, <2>2 DEF NameInv, IdsBound, Name
  <2>4. d.path \in Canonical => docs[k].id = d.id
    BY <1>1, <1>5, <2>1, <2>3 DEF NameInv, CanonicalUnique
  <2>5. docs' = [docs EXCEPT ![k] = d]
    BY <1>8 DEF PlaceAt
  <2>6. /\ CanonicalUnique'
        /\ DocNames' \subseteq DocNames \cup {Name(d)}
        /\ \A n \in DocNames : n[2] \in Canonical => n \in DocNames'
    BY <1>1, <2>1, <2>3, <2>4, <2>5, ReplaceNames DEF NameInv
  <2>7. d.path \in Canonical => Name(d) \in DocNames'
    <3>1. d.path \in Canonical => Name(d) \in DocNames
      BY <1>5 DEF DocNames, Name
    <3> QED
      BY <2>6, <3>1 DEF Name
  <2> HIDE DEF k
  <2> QED
    BY <1>3, <1>4, <1>6, <2>6, <2>7, WriteStep
<1> QED
  BY <1>7, <1>8

(* The names a caller holds are in play. *)
LEMMA HeldNames ==
    ASSUME NEW p \in Procs
    PROVE  /\ CallNames(pc[p], loc[p]) \subseteq Names
           /\ CallSettled(pc[p], loc[p]) \subseteq Settled
           /\ DocNames \subseteq Names /\ RowNames \subseteq Names
           /\ DocNames \subseteq Settled /\ RowNames \subseteq Settled
BY DEF Names, Settled

(* The document found at a position gives its name. *)
LEMMA FoundName ==
    /\ \A path : PathPos(docs, path) \in 1..Len(docs) => Name(docs[PathPos(docs, path)]) \in DocNames
    /\ \A path : PathPos(store, path) \in 1..Len(store) => Name(store[PathPos(store, path)]) \in RowNames
    /\ \A id : IdPos(docs, id) \in 1..Len(docs) => Name(docs[IdPos(docs, id)]) \in DocNames
    /\ \A id : IdPos(store, id) \in 1..Len(store) => Name(store[IdPos(store, id)]) \in RowNames
BY DEF DocNames, RowNames

(* The lookups of an add: a known path lends the id it is known by, an        *)
(* unknown one gets a fresh id.                                               *)
LEMMA AddNames ==
    ASSUME TypeInv, NameInv, NEW p \in Procs,
           \/ AddStart(p) \/ AddCanonicalLookup(p) \/ IdenticalInDocs(p)
           \/ IdenticalInStore(p) \/ AddResolve(p)
    PROVE  NameInv'
<1>0. CallOK(pc[p], loc[p]) /\ loc[p] \in Locals /\ docs \in Seq(Doc) /\ store \in Seq(Doc)
  BY DEF TypeInv, ControlOK, SharedOK
<1>1. SafeCall(pc[p], loc[p])
  BY DEF NameInv, SafeCalls
<1>2. CASE AddStart(p)
  <2>1. PICK path \in Paths, content \in Contents :
            LET d == [id |-> NoId, path |-> path, content |-> content]
                i == PathPos(docs, path)
                locals == [NoLocals EXCEPT !.op = "add", !.doc = d]
            IN  /\ IF path \notin Canonical THEN Begin(p, "identDocs", locals)
                   ELSE IF i = 0 THEN Begin(p, "canonStore", locals)
                   ELSE IF IsIdentical(docs[i], d)
                   THEN /\ "add" \in Ops
                        /\ pc[p] = "idle"
                        /\ Return(p, docs[i].id)
                   ELSE Begin(p, "write", [locals EXCEPT !.doc.id = docs[i].id])
                /\ UNCHANGED <<docs, cache, loaded, store, nextId, restarts>>
    BY <1>2 DEF AddStart
  <2> DEFINE d == [id |-> NoId, path |-> path, content |-> content]
             i == PathPos(docs, path)
             locals == [NoLocals EXCEPT !.op = "add", !.doc = d]
             known == [locals EXCEPT !.doc.id = docs[i].id]
  <2>2. /\ CallNames("identDocs", locals) = {} /\ CallSettled("identDocs", locals) = {}
        /\ CallNames("canonStore", locals) = {} /\ CallSettled("canonStore", locals) = {}
        /\ SafeCall("identDocs", locals) /\ SafeCall("canonStore", locals)
    BY DEF CallNames, CallSettled, Settling, SafeCall, SafeOps, NoLocals
  <2>3. ASSUME i # 0
        PROVE  /\ CallNames("write", known) \subseteq Names /\ CallSettled("write", known) = {}
               /\ SafeCall("write", known)
    <3>1. i \in 1..Len(docs) /\ docs[i].path = path
      BY <1>0, <2>3, PathPosFact
    <3>2. Name(docs[i]) \in Names
      BY <3>1, FoundName, HeldNames
    <3>3. CallNames("write", known) \subseteq {Name(known.doc)} /\ CallSettled("write", known) = {}
      BY DEF CallNames, CallSettled, Settling
    <3>4. Name(known.doc) = Name(docs[i])
      BY <3>1, NoLocalsFact DEF Name, Locals
    <3>5. SafeCall("write", known)
      BY NoLocalsFact DEF SafeCall, SafeOps, Locals
    <3> QED
      BY <3>2, <3>3, <3>4, <3>5
  <2>4. UNCHANGED <<docs, store, nextId>>
    BY <2>1
  <2> HIDE DEF locals, known, i
  <2>5. CASE Begin(p, "identDocs", locals) \/ Begin(p, "canonStore", locals)
    <3>1. CASE Begin(p, "identDocs", locals)
      <4>1. Moves(p, "identDocs", locals)
        BY <3>1, GotoMoves
      <4> QED
        BY <2>2, <2>4, <4>1, QuietStep
    <3>2. CASE Begin(p, "canonStore", locals)
      <4>1. Moves(p, "canonStore", locals)
        BY <3>2, GotoMoves
      <4> QED
        BY <2>2, <2>4, <4>1, QuietStep
    <3> QED
      BY <2>5, <3>1, <3>2
  <2>6. CASE i # 0 /\ Begin(p, "write", known)
    <3>1. Moves(p, "write", known)
      BY <2>6, GotoMoves
    <3> QED
      BY <2>3, <2>4, <2>6, <3>1, QuietStep
  <2>7. CASE \E id : Return(p, id)
    BY <2>4, <2>7, QuietReturn
  <2> QED
    BY <2>1, <2>5, <2>6, <2>7 DEF locals, known, i
<1>3. CASE AddCanonicalLookup(p)
  <2> DEFINE i == PathPos(store, loc[p].doc.path)
             known == [loc[p] EXCEPT !.doc.id = store[i].id]
  <2>1. CASE i # 0 /\ Goto(p, "write", known) /\ UNCHANGED nextId
    <3>1. i \in 1..Len(store) /\ store[i].path = loc[p].doc.path
      BY <1>0, <2>1, PathPosFact
    <3>2. Name(store[i]) \in Names
      BY <3>1, FoundName, HeldNames
    <3>3. CallNames("write", known) \subseteq {Name(known.doc)} /\ CallSettled("write", known) = {}
      BY DEF CallNames, CallSettled, Settling
    <3>4. Name(known.doc) = Name(store[i]) /\ SafeCall("write", known)
      BY <1>0, <1>1, <3>1 DEF Name, Locals, Draft, SafeCall
    <3>5. Moves(p, "write", known)
      BY <2>1, GotoMoves
    <3>6. UNCHANGED <<docs, store, nextId>>
      BY <1>3, <2>1 DEF AddCanonicalLookup
    <3> HIDE DEF known, i
    <3> QED
      BY <3>2, <3>3, <3>4, <3>5, <3>6, QuietStep
  <2>2. CASE (\E id : Return(p, id)) /\ UNCHANGED nextId
    BY <1>3, <2>2, QuietReturn DEF AddCanonicalLookup
  <2>3. CASE Mint(p, "write", "mint")
    <3>1. SafeCall("write", loc[p])
      BY <1>1 DEF SafeCall
    <3> QED
      BY <1>3, <2>3, <3>1, MintStep DEF AddCanonicalLookup
  <2> QED
    BY <1>3, <2>1, <2>2, <2>3 DEF AddCanonicalLookup
<1>4. ASSUME pc[p] \in {"identDocs", "identStore"}, UNCHANGED <<docs, store, nextId>>,
             NEW id, IdenticalFound(p, id)
      PROVE  NameInv'
  <2>1. CASE loc[p].then = "write" /\ Goto(p, "resolve", loc[p])
    <3>1. CallNames("resolve", loc[p]) \subseteq Names /\ CallSettled("resolve", loc[p]) = {}
      BY <1>4, <2>1, HeldNames DEF CallNames, CallSettled, Settling
    <3>2. Moves(p, "resolve", loc[p]) /\ SafeCall("resolve", loc[p])
      BY <1>1, <2>1, GotoMoves DEF SafeCall
    <3> QED
      BY <1>4, <3>1, <3>2, QuietStep
  <2>2. CASE Return(p, id)
    BY <1>4, <2>2, QuietReturn
  <2> QED
    BY <1>4, <2>1, <2>2 DEF IdenticalFound
<1>5. CASE IdenticalInDocs(p)
  <2>1. pc[p] = "identDocs" /\ UNCHANGED <<docs, store, nextId>>
    BY <1>5 DEF IdenticalInDocs
  <2>2. CASE Goto(p, "identStore", loc[p])
    <3>1. CallNames("identStore", loc[p]) \subseteq Names /\ CallSettled("identStore", loc[p]) = {}
      BY <2>1, HeldNames DEF CallNames, CallSettled, Settling
    <3>2. Moves(p, "identStore", loc[p]) /\ SafeCall("identStore", loc[p])
      BY <1>1, <2>2, GotoMoves DEF SafeCall
    <3> QED
      BY <2>1, <3>1, <3>2, QuietStep
  <2> QED
    BY <1>4, <1>5, <2>1, <2>2 DEF IdenticalInDocs
<1>6. CASE IdenticalInStore(p)
  <2>1. pc[p] = "identStore" /\ UNCHANGED <<docs, store>>
    BY <1>6 DEF IdenticalInStore
  <2>2. loc[p].then \in {"mint", "write", "return"}
    BY <1>0 DEF Locals
  <2>3. CASE Mint(p, "identDocs", "write")
    <3>1. SafeCall("identDocs", loc[p])
      BY <1>1 DEF SafeCall
    <3> QED
      BY <2>1, <2>3, <3>1, MintStep
  <2>4. CASE loc[p].then = "write" /\ Goto(p, "write", loc[p]) /\ UNCHANGED nextId
    <3>1. CallNames("write", loc[p]) \subseteq Names /\ CallSettled("write", loc[p]) = {}
      BY <2>1, <2>4, HeldNames DEF CallNames, CallSettled, Settling
    <3>2. Moves(p, "write", loc[p]) /\ SafeCall("write", loc[p])
      BY <1>1, <2>4, GotoMoves DEF SafeCall
    <3> QED
      BY <2>1, <2>4, <3>1, <3>2, QuietStep
  <2>5. CASE Return(p, loc[p].doc.id) /\ UNCHANGED nextId
    BY <2>1, <2>5, QuietReturn
  <2>6. CASE (\E id : IdenticalFound(p, id)) /\ UNCHANGED nextId
    BY <1>4, <2>1, <2>6
  <2> QED
    BY <1>6, <2>2, <2>3, <2>4, <2>5, <2>6 DEF IdenticalInStore
<1>7. CASE AddResolve(p)
  <2> DEFINE l == [loc[p] EXCEPT !.then = "return"]
  <2>1. CASE Goto(p, "identDocs", l)
    <3>1. l.doc = loc[p].doc /\ SafeCall("identDocs", l)
      BY <1>0, <1>1 DEF SafeCall, Locals
    <3>2. CallNames("identDocs", l) \subseteq Names /\ CallSettled("identDocs", l) = {}
      BY <1>7, <3>1, HeldNames DEF AddResolve, CallNames, CallSettled, Settling
    <3>3. Moves(p, "identDocs", l)
      BY <2>1, GotoMoves
    <3> HIDE DEF l
    <3> QED
      BY <1>7, <3>1, <3>2, <3>3, QuietStep DEF AddResolve
  <2> QED
    BY <1>7, <2>1, QuietReturn DEF AddResolve
<1> QED
  BY <1>2, <1>3, <1>5, <1>6, <1>7

(* The write of an add, under the guard. *)
LEMMA AddWriteNames ==
    ASSUME TypeInv, NameInv, NEW p \in Procs, AddWrite(p)
    PROVE  NameInv'
<1> DEFINE d == loc[p].doc
           i == PathPos(docs, d.path)
           kept == [d EXCEPT !.id = docs[i].id]
<1>1. /\ docs \in Seq(Doc) /\ loc[p] \in Locals /\ d \in Doc /\ SafeCall(pc[p], loc[p])
      /\ pc[p] = "write" /\ UNCHANGED <<store, nextId>>
  BY DEF TypeInv, SharedOK, ControlOK, AddWrite, CallOK, HasId, Locals, Draft, Doc,
         NameInv, SafeCalls
<1>2. Name(d) \in Names /\ DocNames \subseteq Names
  BY <1>1, HeldNames DEF CallNames
<1>3. CASE (\E id : Return(p, id)) /\ UNCHANGED docs
  BY <1>1, <1>3, QuietReturn
<1>4. CASE i # 0 /\ PlaceAt(i, kept) /\ Goto(p, "invalidate", [loc[p] EXCEPT !.doc = kept])
  <2> DEFINE l == [loc[p] EXCEPT !.doc = kept]
  <2>1. i \in 1..Len(docs) /\ docs[i].path = d.path /\ docs[i].id \in Ids
    BY <1>1, <1>4, PathPosFact, FoundFact
  <2>2. kept \in Doc /\ kept.path = docs[i].path /\ kept.id = docs[i].id
    BY <1>1, <2>1 DEF Doc
  <2>3. Name(kept) = Name(docs[i]) /\ Name(docs[i]) \in DocNames
    BY <2>1, <2>2 DEF Name, DocNames
  <2>4. docs' = [docs EXCEPT ![i] = kept]
    BY <1>4 DEF PlaceAt
  <2>5. l.doc = kept /\ SafeCall("invalidate", l) /\ Moves(p, "invalidate", l)
    BY <1>1, <1>4, GotoMoves DEF Locals, SafeCall
  <2> HIDE DEF i, kept, l, d
  <2>6. /\ CanonicalUnique'
        /\ DocNames' \subseteq DocNames \cup {Name(kept)}
        /\ \A n \in DocNames : n[2] \in Canonical => n \in DocNames'
    BY <1>1, <2>1, <2>2, <2>4, ReplaceNames DEF NameInv
  <2>7. kept.path \in Canonical => Name(kept) \in DocNames'
    BY <2>3, <2>6 DEF Name
  <2> QED
    BY <1>1, <1>2, <2>3, <2>5, <2>6, <2>7, WriteStep
<1>5. CASE /\ PlaceAt(0, d) /\ Goto(p, "invalidate", loc[p])
           /\ d.path \in Canonical => i = 0
  <2>1. docs' = Append(docs, d)
    BY <1>5 DEF PlaceAt
  <2>2. d.path \in Canonical => \A k \in 1..Len(docs) : docs[k].path # d.path
    BY <1>1, <1>5, PathPosFact
  <2>3. CanonicalUnique'
    BY <1>1, <2>1, <2>2, PushUnique DEF NameInv
  <2>4. DocNames' = DocNames \cup {Name(d)}
    BY <1>1, <2>1, PushNames
  <2>5. SafeCall("invalidate", loc[p]) /\ Moves(p, "invalidate", loc[p])
    BY <1>1, <1>5, GotoMoves DEF SafeCall
  <2> QED
    BY <1>1, <1>2, <2>3, <2>4, <2>5, WriteStep
<1>6. CASE Goto(p, "resolve", loc[p]) /\ UNCHANGED docs
  <2>1. CallNames("resolve", loc[p]) \subseteq Names /\ CallSettled("resolve", loc[p]) = {}
    BY <1>1, HeldNames DEF CallNames, CallSettled, Settling
  <2>2. Moves(p, "resolve", loc[p]) /\ SafeCall("resolve", loc[p])
    BY <1>1, <1>6, GotoMoves DEF SafeCall
  <2> QED
    BY <1>1, <1>6, <2>1, <2>2, QuietStep
<1> QED
  BY <1>3, <1>4, <1>5, <1>6 DEF AddWrite

(* A put writes a row whose name is settled. *)
LEMMA PutStep ==
    ASSUME TypeInv, NameInv, NEW p \in Procs, PutCommit(p)
    PROVE  NameInv'
<1> DEFINE row == [loc[p].doc EXCEPT !.id = loc[p].key]
<1>1. /\ loc[p] \in Locals /\ store \in Seq(Doc) /\ pc[p] = "putCommit"
      /\ SafeCall(pc[p], loc[p]) /\ UNCHANGED <<docs, nextId>> /\ loc[p].key \in Ids
  BY DEF TypeInv, SharedOK, ControlOK, CallOK, PutCommit, NameInv, SafeCalls
<1>2. row \in Doc /\ Name(row) = <<loc[p].key, loc[p].doc.path>>
  BY <1>1 DEF Doc, Draft, Locals, Name
<1>3. Name(row) \in Settled /\ Name(row) \in Names
  BY <1>1, <1>2, HeldNames DEF CallSettled, CallNames
<1>4. RowIdsUnique' /\ RowNames' \subseteq RowNames \cup {Name(row)}
  BY <1>1, <1>2, PutNames DEF PutCommit, NameInv
<1>5. DocNames' = DocNames /\ CanonicalUnique'
  BY <1>1 DEF DocNames, CanonicalUnique, NameInv
<1>6. ASSUME NEW label, NEW l, Moves(p, label, l), SafeCall(label, l),
             CallNames(label, l) \subseteq Names, CallSettled(label, l) \subseteq Settled
      PROVE  NameInv'
  <2>1. /\ Names' \subseteq Names \cup DocNames' \cup RowNames' \cup CallNames(label, l)
        /\ Settled' \subseteq Settled \cup DocNames' \cup RowNames' \cup CallSettled(label, l)
        /\ SafeCalls'
    BY <1>6, MoveNames DEF NameInv
  <2>2. Names' \subseteq Names /\ Settled' \subseteq Settled
    BY <1>3, <1>4, <1>5, <1>6, <2>1, HeldNames
  <2>3. IdsBound'
    BY <1>1, <2>2, BoundKept DEF NameInv
  <2>4. CanonicalSettled'
    BY <1>5, <2>2 DEF NameInv, CanonicalSettled
  <2> QED
    BY <1>4, <1>5, <2>1, <2>3, <2>4 DEF NameInv
<1>7. CASE \E id : Return(p, id)
  BY <1>6, <1>7, ReturnMoves, IdleNames
<1>8. CASE Goto(p, "resolve", loc[p])
  <2>1. CallNames("resolve", loc[p]) \subseteq Names /\ CallSettled("resolve", loc[p]) = {}
    BY <1>1, HeldNames DEF CallNames, CallSettled, Settling
  <2>2. Moves(p, "resolve", loc[p]) /\ SafeCall("resolve", loc[p])
    BY <1>1, <1>8, GotoMoves DEF SafeCall
  <2> QED
    BY <1>6, <2>1, <2>2
<1> QED
  BY <1>7, <1>8 DEF PutCommit

(* The other steps of a put, and an error of the store. *)
LEMMA PutPathNames ==
    ASSUME TypeInv, NameInv, NEW p \in Procs, Invalidate(p) \/ PutValidate(p) \/ StoreError(p)
    PROVE  NameInv'
<1>1. /\ CallOK(pc[p], loc[p]) /\ loc[p] \in Locals /\ SafeCall(pc[p], loc[p])
      /\ store \in Seq(Doc) /\ UNCHANGED <<docs, store, nextId>>
  BY DEF TypeInv, SharedOK, ControlOK, NameInv, SafeCalls, Invalidate, PutValidate, StoreError
<1>2. CASE Invalidate(p)
  <2>1. pc[p] = "invalidate" /\ Name(loc[p].doc) \in Settled /\ Name(loc[p].doc) \in Names
    BY <1>2, HeldNames DEF Invalidate, CallSettled, CallNames, Settling
  <2>2. CASE loc[p].op = "add"
    <3> DEFINE l == [loc[p] EXCEPT !.key = loc[p].doc.id]
               label == PutLabel(loc[p].doc.path)
    <3>1. l.doc = loc[p].doc /\ l.key = loc[p].doc.id /\ SafeCall(label, l)
      BY <1>1 DEF Locals, SafeCall, PutLabel
    <3>2. label \in {"putValidate", "putCommit"}
      BY DEF PutLabel
    <3>3. Moves(p, label, l)
      BY <1>2, <2>2, GotoMoves DEF Invalidate
    <3> HIDE DEF l, label
    <3>4. CallNames(label, l) \subseteq {Name(loc[p].doc)} /\ CallSettled(label, l) \subseteq {Name(loc[p].doc)}
      BY <3>1, <3>2 DEF CallNames, CallSettled, Name
    <3> QED
      BY <1>1, <2>1, <3>1, <3>3, <3>4, QuietStep
  <2>3. CASE loc[p].op = "update"
    <3>1. CallNames("updById", loc[p]) \subseteq {Name(loc[p].doc)}
          /\ CallSettled("updById", loc[p]) \subseteq {Name(loc[p].doc)}
      BY DEF CallNames, CallSettled
    <3>2. Moves(p, "updById", loc[p]) /\ SafeCall("updById", loc[p])
      BY <1>1, <1>2, <2>3, GotoMoves DEF Invalidate, SafeCall
    <3> QED
      BY <1>1, <2>1, <3>1, <3>2, QuietStep
  <2>4. CASE loc[p].op = "refresh"
    <3>1. Return(p, NoId)
      BY <1>2, <2>4 DEF Invalidate
    <3> QED
      BY <1>1, <3>1, QuietReturn
  <2>5. loc[p].op \in {"add", "update", "refresh"}
    BY <1>1, <2>1 DEF CallOK, OpsAt, SafeCall, SafeOps
  <2> QED
    BY <2>2, <2>3, <2>4, <2>5
<1>3. CASE PutValidate(p)
  <2> DEFINE i == PathPos(store, loc[p].doc.path)
             l == [loc[p] EXCEPT !.key = store[i].id]
  <2>1. pc[p] = "putValidate" /\ Name(loc[p].doc) \in Settled /\ Name(loc[p].doc) \in Names
    BY <1>3, HeldNames DEF PutValidate, CallSettled, CallNames, Settling
  <2>2. CASE i # 0 /\ Goto(p, "putCommit", l)
    <3>1. i \in 1..Len(store) /\ store[i].path = loc[p].doc.path
      BY <1>1, <2>2, PathPosFact
    <3>2. Name(store[i]) \in Settled /\ Name(store[i]) \in Names
      BY <3>1, FoundName, HeldNames
    <3>3. l.doc = loc[p].doc /\ l.key = store[i].id /\ SafeCall("putCommit", l)
      BY <1>1 DEF Locals, SafeCall
    <3>4. Moves(p, "putCommit", l)
      BY <2>2, GotoMoves
    <3> HIDE DEF l, i
    <3>5. /\ CallNames("putCommit", l) \subseteq {Name(loc[p].doc), Name(store[i])}
          /\ CallSettled("putCommit", l) \subseteq {Name(loc[p].doc), Name(store[i])}
      BY <3>1, <3>3 DEF CallNames, CallSettled, Name
    <3> QED
      BY <1>1, <2>1, <3>2, <3>3, <3>4, <3>5, QuietStep
  <2>3. CASE Goto(p, "putCommit", loc[p])
    <3>1. /\ CallNames("putCommit", loc[p]) \subseteq Names
          /\ CallSettled("putCommit", loc[p]) \subseteq Settled
      BY <2>1, HeldNames DEF CallNames, CallSettled, Settling
    <3>2. Moves(p, "putCommit", loc[p]) /\ SafeCall("putCommit", loc[p])
      BY <1>1, <2>3, GotoMoves DEF SafeCall
    <3> QED
      BY <1>1, <3>1, <3>2, QuietStep
  <2> QED
    BY <1>3, <2>2, <2>3 DEF PutValidate
<1>4. CASE StoreError(p)
  BY <1>1, <1>4, QuietReturn DEF StoreError
<1> QED
  BY <1>2, <1>3, <1>4

(* An update takes the path its record has, in the index or in the store. *)
LEMMA UpdateNames ==
    ASSUME ~Lazy, Ops \subseteq SafeOps, TypeInv, NameInv, NEW p \in Procs,
           UpdateStart(p) \/ UpdateFetch(p) \/ UpdateWrite(p) \/ UpdateLookup(p)
    PROVE  NameInv'
<1>1. /\ CallOK(pc[p], loc[p]) /\ loc[p] \in Locals /\ SafeCall(pc[p], loc[p])
      /\ docs \in Seq(Doc) /\ store \in Seq(Doc)
  BY DEF TypeInv, SharedOK, ControlOK, NameInv, SafeCalls
<1>2. CASE UpdateStart(p)
  <2>1. PICK op \in {"update", "move"}, id \in MintedIds, path \in Paths, content \in Contents :
          /\ Begin(p, EnsureLoaded("fetchDocs"),
                   [NoLocals EXCEPT !.op = op,
                                    !.doc = [id |-> id, path |-> path, content |-> content]])
          /\ UNCHANGED <<docs, cache, loaded, store, nextId, restarts>>
    BY <1>2 DEF UpdateStart
  <2> DEFINE l == [NoLocals EXCEPT !.op = op,
                                   !.doc = [id |-> id, path |-> path, content |-> content]]
  <2>2. l.op = op
    BY NoLocalsFact DEF Locals
  <2>3. EnsureLoaded("fetchDocs") = "fetchDocs"
    BY DEF EnsureLoaded
  <2> HIDE DEF l
  <2>4. Begin(p, "fetchDocs", l)
    BY <2>1, <2>3 DEF l
  <2>5. Moves(p, "fetchDocs", l) /\ l.op \in Ops
    BY <2>4, GotoMoves DEF Begin
  <2>6. CallNames("fetchDocs", l) = {} /\ CallSettled("fetchDocs", l) = {} /\ SafeCall("fetchDocs", l)
    BY <2>5 DEF CallNames, CallSettled, Settling, SafeCall
  <2> QED
    BY <2>1, <2>5, <2>6, QuietStep
<1>3. CASE UpdateFetch(p)
  <2>1. pc[p] \in {"fetchDocs", "fetchStore"} /\ UNCHANGED <<docs, store, nextId>>
    BY <1>3 DEF UpdateFetch
  <2>2. loc[p].op = "update"
    BY <1>1, <2>1 DEF CallOK, OpsAt, SafeCall, SafeOps
  <2>3. ASSUME NEW path, <<loc[p].doc.id, path>> \in Settled, <<loc[p].doc.id, path>> \in Names,
               UpdateFound(p, path)
        PROVE  NameInv'
    <3> DEFINE l == [loc[p] EXCEPT !.doc.path = path]
    <3>1. Name(l.doc) = <<loc[p].doc.id, path>> /\ SafeCall("updWrite", l)
      BY <1>1 DEF Name, Locals, Draft, SafeCall
    <3>2. Moves(p, "updWrite", l)
      BY <2>2, <2>3, GotoMoves DEF UpdateFound
    <3> HIDE DEF l
    <3>3. CallNames("updWrite", l) \subseteq {Name(l.doc)} /\ CallSettled("updWrite", l) \subseteq {Name(l.doc)}
      BY DEF CallNames, CallSettled
    <3> QED
      BY <2>1, <2>3, <3>1, <3>2, <3>3, QuietStep
  <2> DEFINE i == IdPos(docs, loc[p].doc.id)
             j == IdPos(store, loc[p].doc.id)
  <2>4. CASE i # 0 /\ UpdateFound(p, docs[i].path)
    <3>1. i \in 1..Len(docs) /\ docs[i].id = loc[p].doc.id
      BY <1>1, <2>4, IdPosFact
    <3>2. Name(docs[i]) \in Settled /\ Name(docs[i]) \in Names
      BY <3>1, FoundName, HeldNames
    <3> QED
      BY <2>3, <2>4, <3>1, <3>2 DEF Name
  <2>5. CASE j # 0 /\ UpdateFound(p, store[j].path)
    <3>1. j \in 1..Len(store) /\ store[j].id = loc[p].doc.id
      BY <1>1, <2>5, IdPosFact
    <3>2. Name(store[j]) \in Settled /\ Name(store[j]) \in Names
      BY <3>1, FoundName, HeldNames
    <3> QED
      BY <2>3, <2>5, <3>1, <3>2 DEF Name
  <2>6. CASE Goto(p, "fetchStore", loc[p])
    <3>1. CallNames("fetchStore", loc[p]) = {} /\ CallSettled("fetchStore", loc[p]) = {}
      BY DEF CallNames, CallSettled, Settling
    <3>2. Moves(p, "fetchStore", loc[p]) /\ SafeCall("fetchStore", loc[p])
      BY <1>1, <2>6, GotoMoves DEF SafeCall
    <3> QED
      BY <2>1, <3>1, <3>2, QuietStep
  <2>7. CASE Return(p, NoId)
    BY <2>1, <2>7, QuietReturn
  <2> QED
    BY <1>3, <2>4, <2>5, <2>6, <2>7 DEF UpdateFetch
<1>4. CASE UpdateWrite(p)
  <2>1. loc[p].doc \in Doc
    BY <1>1, <1>4 DEF UpdateWrite, CallOK, OpsAt, HasId, Locals, Draft, Doc
  <2> QED
    BY <1>4, <2>1, UpsertStep DEF UpdateWrite
<1>5. CASE UpdateLookup(p)
  <2> DEFINE label == PutLabel(loc[p].doc.path)
             i == PathPos(store, loc[p].doc.path)
  <2>1. pc[p] \in {"updById", "updByPath"} /\ UNCHANGED <<docs, store, nextId>>
    BY <1>5 DEF UpdateLookup
  <2>2. Name(loc[p].doc) \in Settled /\ Name(loc[p].doc) \in Names
    BY <2>1, HeldNames DEF CallSettled, CallNames, Settling
  <2>3. ASSUME NEW id, <<id, loc[p].doc.path>> \in Settled, <<id, loc[p].doc.path>> \in Names,
               Goto(p, label, [loc[p] EXCEPT !.key = id])
        PROVE  NameInv'
    <3> DEFINE l == [loc[p] EXCEPT !.key = id]
    <3>1. l.doc = loc[p].doc /\ l.key = id /\ SafeCall(label, l)
      BY <1>1 DEF Locals, SafeCall, PutLabel
    <3>2. Moves(p, label, l)
      BY <2>3, GotoMoves
    <3> HIDE DEF l, label
    <3>3. /\ CallNames(label, l) \subseteq {Name(loc[p].doc), <<id, loc[p].doc.path>>}
          /\ CallSettled(label, l) \subseteq {Name(loc[p].doc), <<id, loc[p].doc.path>>}
      BY <3>1 DEF CallNames, CallSettled
    <3> QED
      BY <2>1, <2>2, <2>3, <3>1, <3>2, <3>3, QuietStep
  <2>4. CASE Goto(p, label, [loc[p] EXCEPT !.key = loc[p].doc.id])
    BY <2>2, <2>3, <2>4 DEF Name
  <2>5. CASE i # 0 /\ Goto(p, label, [loc[p] EXCEPT !.key = store[i].id])
    <3>1. i \in 1..Len(store) /\ store[i].path = loc[p].doc.path
      BY <1>1, <2>5, PathPosFact
    <3>2. Name(store[i]) \in Settled /\ Name(store[i]) \in Names
      BY <3>1, FoundName, HeldNames
    <3> QED
      BY <2>3, <2>5, <3>1, <3>2 DEF Name
  <2>6. CASE Goto(p, "updByPath", loc[p])
    <3>1. /\ CallNames("updByPath", loc[p]) \subseteq {Name(loc[p].doc)}
          /\ CallSettled("updByPath", loc[p]) \subseteq {Name(loc[p].doc)}
      BY DEF CallNames, CallSettled
    <3>2. Moves(p, "updByPath", loc[p]) /\ SafeCall("updByPath", loc[p])
      BY <1>1, <2>6, GotoMoves DEF SafeCall
    <3> QED
      BY <2>1, <2>2, <3>1, <3>2, QuietStep
  <2> QED
    BY <1>5, <2>4, <2>5, <2>6 DEF UpdateLookup
<1> QED
  BY <1>2, <1>3, <1>4, <1>5

(* A refresh holds a row of the store; a search holds no name. *)
LEMMA RefreshSearchNames ==
    ASSUME ~Lazy, TypeInv, NameInv, NEW p \in Procs,
           \/ RefreshStart(p) \/ RefreshSetVector(p) \/ IndexUpsert(p)
           \/ SearchStart(p) \/ SearchFill(p)
    PROVE  NameInv'
<1>1. /\ CallOK(pc[p], loc[p]) /\ loc[p] \in Locals /\ SafeCall(pc[p], loc[p])
      /\ docs \in Seq(Doc) /\ store \in Seq(Doc)
  BY DEF TypeInv, SharedOK, ControlOK, NameInv, SafeCalls
<1>2. CASE RefreshStart(p)
  <2>1. PICK r \in Range(store) :
          /\ Begin(p, "setVector", [NoLocals EXCEPT !.op = "refresh", !.doc = r])
          /\ UNCHANGED <<docs, cache, loaded, store, nextId, restarts>>
    BY <1>2 DEF RefreshStart
  <2> DEFINE l == [NoLocals EXCEPT !.op = "refresh", !.doc = r]
  <2>2. Name(r) \in RowNames
    BY <1>1, RangeFact DEF RowNames
  <2>3. l.doc = r /\ SafeCall("setVector", l)
    BY NoLocalsFact DEF Locals, SafeCall, SafeOps
  <2> HIDE DEF l
  <2>4. Moves(p, "setVector", l)
    BY <2>1, GotoMoves DEF l
  <2>5. CallNames("setVector", l) \subseteq {Name(r)} /\ CallSettled("setVector", l) \subseteq {Name(r)}
    BY <2>3 DEF CallNames, CallSettled
  <2> QED
    BY <2>1, <2>2, <2>3, <2>4, <2>5, HeldNames, QuietStep
<1>3. CASE RefreshSetVector(p)
  <2>1. pc[p] = "setVector" /\ UNCHANGED <<docs, store, nextId>>
    BY <1>3 DEF RefreshSetVector
  <2>2. CASE Goto(p, "upsert", loc[p])
    <3>1. Name(loc[p].doc) \in Settled /\ Name(loc[p].doc) \in Names
      BY <2>1, HeldNames DEF CallSettled, CallNames, Settling
    <3>2. CallNames("upsert", loc[p]) \subseteq {Name(loc[p].doc)}
          /\ CallSettled("upsert", loc[p]) \subseteq {Name(loc[p].doc)}
      BY DEF CallNames, CallSettled
    <3>3. Moves(p, "upsert", loc[p]) /\ SafeCall("upsert", loc[p])
      BY <1>1, <2>2, GotoMoves DEF SafeCall
    <3> QED
      BY <2>1, <3>1, <3>2, <3>3, QuietStep
  <2>3. CASE Return(p, NoId)
    BY <2>1, <2>3, QuietReturn
  <2> QED
    BY <1>3, <2>2, <2>3 DEF RefreshSetVector, EnsureLoaded
<1>4. CASE IndexUpsert(p)
  <2>1. loc[p].doc \in Doc
    BY <1>1, <1>4 DEF IndexUpsert, CallOK, OpsAt, HasId, Locals, Draft, Doc
  <2> QED
    BY <1>4, <2>1, UpsertStep DEF IndexUpsert
<1>5. CASE SearchStart(p)
  <2>1. PICK query \in Contents :
          /\ Begin(p, "fill", [NoLocals EXCEPT !.op = "search", !.query = query,
                                                !.snap = Scan(query)])
          /\ UNCHANGED <<docs, cache, loaded, store, nextId, restarts>>
    BY <1>5 DEF SearchStart
  <2> DEFINE l == [NoLocals EXCEPT !.op = "search", !.query = query, !.snap = Scan(query)]
  <2>2. SafeCall("fill", l)
    BY NoLocalsFact DEF Locals, SafeCall, SafeOps
  <2> HIDE DEF l
  <2>3. Moves(p, "fill", l)
    BY <2>1, GotoMoves DEF l
  <2>4. CallNames("fill", l) = {} /\ CallSettled("fill", l) = {}
    BY DEF CallNames, CallSettled, Settling
  <2> QED
    BY <2>1, <2>2, <2>3, <2>4, QuietStep
<1>6. CASE SearchFill(p)
  BY <1>6, QuietReturn DEF SearchFill
<1> QED
  BY <1>2, <1>3, <1>4, <1>5, <1>6

(* Rows are unique by canonical path because their names are the index's. *)
LEMMA RowsUnique ==
    ASSUME TypeInv, NameInv
    PROVE  CanonicalRowUnique
<1>1. docs \in Seq(Doc) /\ store \in Seq(Doc) /\ DOMAIN docs = 1..Len(docs) /\ DOMAIN store = 1..Len(store)
  BY DEF TypeInv, SharedOK
<1>2. SUFFICES ASSUME NEW i \in 1..Len(store), NEW j \in 1..Len(store),
                      store[i].path = store[j].path, store[i].path \in Canonical
               PROVE  i = j
  BY <1>1 DEF CanonicalRowUnique
<1>3. Name(store[i]) \in DocNames /\ Name(store[j]) \in DocNames
  BY <1>2 DEF NameInv, CanonicalSettled, Settled, RowNames, Name
<1>4. PICK k \in 1..Len(docs) : Name(store[i]) = Name(docs[k])
  BY <1>3 DEF DocNames
<1>5. PICK m \in 1..Len(docs) : Name(store[j]) = Name(docs[m])
  BY <1>3 DEF DocNames
<1>6. /\ store[i].id = docs[k].id /\ store[i].path = docs[k].path
      /\ store[j].id = docs[m].id /\ store[j].path = docs[m].path
  BY <1>4, <1>5 DEF Name
<1>7. k = m
  BY <1>1, <1>2, <1>6 DEF NameInv, CanonicalUnique
<1> QED
  BY <1>2, <1>6, <1>7 DEF NameInv, RowIdsUnique

(* An index rebuilt from rows that are unique by canonical path and by id. *)
LEMMA BootNames ==
    ASSUME NEW rows \in Seq(Doc), NEW t \in SetToSeqs(Range(rows)),
           \A i, j \in 1..Len(rows) :
              rows[i].path = rows[j].path /\ rows[i].path \in Canonical => i = j
    PROVE  /\ t \in Seq(Doc)
           /\ {Name(t[i]) : i \in 1..Len(t)} = {Name(rows[i]) : i \in 1..Len(rows)}
           /\ \A i, j \in 1..Len(t) : t[i].path = t[j].path /\ t[i].path \in Canonical => i = j
<1>1. /\ IsFiniteSet(Range(rows)) /\ Range(rows) \in SUBSET Doc
      /\ \A i \in 1..Len(rows) : rows[i] \in Range(rows)
      /\ \A e \in Range(rows) : \E i \in 1..Len(rows) : e = rows[i]
  BY RangeFact
<1>2. /\ t \in Seq(Doc)
      /\ \A i \in 1..Len(t) : t[i] \in Range(rows)
      /\ \A i, j \in 1..Len(t) : t[i] = t[j] => i = j
      /\ \A e \in Range(rows) : \E i \in 1..Len(t) : t[i] = e
  BY <1>1, SetToSeqsFact
<1>3. {Name(t[i]) : i \in 1..Len(t)} = {Name(rows[i]) : i \in 1..Len(rows)}
  <2>1. ASSUME NEW i \in 1..Len(t)  PROVE \E k \in 1..Len(rows) : t[i] = rows[k]
    BY <1>1, <1>2
  <2>2. ASSUME NEW k \in 1..Len(rows)  PROVE \E i \in 1..Len(t) : t[i] = rows[k]
    BY <1>1, <1>2
  <2> QED
    BY <2>1, <2>2
<1>4. ASSUME NEW i \in 1..Len(t), NEW j \in 1..Len(t), t[i].path = t[j].path,
             t[i].path \in Canonical
      PROVE  i = j
  <2>1. PICK k \in 1..Len(rows) : t[i] = rows[k]
    BY <1>1, <1>2
  <2>2. PICK m \in 1..Len(rows) : t[j] = rows[m]
    BY <1>1, <1>2
  <2>3. k = m
    BY <1>4, <2>1, <2>2
  <2> QED
    BY <1>2, <2>1, <2>2, <2>3
<1> QED
  BY <1>2, <1>3, <1>4

(* With idle callers only, the names are those of the index and the rows. *)
LEMMA IdleState ==
    ASSUME pc = [p \in Procs |-> "idle"], loc = [p \in Procs |-> NoLocals]
    PROVE  /\ Names = DocNames \cup RowNames
           /\ Settled = DocNames \cup RowNames
           /\ SafeCalls
<1>1. \A p \in Procs : pc[p] = "idle" /\ loc[p] = NoLocals
  OBVIOUS
<1>2. \A p \in Procs : CallNames(pc[p], loc[p]) = {} /\ CallSettled(pc[p], loc[p]) = {}
                       /\ SafeCall(pc[p], loc[p])
  BY <1>1, IdleNames
<1> QED
  BY <1>2 DEF Names, Settled, SafeCalls

(* The first boot and a restart of an eagerly loaded index. *)
LEMMA InitNames ==
    ASSUME ~Lazy, Init
    PROVE  NameInv
<1>1. TypeInv
  BY InitType
<1>2. store \in Seq(Doc) /\ docs \in SetToSeqs(Range(store)) /\ nextId = 2
  BY <1>1 DEF TypeInv, SharedOK, Init
<1>3. /\ \A i, j \in 1..Len(store) : i = j
      /\ \A i \in 1..Len(store) : store[i].id = 1
  <2>1. CASE store = << >>
    BY <2>1
  <2>2. CASE \E r \in [id : {1}, path : Paths, content : Contents] : store = <<r>>
    BY <2>2
  <2> QED
    BY <2>1, <2>2 DEF Init
<1>4. /\ docs \in Seq(Doc) /\ DocNames = RowNames
      /\ \A i, j \in 1..Len(docs) : docs[i].path = docs[j].path /\ docs[i].path \in Canonical => i = j
  BY <1>2, <1>3, BootNames DEF DocNames, RowNames
<1>5. CanonicalUnique /\ RowIdsUnique
  BY <1>3, <1>4 DEF CanonicalUnique, RowIdsUnique
<1>6. Names = RowNames /\ Settled = DocNames /\ SafeCalls
  BY <1>4, IdleState DEF Init
<1>7. MintedIds = {1}
  BY <1>2 DEF MintedIds
<1>8. \A m, n \in RowNames : m = n /\ m[1] = 1
  BY <1>3 DEF RowNames, Name
<1>9. IdsBound
  BY <1>6, <1>7, <1>8 DEF IdsBound
<1> QED
  BY <1>5, <1>6, <1>9 DEF NameInv, CanonicalSettled

LEMMA RestartNames ==
    ASSUME ~Lazy, TypeInv, NameInv, Restart
    PROVE  NameInv'
<1>1. store \in Seq(Doc) /\ docs' \in SetToSeqs(Range(store)) /\ UNCHANGED <<store, nextId>>
  BY DEF TypeInv, SharedOK, Restart
<1>2. \A i, j \in 1..Len(store) :
         store[i].path = store[j].path /\ store[i].path \in Canonical => i = j
  BY <1>1, RowsUnique DEF CanonicalRowUnique
<1>3. /\ docs' \in Seq(Doc)
      /\ {Name(docs'[i]) : i \in 1..Len(docs')} = RowNames
      /\ \A i, j \in 1..Len(docs') :
            docs'[i].path = docs'[j].path /\ docs'[i].path \in Canonical => i = j
  BY <1>1, <1>2, BootNames DEF RowNames
<1>4. DocNames' = RowNames /\ RowNames' = RowNames
  BY <1>1, <1>3 DEF DocNames, RowNames
<1>5. CanonicalUnique' /\ RowIdsUnique'
  BY <1>1, <1>3 DEF CanonicalUnique, RowIdsUnique, NameInv
<1>6. Names' = RowNames /\ Settled' = RowNames /\ SafeCalls'
  <2>1. pc' = [p \in Procs |-> "idle"] /\ loc' = [p \in Procs |-> NoLocals]
    BY DEF Restart
  <2>2. \A p \in Procs : /\ CallNames(pc'[p], loc'[p]) = {}
                         /\ CallSettled(pc'[p], loc'[p]) = {} /\ SafeCall(pc'[p], loc'[p])
    BY <2>1, IdleNames
  <2> QED
    BY <1>4, <2>2 DEF Names, Settled, SafeCalls
<1>7. Names' \subseteq Names
  BY <1>6 DEF Names
<1>8. IdsBound'
  BY <1>1, <1>7, BoundKept DEF NameInv
<1> QED
  BY <1>4, <1>5, <1>6, <1>8 DEF NameInv, CanonicalSettled

(* The calls of SafeOps never reach the load and the delete steps. *)
LEMMA SafeSteps ==
    ASSUME ~Lazy, Ops \subseteq SafeOps, TypeInv, NameInv, NEW p \in Procs, Step(p)
    PROVE  \/ AddStart(p) \/ AddCanonicalLookup(p) \/ IdenticalInDocs(p)
           \/ IdenticalInStore(p) \/ AddWrite(p) \/ AddResolve(p)
           \/ Invalidate(p) \/ PutValidate(p) \/ PutCommit(p) \/ StoreError(p)
           \/ UpdateStart(p) \/ UpdateFetch(p) \/ UpdateWrite(p) \/ UpdateLookup(p)
           \/ RefreshStart(p) \/ RefreshSetVector(p) \/ IndexUpsert(p)
           \/ SearchStart(p) \/ SearchFill(p)
<1>1. CallOK(pc[p], loc[p]) /\ SafeCall(pc[p], loc[p])
  BY DEF TypeInv, ControlOK, NameInv, SafeCalls
<1>2. pc[p] \notin {"load", "install", "remove", "delLookup", "delCommit", "evict"}
  BY <1>1 DEF CallOK, OpsAt, SafeCall, SafeOps
<1>3. ~DeleteStart(p) /\ ~DropStart(p)
  <2>1. \A k : /\ [NoLocals EXCEPT !.op = "delete", !.key = k].op = "delete"
               /\ [NoLocals EXCEPT !.op = "deletePath", !.key = k].op = "deletePath"
               /\ [NoLocals EXCEPT !.op = "drop", !.key = k].op = "drop"
    BY NoLocalsFact DEF Locals
  <2> QED
    BY <2>1 DEF DeleteStart, DropStart, Begin, SafeOps
<1>4. ~GetStart(p) /\ ~LoadSnapshot(p) /\ ~LoadInstall(p)
  BY <1>2 DEF GetStart, LoadSnapshot, LoadInstall
<1>5. ~DeleteFromDocs(p) /\ ~StoreDeleteLookup(p) /\ ~StoreDeleteCommit(p) /\ ~DropEvict(p)
  BY <1>2 DEF DeleteFromDocs, StoreDeleteLookup, StoreDeleteCommit, DropEvict
<1> QED
  BY <1>3, <1>4, <1>5 DEF Step

(* Every step keeps the names. *)
LEMMA StepNames ==
    ASSUME ~Lazy, Ops \subseteq SafeOps, TypeInv, NameInv, [Next]_vars
    PROVE  NameInv'
<1>1. ASSUME NEW p \in Procs, Step(p)  PROVE NameInv'
  BY <1>1, SafeSteps, AddNames, AddWriteNames, PutStep, PutPathNames, UpdateNames,
     RefreshSearchNames
<1>2. CASE UNCHANGED vars
  <2>1. /\ DocNames' = DocNames /\ RowNames' = RowNames /\ Names' = Names /\ Settled' = Settled
    BY <1>2 DEF vars, DocNames, RowNames, Names, Settled
  <2> QED
    BY <1>2, <2>1 DEF vars, NameInv, IdsBound, MintedIds, CanonicalSettled, CanonicalUnique,
                      RowIdsUnique, SafeCalls
<1> QED
  BY <1>1, <1>2, RestartNames DEF Next

(* In an eagerly loaded memory whose callers add, update, refresh and search, *)
(* however they interleave, whatever the store's errors and restarts do:      *)
(* both inductive invariants hold.                                            *)
LEMMA NamesHold ==
    ASSUME ~Lazy, Ops \subseteq SafeOps
    PROVE  Spec => [](TypeInv /\ NameInv)
<1>1. Init => TypeInv /\ NameInv
  BY InitType, InitNames
<1>2. TypeInv /\ NameInv /\ [Next]_vars => (TypeInv /\ NameInv)'
  BY StepType, StepNames
<1> QED
  BY <1>1, <1>2, PTL DEF Spec

(* In such a memory the index has one document per canonical path             *)
(* (qmd/writer.rs, add_document's search for an existing document).           *)
THEOREM OneRecordPerCanonicalPath ==
    ASSUME ~Lazy, Ops \subseteq SafeOps
    PROVE  Spec => []CanonicalUnique
<1>1. TypeInv /\ NameInv => CanonicalUnique
  BY DEF NameInv
<1> QED
  BY <1>1, NamesHold, PTL

(* In such a memory memory_records has one row per canonical path, although   *)
(* the row is written after the lock on the index is released.                *)
THEOREM OneRowPerCanonicalPath ==
    ASSUME ~Lazy, Ops \subseteq SafeOps
    PROVE  Spec => []CanonicalRowUnique
<1>1. TypeInv /\ NameInv => CanonicalRowUnique
  BY RowsUnique
<1> QED
  BY <1>1, NamesHold, PTL
-----------------------------------------------------------------------------
(* The index and the store agree on the names of canonical records.           *)
(*                                                                            *)
(* That a row has the name the index has is CanonicalSettled.  Conversely a   *)
(* document is written to the index before its row is: until then the caller  *)
(* that wrote it is on its way to the put, and the put ends with the row of   *)
(* that name, because put_validate can only find the id the index has.        *)

(* A call that has written its document to the index and not yet its row. *)
Pushing(label, l) ==
    /\ label \in {"invalidate", "updById", "updByPath", "putValidate", "putCommit"}
    /\ l.op \in {"add", "update"}

DocsReachStore ==
    \A n \in DocNames : n[2] \in Canonical =>
        n \in RowNames \/ \E p \in Procs : Pushing(pc[p], loc[p]) /\ Name(loc[p].doc) = n

(* A write to the index brings at most the name of the document written. *)
LEMMA PlaceNames ==
    ASSUME docs \in Seq(Doc), NEW i \in 0..Len(docs), NEW d \in Doc, PlaceAt(i, d)
    PROVE  DocNames' \subseteq DocNames \cup {Name(d)}
<1>1. CASE i = 0
  BY <1>1, PushNames DEF PlaceAt
<1>2. CASE i # 0
  <2>1. i \in 1..Len(docs) /\ docs' = [docs EXCEPT ![i] = d]
    BY <1>2 DEF PlaceAt
  <2>2. Len(docs') = Len(docs) /\ \A j \in 1..Len(docs) : docs'[j] = IF j = i THEN d ELSE docs[j]
    BY <2>1, ExceptSeq
  <2> QED
    BY <2>2 DEF DocNames
<1> QED
  BY <1>1, <1>2

(* The rows after a put: the row written and those that were there, without   *)
(* the one it replaces.                                                       *)
LEMMA PutRows ==
    ASSUME store \in Seq(Doc), NEW row \in Doc, store' = StorePut(row)
    PROVE  /\ \A i \in 1..Len(store') :
                 store'[i] = row \/ \E m \in 1..Len(store) : store'[i] = store[m]
           /\ \E i \in 1..Len(store') : store'[i] = row
           /\ \A m \in 1..Len(store) :
                 store[m].id = row.id \/ \E i \in 1..Len(store') : store'[i] = store[m]
<1> DEFINE rest == RowsWithout(row.id)
           k == IdPos(store, row.id)
<1>1. /\ rest \in Seq(Doc)
      /\ \A i \in 1..Len(rest) : \E m \in 1..Len(store) : rest[i] = store[m]
      /\ \A m \in 1..Len(store) : m # k => \E i \in 1..Len(rest) : rest[i] = store[m]
  <2>1. CASE k = 0
    BY <2>1 DEF RowsWithout
  <2>2. CASE k # 0
    <3>1. k \in 1..Len(store) /\ Len(store) \in Nat
      BY <2>2, IdPosFact
    <3>2. rest = RemoveAt(store, k)
      BY <2>2 DEF RowsWithout
    <3> HIDE DEF k, rest
    <3>3. /\ rest \in Seq(Doc) /\ Len(rest) = Len(store) - 1
          /\ \A j \in 1..(Len(store) - 1) : rest[j] = IF j < k THEN store[j] ELSE store[j + 1]
      BY <3>1, <3>2, RemoveAtFact
    <3>4. \A i \in 1..Len(rest) : \E m \in 1..Len(store) : rest[i] = store[m]
      BY <3>1, <3>3
    <3>5. ASSUME NEW m \in 1..Len(store), m # k
          PROVE  \E i \in 1..Len(rest) : rest[i] = store[m]
      <4>1. CASE m < k
        <5>1. m \in 1..Len(rest)
          BY <3>1, <3>3, <4>1
        <5> QED
          BY <3>3, <4>1, <5>1
      <4>2. CASE ~(m < k)
        <5>1. m - 1 \in 1..Len(rest) /\ ~(m - 1 < k) /\ m - 1 + 1 = m
          BY <3>1, <3>3, <3>5, <4>2
        <5> QED
          BY <3>3, <5>1
      <4> QED
        BY <4>1, <4>2
    <3> QED
      BY <3>3, <3>4, <3>5
  <2> QED
    BY <2>1, <2>2
<1>2. k # 0 => k \in 1..Len(store) /\ store[k].id = row.id
  BY IdPosFact
<1>3. store' = Append(rest, row)
  BY DEF StorePut
<1> HIDE DEF rest, k
<1>4. /\ Len(store') = Len(rest) + 1 /\ Len(rest) \in Nat
      /\ \A i \in 1..Len(rest) : store'[i] = rest[i]
      /\ store'[Len(rest) + 1] = row
  BY <1>1, <1>3, AppendProperties
<1>5. /\ \A i \in 1..Len(store') : i \in 1..Len(rest) \/ i = Len(rest) + 1
      /\ \A i \in 1..Len(rest) : i \in 1..Len(store')
      /\ Len(rest) + 1 \in 1..Len(store')
  BY <1>4
<1>6. ASSUME NEW m \in 1..Len(store), store[m].id # row.id
      PROVE  \E i \in 1..Len(store') : store'[i] = store[m]
  <2>1. m # k
    BY <1>2, <1>6
  <2>2. PICK i \in 1..Len(rest) : rest[i] = store[m]
    BY <1>1, <2>1
  <2> QED
    BY <1>4, <1>5, <2>2
<1>7. ASSUME NEW i \in 1..Len(store')
      PROVE  store'[i] = row \/ \E m \in 1..Len(store) : store'[i] = store[m]
  <2>1. CASE i \in 1..Len(rest)
    BY <1>1, <1>4, <2>1
  <2>2. CASE i = Len(rest) + 1
    BY <1>4, <2>2
  <2> QED
    BY <1>5, <2>1, <2>2
<1>8. \E i \in 1..Len(store') : store'[i] = row
  BY <1>4, <1>5
<1> QED
  BY <1>6, <1>7, <1>8

(* A put leaves every name in the store, and adds its own. *)
LEMMA PutKeepsNames ==
    ASSUME store \in Seq(Doc), NEW row \in Doc, store' = StorePut(row),
           \A i \in 1..Len(store) : store[i].id = row.id => store[i].path = row.path
    PROVE  RowNames \cup {Name(row)} \subseteq RowNames'
<1>1. /\ \E i \in 1..Len(store') : store'[i] = row
      /\ \A m \in 1..Len(store) :
            store[m].id = row.id \/ \E i \in 1..Len(store') : store'[i] = store[m]
  BY PutRows
<1>2. Name(row) \in RowNames'
  BY <1>1 DEF RowNames
<1>3. ASSUME NEW m \in 1..Len(store)  PROVE Name(store[m]) \in RowNames'
  <2>1. CASE store[m].id = row.id
    <3>1. Name(store[m]) = Name(row)
      BY <2>1 DEF Name
    <3> QED
      BY <1>2, <3>1
  <2>2. CASE store[m].id # row.id
    BY <1>1, <2>2 DEF RowNames
  <2> QED
    BY <2>1, <2>2
<1> QED
  BY <1>2, <1>3 DEF RowNames

(* A step of p: no name of the store is lost, a name that is new in the index *)
(* is pushed by p, and p stops pushing a name only when the store has it.     *)
LEMMA PushedStep ==
    ASSUME TypeInv, DocsReachStore, NEW p \in Procs, NEW label, NEW l, Moves(p, label, l),
           RowNames \subseteq RowNames',
           \A n \in DocNames' : n[2] \in Canonical =>
              n \in DocNames \/ (Pushing(label, l) /\ Name(l.doc) = n),
           Pushing(pc[p], loc[p]) /\ loc[p].doc.path \in Canonical =>
              Name(loc[p].doc) \in RowNames' \/ (Pushing(label, l) /\ Name(l.doc) = Name(loc[p].doc))
    PROVE  DocsReachStore'
<1>1. /\ pc'[p] = label /\ loc'[p] = l
      /\ \A q \in Procs : q # p => pc'[q] = pc[q] /\ loc'[q] = loc[q]
  BY DEF Moves, TypeInv, ControlOK
<1>2. SUFFICES ASSUME NEW n \in DocNames', n[2] \in Canonical
               PROVE  \/ n \in RowNames'
                      \/ \E q \in Procs : Pushing(pc'[q], loc'[q]) /\ Name(loc'[q].doc) = n
  BY DEF DocsReachStore
<1>3. CASE Pushing(label, l) /\ Name(l.doc) = n
  BY <1>1, <1>3
<1>4. CASE n \in RowNames
  BY <1>4
<1>5. ASSUME NEW q \in Procs, Pushing(pc[q], loc[q]), Name(loc[q].doc) = n
      PROVE  \/ n \in RowNames'
             \/ \E r \in Procs : Pushing(pc'[r], loc'[r]) /\ Name(loc'[r].doc) = n
  <2>1. CASE q = p
    <3>1. loc[p].doc.path \in Canonical
      BY <1>2, <1>5, <2>1 DEF Name
    <3> QED
      BY <1>1, <1>5, <2>1, <3>1
  <2>2. CASE q # p
    BY <1>1, <1>5, <2>2
  <2> QED
    BY <2>1, <2>2
<1> QED
  BY <1>2, <1>3, <1>4, <1>5 DEF DocsReachStore

(* A step of p that writes neither the index nor the store. *)
LEMMA PushedQuiet ==
    ASSUME TypeInv, DocsReachStore, NEW p \in Procs, NEW label, NEW l, Moves(p, label, l),
           UNCHANGED <<docs, store>>,
           Pushing(pc[p], loc[p]) => Pushing(label, l) /\ l.doc = loc[p].doc
    PROVE  DocsReachStore'
<1>1. DocNames' = DocNames /\ RowNames' = RowNames
  BY DEF DocNames, RowNames
<1> QED
  BY <1>1, PushedStep

(* The calls that push nothing yet. *)
LEMMA PushedLookups ==
    ASSUME ~Lazy, TypeInv, NameInv, DocsReachStore, NEW p \in Procs,
           \/ AddStart(p) \/ AddCanonicalLookup(p) \/ IdenticalInDocs(p)
           \/ IdenticalInStore(p) \/ AddResolve(p) \/ UpdateStart(p) \/ UpdateFetch(p)
           \/ RefreshStart(p) \/ RefreshSetVector(p) \/ SearchStart(p) \/ SearchFill(p)
    PROVE  DocsReachStore'
<1>1. ~Pushing(pc[p], loc[p]) /\ UNCHANGED <<docs, store>>
  BY DEF Pushing, AddStart, AddCanonicalLookup, IdenticalInDocs, IdenticalInStore, AddResolve,
         UpdateStart, UpdateFetch, RefreshStart, RefreshSetVector, SearchStart, SearchFill,
         Begin
<1>2. \E label, l : Moves(p, label, l)
  <2>1. \A label, l : Goto(p, label, l) \/ Begin(p, label, l) => Moves(p, label, l)
    BY GotoMoves
  <2>2. \A id : Return(p, id) => Moves(p, "idle", NoLocals)
    BY ReturnMoves
  <2>3. CASE AddStart(p)
    BY <2>1, <2>2, <2>3 DEF AddStart
  <2>4. CASE AddCanonicalLookup(p)
    BY <2>1, <2>2, <2>4 DEF AddCanonicalLookup, Mint
  <2>5. CASE IdenticalInDocs(p)
    BY <2>1, <2>2, <2>5 DEF IdenticalInDocs, IdenticalFound
  <2>6. CASE IdenticalInStore(p)
    <3>1. loc[p].then \in {"mint", "write", "return"}
      BY DEF TypeInv, ControlOK, Locals
    <3> QED
      BY <2>1, <2>2, <2>6, <3>1 DEF IdenticalInStore, IdenticalFound, Mint
  <2>7. CASE AddResolve(p)
    BY <2>1, <2>2, <2>7 DEF AddResolve
  <2>8. CASE UpdateStart(p)
    BY <2>1, <2>8 DEF UpdateStart
  <2>9. CASE UpdateFetch(p)
    BY <2>1, <2>2, <2>9 DEF UpdateFetch, UpdateFound
  <2>10. CASE RefreshStart(p)
    BY <2>1, <2>10 DEF RefreshStart
  <2>11. CASE RefreshSetVector(p)
    BY <2>1, <2>2, <2>11 DEF RefreshSetVector
  <2>12. CASE SearchStart(p)
    BY <2>1, <2>12 DEF SearchStart
  <2>13. CASE SearchFill(p)
    BY <2>2, <2>13 DEF SearchFill
  <2> QED
    BY <2>3, <2>4, <2>5, <2>6, <2>7, <2>8, <2>9, <2>10, <2>11, <2>12, <2>13
<1> QED
  BY <1>1, <1>2, PushedQuiet

(* The writes to the index. *)
LEMMA PushedWrites ==
    ASSUME TypeInv, NameInv, DocsReachStore, NEW p \in Procs,
           AddWrite(p) \/ UpdateWrite(p) \/ IndexUpsert(p)
    PROVE  DocsReachStore'
<1> DEFINE d == loc[p].doc
<1>1. /\ docs \in Seq(Doc) /\ loc[p] \in Locals /\ d \in Doc /\ CallOK(pc[p], loc[p])
      /\ ~Pushing(pc[p], loc[p]) /\ UNCHANGED store /\ SafeCall(pc[p], loc[p])
  BY DEF TypeInv, SharedOK, ControlOK, AddWrite, UpdateWrite, IndexUpsert, CallOK, HasId, OpsAt,
         Locals, Draft, Doc, Pushing, NameInv, SafeCalls
<1>2. RowNames' = RowNames
  BY <1>1 DEF RowNames
<1>3. CASE AddWrite(p)
  <2> DEFINE i == PathPos(docs, d.path)
             kept == [d EXCEPT !.id = docs[i].id]
  <2>1. loc[p].op = "add"
    BY <1>1, <1>3 DEF AddWrite, CallOK, OpsAt
  <2>2. CASE (\E id : Return(p, id)) /\ UNCHANGED docs
    BY <1>1, <2>2, ReturnMoves, PushedQuiet
  <2>3. CASE i # 0 /\ PlaceAt(i, kept) /\ Goto(p, "invalidate", [loc[p] EXCEPT !.doc = kept])
    <3>1. i \in 1..Len(docs) /\ docs[i].path = d.path /\ docs[i].id \in Ids
      BY <1>1, <2>3, PathPosFact, FoundFact
    <3>2. kept \in Doc /\ i \in 0..Len(docs)
      BY <1>1, <3>1 DEF Doc
    <3>3. Name(kept) \in DocNames
      BY <1>1, <3>1, <3>2 DEF Name, DocNames, Doc
    <3>4. Moves(p, "invalidate", [loc[p] EXCEPT !.doc = kept])
      BY <2>3, GotoMoves
    <3> HIDE DEF i, kept, d
    <3>5. DocNames' \subseteq DocNames
      BY <1>1, <2>3, <3>2, <3>3, PlaceNames
    <3> QED
      BY <1>1, <1>2, <3>4, <3>5, PushedStep
  <2>4. CASE PlaceAt(0, d) /\ Goto(p, "invalidate", loc[p])
    <3>1. DocNames' \subseteq DocNames \cup {Name(d)}
      BY <1>1, <2>4, PlaceNames
    <3>2. Pushing("invalidate", loc[p]) /\ Moves(p, "invalidate", loc[p])
      BY <2>1, <2>4, GotoMoves DEF Pushing
    <3> QED
      BY <1>1, <1>2, <3>1, <3>2, PushedStep
  <2>5. CASE Goto(p, "resolve", loc[p]) /\ UNCHANGED docs
    BY <1>1, <2>5, GotoMoves, PushedQuiet
  <2> QED
    BY <1>3, <2>2, <2>3, <2>4, <2>5 DEF AddWrite
<1>4. CASE UpdateWrite(p) \/ IndexUpsert(p)
  <2>1. /\ PlaceAt(NamePos(docs, d), d) /\ Goto(p, "invalidate", loc[p])
        /\ pc[p] \in {"updWrite", "upsert"} /\ NamePos(docs, d) \in 0..Len(docs)
    BY <1>1, <1>4, NamePosFact DEF UpdateWrite, IndexUpsert
  <2>2. DocNames' \subseteq DocNames \cup {Name(d)}
    BY <1>1, <2>1, PlaceNames
  <2>3. d.path \in Canonical => Name(d) \in DocNames
    <3>1. Name(d) \in Settled
      BY <2>1, HeldNames DEF CallSettled, Settling
    <3> QED
      BY <3>1 DEF NameInv, CanonicalSettled, Name
  <2>4. \A n \in DocNames' : n[2] \in Canonical => n \in DocNames
    BY <2>2, <2>3 DEF Name
  <2>5. Moves(p, "invalidate", loc[p])
    BY <2>1, GotoMoves
  <2> QED
    BY <1>1, <1>2, <2>4, <2>5, PushedStep
<1> QED
  BY <1>3, <1>4

(* The way to the put.  The store does not fail, so every push arrives. *)
LEMMA PushedPut ==
    ASSUME ~StoreMayFail, TypeInv, NameInv, DocsReachStore, NEW p \in Procs,
           Invalidate(p) \/ PutValidate(p) \/ UpdateLookup(p) \/ PutCommit(p)
    PROVE  DocsReachStore'
<1>1. /\ CallOK(pc[p], loc[p]) /\ loc[p] \in Locals /\ SafeCall(pc[p], loc[p])
      /\ store \in Seq(Doc)
  BY DEF TypeInv, SharedOK, ControlOK, NameInv, SafeCalls
<1>2. CASE Invalidate(p) /\ loc[p].op = "add"
  <2> DEFINE l == [loc[p] EXCEPT !.key = loc[p].doc.id]
             label == PutLabel(loc[p].doc.path)
  <2>1. l.doc = loc[p].doc /\ Pushing(label, l) /\ UNCHANGED <<docs, store>>
    BY <1>1, <1>2 DEF Locals, Pushing, PutLabel, Invalidate
  <2>2. Moves(p, label, l)
    BY <1>2, GotoMoves DEF Invalidate
  <2> QED
    BY <2>1, <2>2, PushedQuiet
<1>3. CASE Invalidate(p) /\ loc[p].op = "update"
  <2>1. Moves(p, "updById", loc[p]) /\ Pushing("updById", loc[p]) /\ UNCHANGED <<docs, store>>
    BY <1>3, GotoMoves DEF Invalidate, Pushing
  <2> QED
    BY <2>1, PushedQuiet
<1>4. CASE Invalidate(p) /\ loc[p].op = "refresh"
  <2>1. Return(p, NoId) /\ ~Pushing(pc[p], loc[p]) /\ UNCHANGED <<docs, store>>
    BY <1>4 DEF Invalidate, Pushing
  <2> QED
    BY <2>1, ReturnMoves, PushedQuiet
<1>5. CASE PutValidate(p) \/ UpdateLookup(p)
  <2>1. UNCHANGED <<docs, store>>
    BY <1>5 DEF PutValidate, UpdateLookup
  <2>2. loc[p].op \in {"add", "update"}
    BY <1>1, <1>5 DEF PutValidate, UpdateLookup, CallOK, OpsAt, SafeCall, SafeOps
  <2>3. PICK label, l : /\ label \in {"putValidate", "putCommit", "updByPath"}
                        /\ Goto(p, label, l)
                        /\ l = loc[p] \/ \E id : l = [loc[p] EXCEPT !.key = id]
    BY <1>5 DEF PutValidate, UpdateLookup, PutLabel
  <2>4. l.doc = loc[p].doc /\ l.op = loc[p].op
    BY <1>1, <2>3 DEF Locals
  <2>5. Pushing(label, l) /\ Moves(p, label, l)
    BY <2>2, <2>3, <2>4, GotoMoves DEF Pushing
  <2> QED
    BY <2>1, <2>4, <2>5, PushedQuiet
<1>6. CASE PutCommit(p)
  <2> DEFINE row == [loc[p].doc EXCEPT !.id = loc[p].key]
  <2>1. /\ pc[p] = "putCommit" /\ store' = StorePut(row) /\ UNCHANGED docs /\ loc[p].key \in Ids
    BY <1>1, <1>6 DEF PutCommit, CallOK
  <2>2. row \in Doc /\ Name(row) = <<loc[p].key, loc[p].doc.path>> /\ row.id = loc[p].key
        /\ row.path = loc[p].doc.path
    BY <1>1, <2>1 DEF Doc, Draft, Locals, Name
  <2>3. /\ Name(row) \in Settled /\ Name(row) \in Names /\ Name(loc[p].doc) \in Settled
    BY <2>1, <2>2, HeldNames DEF CallSettled, CallNames, Settling
  <2>4. ASSUME NEW i \in 1..Len(store), store[i].id = row.id
        PROVE  store[i].path = row.path
    <3>1. Name(store[i]) \in Names
      BY HeldNames DEF RowNames
    <3> QED
      BY <2>3, <2>4, <3>1 DEF NameInv, IdsBound, Name
  <2> HIDE DEF row
  <2>5. RowNames \cup {Name(row)} \subseteq RowNames'
    BY <1>1, <2>1, <2>2, <2>4, PutKeepsNames
  <2>6. loc[p].doc.path \in Canonical => Name(loc[p].doc) = Name(row)
    <3> SUFFICES ASSUME loc[p].doc.path \in Canonical  PROVE Name(loc[p].doc) = Name(row)
      OBVIOUS
    <3>1. Name(loc[p].doc) \in DocNames /\ Name(row) \in DocNames
      BY <2>2, <2>3 DEF NameInv, CanonicalSettled, Name
    <3>2. PICK i \in 1..Len(docs) : Name(loc[p].doc) = Name(docs[i])
      BY <3>1 DEF DocNames
    <3>3. PICK j \in 1..Len(docs) : Name(row) = Name(docs[j])
      BY <3>1 DEF DocNames
    <3>4. docs[i].path = loc[p].doc.path /\ docs[j].path = loc[p].doc.path
      BY <2>2, <3>2, <3>3 DEF Name
    <3>5. docs \in Seq(Doc) /\ DOMAIN docs = 1..Len(docs)
      BY DEF TypeInv, SharedOK
    <3>6. i = j
      BY <3>4, <3>5 DEF NameInv, CanonicalUnique
    <3> QED
      BY <3>2, <3>3, <3>6
  <2>7. DocNames' = DocNames
    BY <2>1 DEF DocNames
  <2>8. \E label, l : Moves(p, label, l)
    BY <1>6, ReturnMoves, GotoMoves DEF PutCommit
  <2> QED
    BY <2>5, <2>6, <2>7, <2>8, PushedStep
<1>7. Invalidate(p) => loc[p].op \in {"add", "update", "refresh"}
  BY <1>1 DEF Invalidate, CallOK, OpsAt, SafeCall, SafeOps
<1> QED
  BY <1>2, <1>3, <1>4, <1>5, <1>6, <1>7

(* The rows an index is built from give it its names. *)
LEMMA PushedBoot ==
    ASSUME store \in Seq(Doc), docs \in SetToSeqs(Range(store))
    PROVE  DocsReachStore
<1>1. /\ IsFiniteSet(Range(store)) /\ Range(store) \in SUBSET Doc
      /\ \A e \in Range(store) : \E i \in 1..Len(store) : e = store[i]
  BY RangeFact
<1>2. \A i \in 1..Len(docs) : docs[i] \in Range(store)
  BY <1>1, SetToSeqsFact
<1>3. DocNames \subseteq RowNames
  BY <1>1, <1>2 DEF DocNames, RowNames
<1> QED
  BY <1>3 DEF DocsReachStore

LEMMA PushedNext ==
    ASSUME ~Lazy, ~StoreMayFail, Ops \subseteq SafeOps, TypeInv, NameInv, DocsReachStore,
           [Next]_vars
    PROVE  DocsReachStore'
<1>1. ASSUME NEW p \in Procs, Step(p)  PROVE DocsReachStore'
  <2>1. ~StoreError(p)
    BY DEF StoreError
  <2> QED
    BY <1>1, <2>1, SafeSteps, PushedLookups, PushedWrites, PushedPut
<1>2. CASE Restart
  <2>1. store \in Seq(Doc) /\ docs' \in SetToSeqs(Range(store)) /\ UNCHANGED store
    BY <1>2 DEF TypeInv, SharedOK, Restart
  <2>2. /\ IsFiniteSet(Range(store)) /\ Range(store) \in SUBSET Doc
        /\ \A e \in Range(store) : \E i \in 1..Len(store) : e = store[i]
    BY <2>1, RangeFact
  <2>3. \A i \in 1..Len(docs') : docs'[i] \in Range(store)
    BY <2>1, <2>2, SetToSeqsFact
  <2>4. DocNames' \subseteq RowNames'
    BY <2>1, <2>2, <2>3 DEF DocNames, RowNames
  <2> QED
    BY <2>4 DEF DocsReachStore
<1>3. CASE UNCHANGED vars
  <2>1. DocNames' = DocNames /\ RowNames' = RowNames /\ pc' = pc /\ loc' = loc
    BY <1>3 DEF vars, DocNames, RowNames
  <2> QED
    BY <2>1 DEF DocsReachStore
<1> QED
  BY <1>1, <1>2, <1>3 DEF Next

(* With a store that does not fail and canonical records only, the index and  *)
(* memory_records name the same records whenever no call is running, however  *)
(* adds, updates, embedding refreshes and restarts interleave (qmd/writer.rs, *)
(* add_validated and update; sqlite_vec_store, put_validate).                 *)
THEOREM IndexAndStoreAgree ==
    ASSUME ~Lazy, ~StoreMayFail, Canonical = Paths, Ops \subseteq SafeOps
    PROVE  Spec => []IndexNamesStore
<1>1. Init => DocsReachStore
  <2>1. Init => store \in Seq(Doc) /\ docs \in SetToSeqs(Range(store))
    BY InitType DEF TypeInv, SharedOK, Init
  <2> QED
    BY <2>1, PushedBoot
<1>2. TypeInv /\ NameInv /\ DocsReachStore /\ [Next]_vars => DocsReachStore'
  BY PushedNext
<1>3. TypeInv /\ NameInv /\ DocsReachStore => IndexNamesStore
  <2> SUFFICES ASSUME TypeInv, NameInv, DocsReachStore, Quiescent
               PROVE  {Name(d) : d \in Range(docs)} = {Name(r) : r \in Range(store)}
    BY DEF IndexNamesStore, Name
  <2>1. docs \in Seq(Doc) /\ store \in Seq(Doc)
    BY DEF TypeInv, SharedOK
  <2>2. {Name(d) : d \in Range(docs)} = DocNames /\ {Name(r) : r \in Range(store)} = RowNames
    <3>1. /\ \A i \in 1..Len(docs) : docs[i] \in Range(docs)
          /\ \A e \in Range(docs) : \E i \in 1..Len(docs) : e = docs[i]
      BY <2>1, RangeFact
    <3>2. /\ \A i \in 1..Len(store) : store[i] \in Range(store)
          /\ \A e \in Range(store) : \E i \in 1..Len(store) : e = store[i]
      BY <2>1, RangeFact
    <3> QED
      BY <3>1, <3>2 DEF DocNames, RowNames
  <2>3. \A n \in DocNames \cup RowNames : n[2] \in Canonical
    BY <2>1, FoundFact DEF DocNames, RowNames, Name
  <2>4. DocNames \subseteq RowNames
    <3>1. \A p \in Procs : ~Pushing(pc[p], loc[p])
      BY DEF Quiescent, Pushing
    <3> QED
      BY <2>3, <3>1 DEF DocsReachStore
  <2>5. RowNames \subseteq DocNames
    BY <2>3 DEF NameInv, CanonicalSettled, Settled
  <2> QED
    BY <2>2, <2>4, <2>5
<1> QED
  BY <1>1, <1>2, <1>3, NamesHold, PTL DEF Spec
-----------------------------------------------------------------------------
(* Retried adds.                                                              *)
(*                                                                            *)
(* With callers that only add and search, a record of a non-canonical path    *)
(* (a note) is never changed or removed once it is in the index, and a row    *)
(* of the store is a note that is there.  So a call that once saw its content *)
(* in the index or the store finds it in the index for the rest of the call,  *)
(* and the id it answers is that of a record.                                 *)

RetryOps == {"add", "search"}

(* What holds of a call at a label when the index is s. *)
RetryCall(s, label, l) ==
    /\ l.op \in RetryOps \cup {"none"}
    /\ label \in {"identDocs", "identStore", "resolve"} => l.doc.path \notin Canonical
    /\ label \in {"invalidate", "putValidate", "putCommit"} =>
          \E j \in 1..Len(s) : s[j].id = l.doc.id /\ (l.doc.path \notin Canonical => s[j] = l.doc)
    /\ label = "putValidate" => l.doc.path \in Canonical
    /\ label = "putCommit" /\ l.doc.path \notin Canonical => l.key = l.doc.id
    /\ label = "resolve" \/ (label = "identDocs" /\ l.then = "return") =>
          \E j \in 1..Len(s) : IsIdentical(s[j], l.doc)
    /\ label = "identStore" => l.then # "return"

RetryCalls == \A p \in Procs : RetryCall(docs, pc[p], loc[p])

NotesIndexed ==
    \A i \in 1..Len(store) :
        store[i].path \notin Canonical => \E j \in 1..Len(docs) : docs[j] = store[i]

NotesDiffer ==
    \A i, j \in 1..Len(docs) :
        docs[i].path \notin Canonical /\ IsIdentical(docs[i], docs[j]) => i = j

KnownIds == {docs[i].id : i \in 1..Len(docs)} \cup {store[i].id : i \in 1..Len(store)}

AnswersKnown == \A p \in Procs : ret[p] # NoId => ret[p] \in KnownIds

RetryInv == RetryCalls /\ NotesIndexed /\ NotesDiffer /\ AnswersKnown

(* What no step but a restart undoes: a position keeps its id, a note stays. *)
DocsKept ==
    \A j \in 1..Len(docs) :
        /\ j \in 1..Len(docs')
        /\ docs'[j].id = docs[j].id
        /\ docs[j].path \notin Canonical => docs'[j] = docs[j]

LEMMA CallKept ==
    ASSUME DocsKept, NEW label, NEW l, RetryCall(docs, label, l)
    PROVE  RetryCall(docs', label, l)
<1>1. ASSUME label \in {"invalidate", "putValidate", "putCommit"}
      PROVE  \E j \in 1..Len(docs') :
                docs'[j].id = l.doc.id /\ (l.doc.path \notin Canonical => docs'[j] = l.doc)
  <2>1. PICK j \in 1..Len(docs) :
           docs[j].id = l.doc.id /\ (l.doc.path \notin Canonical => docs[j] = l.doc)
    BY <1>1 DEF RetryCall
  <2> QED
    BY <2>1 DEF DocsKept
<1>2. ASSUME label = "resolve" \/ (label = "identDocs" /\ l.then = "return")
      PROVE  \E j \in 1..Len(docs') : IsIdentical(docs'[j], l.doc)
  <2>1. PICK j \in 1..Len(docs) : IsIdentical(docs[j], l.doc)
    BY <1>2 DEF RetryCall
  <2>2. l.doc.path \notin Canonical
    BY <1>2 DEF RetryCall
  <2>3. docs[j].path \notin Canonical
    BY <2>1, <2>2 DEF IsIdentical
  <2> QED
    BY <2>1, <2>3 DEF DocsKept
<1> QED
  BY <1>1, <1>2 DEF RetryCall

(* A step of p that goes on at a label. *)
LEMMA RetryStep ==
    ASSUME TypeInv, RetryInv, NEW p \in Procs, NEW label, NEW l, Moves(p, label, l),
           DocsKept, RetryCall(docs', label, l), NotesIndexed', NotesDiffer',
           KnownIds \subseteq KnownIds', ret' \in [Procs -> Ids \cup {NoId}],
           \A q \in Procs : ret'[q] \in {ret[q], NoId} \cup KnownIds'
    PROVE  RetryInv'
<1>1. /\ pc'[p] = label /\ loc'[p] = l
      /\ \A q \in Procs : q # p => pc'[q] = pc[q] /\ loc'[q] = loc[q]
  BY DEF Moves, TypeInv, ControlOK
<1>2. RetryCalls'
  <2>1. SUFFICES ASSUME NEW q \in Procs  PROVE RetryCall(docs', pc'[q], loc'[q])
    BY DEF RetryCalls
  <2>2. CASE q = p
    BY <1>1, <2>2
  <2>3. CASE q # p
    BY <1>1, <2>3, CallKept DEF RetryInv, RetryCalls
  <2> QED
    BY <2>2, <2>3
<1>3. AnswersKnown'
  BY DEF RetryInv, AnswersKnown
<1> QED
  BY <1>2, <1>3 DEF RetryInv

(* A step that writes neither the index nor the store. *)
LEMMA RetryQuiet ==
    ASSUME TypeInv, RetryInv, NEW p \in Procs, UNCHANGED <<docs, store>>,
           NEW label, NEW l, RetryCall(docs, label, l), Goto(p, label, l) \/ Begin(p, label, l)
    PROVE  RetryInv'
<1>1. DocsKept /\ KnownIds' = KnownIds /\ NotesIndexed' /\ NotesDiffer' /\ RetryCall(docs', label, l)
  BY DEF DocsKept, KnownIds, RetryInv, NotesIndexed, NotesDiffer
<1>2. Moves(p, label, l)
  BY GotoMoves
<1>3. /\ ret' \in [Procs -> Ids \cup {NoId}]
      /\ \A q \in Procs : ret'[q] \in {ret[q], NoId}
  BY DEF TypeInv, ControlOK, Goto, Begin
<1> QED
  BY <1>1, <1>2, <1>3, RetryStep

LEMMA IdleRetry == \A s : RetryCall(s, "idle", NoLocals)
BY DEF RetryCall, NoLocals

(* An answer is the id of a record, or none. *)
LEMMA RetryReturn ==
    ASSUME TypeInv, RetryInv, NEW p \in Procs, NEW id \in Ids \cup {NoId}, Return(p, id),
           DocsKept, NotesIndexed', NotesDiffer', KnownIds \subseteq KnownIds',
           id # NoId => id \in KnownIds'
    PROVE  RetryInv'
<1>1. Moves(p, "idle", NoLocals)
  BY ReturnMoves
<1>2. /\ ret' \in [Procs -> Ids \cup {NoId}]
      /\ \A q \in Procs : ret'[q] \in {ret[q], id}
  BY DEF TypeInv, ControlOK, Return
<1> QED
  BY <1>1, <1>2, IdleRetry, RetryStep

LEMMA RetryAnswer ==
    ASSUME TypeInv, RetryInv, NEW p \in Procs, NEW id \in Ids \cup {NoId}, Return(p, id),
           UNCHANGED <<docs, store>>, id # NoId => id \in KnownIds
    PROVE  RetryInv'
<1>1. DocsKept /\ KnownIds' = KnownIds /\ NotesIndexed' /\ NotesDiffer'
  BY DEF DocsKept, KnownIds, RetryInv, NotesIndexed, NotesDiffer
<1> QED
  BY <1>1, RetryReturn

(* What a lookup by path finds is known. *)
LEMMA KnownFound ==
    ASSUME NEW s \in Seq(Doc), s = docs \/ s = store, NEW i \in 1..Len(s)
    PROVE  s[i].id \in KnownIds /\ s[i].id \in Ids
BY FoundFact DEF KnownIds

(* The lookups of an add. *)
LEMMA RetryLookups ==
    ASSUME TypeInv, RetryInv, NEW p \in Procs, AddStart(p) \/ AddCanonicalLookup(p)
    PROVE  RetryInv'
<1>1. docs \in Seq(Doc) /\ store \in Seq(Doc) /\ loc[p] \in Locals /\ RetryCall(docs, pc[p], loc[p])
  BY DEF TypeInv, SharedOK, ControlOK, RetryInv, RetryCalls
<1>2. CASE AddStart(p)
  <2>1. PICK path \in Paths, content \in Contents :
        LET d == [id |-> NoId, path |-> path, content |-> content]
            i == PathPos(docs, path)
            locals == [NoLocals EXCEPT !.op = "add", !.doc = d]
        IN  /\ IF path \notin Canonical THEN Begin(p, "identDocs", locals)
               ELSE IF i = 0 THEN Begin(p, "canonStore", locals)
               ELSE IF IsIdentical(docs[i], d)
               THEN /\ "add" \in Ops
                    /\ pc[p] = "idle"
                    /\ Return(p, docs[i].id)
               ELSE Begin(p, "write", [locals EXCEPT !.doc.id = docs[i].id])
            /\ UNCHANGED <<docs, cache, loaded, store, nextId, restarts>>
    BY <1>2 DEF AddStart
  <2> DEFINE d == [id |-> NoId, path |-> path, content |-> content]
             i == PathPos(docs, path)
             locals == [NoLocals EXCEPT !.op = "add", !.doc = d]
             known == [locals EXCEPT !.doc.id = docs[i].id]
  <2>2. UNCHANGED <<docs, store>>
    BY <2>1
  <2>3. /\ locals.op = "add" /\ locals.doc = d /\ d.path = path /\ locals.then = "mint"
        /\ known.op = "add"
    BY NoLocalsFact DEF Locals, NoLocals
  <2>4. i # 0 => i \in 1..Len(docs)
    BY <1>1, PathPosFact
  <2>5. \/ path \notin Canonical /\ Begin(p, "identDocs", locals)
        \/ Begin(p, "canonStore", locals)
        \/ i # 0 /\ Return(p, docs[i].id)
        \/ Begin(p, "write", known)
    BY <2>1
  <2> HIDE DEF d, i, locals, known
  <2>6. path \notin Canonical => RetryCall(docs, "identDocs", locals)
    BY <2>3 DEF RetryCall, RetryOps
  <2>7. RetryCall(docs, "canonStore", locals) /\ RetryCall(docs, "write", known)
    BY <2>3 DEF RetryCall, RetryOps
  <2>8. CASE i # 0 /\ Return(p, docs[i].id)
    BY <1>1, <2>2, <2>4, <2>8, KnownFound, RetryAnswer
  <2> QED
    BY <2>2, <2>5, <2>6, <2>7, <2>8, RetryQuiet
<1>3. CASE AddCanonicalLookup(p)
  <2> DEFINE i == PathPos(store, loc[p].doc.path)
  <2>1. pc[p] = "canonStore" /\ UNCHANGED <<docs, store>>
    BY <1>3 DEF AddCanonicalLookup
  <2>2. i # 0 => i \in 1..Len(store)
    BY <1>1, PathPosFact
  <2>3. \/ i # 0 /\ Return(p, store[i].id)
        \/ \E id : Goto(p, "write", [loc[p] EXCEPT !.doc.id = id])
        \/ Goto(p, "write", [loc[p] EXCEPT !.doc.id = nextId, !.then = "mint"])
    BY <1>3 DEF AddCanonicalLookup, Mint
  <2>4. /\ \A id : RetryCall(docs, "write", [loc[p] EXCEPT !.doc.id = id])
        /\ RetryCall(docs, "write", [loc[p] EXCEPT !.doc.id = nextId, !.then = "mint"])
    BY <1>1 DEF RetryCall, Locals
  <2>5. CASE i # 0 /\ Return(p, store[i].id)
    BY <1>1, <2>1, <2>2, <2>5, KnownFound, RetryAnswer
  <2> QED
    BY <2>1, <2>3, <2>4, <2>5, RetryQuiet
<1> QED
  BY <1>2, <1>3

(* identical_record_id, and the answer of an add that wrote nothing. *)
LEMMA RetryIdentical ==
    ASSUME TypeInv, RetryInv, NEW p \in Procs,
           IdenticalInDocs(p) \/ IdenticalInStore(p) \/ AddResolve(p)
    PROVE  RetryInv'
<1>1. /\ docs \in Seq(Doc) /\ store \in Seq(Doc) /\ loc[p] \in Locals
      /\ RetryCall(docs, pc[p], loc[p]) /\ CallOK(pc[p], loc[p])
  BY DEF TypeInv, SharedOK, ControlOK, RetryInv, RetryCalls
<1>2. UNCHANGED <<docs, store>> /\ pc[p] \in {"identDocs", "identStore", "resolve"}
  BY DEF IdenticalInDocs, IdenticalInStore, AddResolve
<1>3. loc[p].doc.path \notin Canonical /\ loc[p].then \in {"mint", "write", "return"}
      /\ loc[p].op \in RetryOps \cup {"none"}
  BY <1>1, <1>2 DEF RetryCall, Locals
<1>4. ASSUME NEW k \in 1..Len(docs), IsIdentical(docs[k], loc[p].doc),
             NEW id \in Ids, id \in KnownIds, IdenticalFound(p, id)
      PROVE  RetryInv'
  <2>1. CASE Goto(p, "resolve", loc[p])
    <3>1. RetryCall(docs, "resolve", loc[p])
      BY <1>3, <1>4 DEF RetryCall
    <3> QED
      BY <1>2, <2>1, <3>1, RetryQuiet
  <2>2. CASE Return(p, id)
    BY <1>2, <1>4, <2>2, RetryAnswer
  <2> QED
    BY <1>4, <2>1, <2>2 DEF IdenticalFound
<1>5. CASE IdenticalInDocs(p)
  <2> DEFINE i == TwinPos(docs, loc[p].doc)
  <2>1. /\ i # 0 => i \in 1..Len(docs) /\ IsIdentical(docs[i], loc[p].doc)
        /\ i = 0 => \A j \in 1..Len(docs) : ~IsIdentical(docs[j], loc[p].doc)
    BY <1>1, TwinPosFact
  <2>2. pc[p] = "identDocs"
    BY <1>5 DEF IdenticalInDocs
  <2>3. CASE i = 0
    <3>1. Goto(p, "identStore", loc[p])
      BY <1>5, <2>3 DEF IdenticalInDocs
    <3>2. RetryCall(docs, "identStore", loc[p])
      BY <1>1, <1>3, <2>1, <2>2, <2>3 DEF RetryCall
    <3> QED
      BY <1>2, <3>1, <3>2, RetryQuiet
  <2>4. CASE i # 0
    <3>1. IdenticalFound(p, docs[i].id)
      BY <1>5, <2>4 DEF IdenticalInDocs
    <3>2. docs[i].id \in KnownIds /\ docs[i].id \in Ids
      BY <1>1, <2>1, <2>4, KnownFound
    <3> QED
      BY <1>4, <2>1, <2>4, <3>1, <3>2
  <2> QED
    BY <2>3, <2>4
<1>6. CASE IdenticalInStore(p)
  <2> DEFINE i == PathPos(store, loc[p].doc.path)
             same == i # 0 /\ IsIdentical(store[i], loc[p].doc)
             minted == [loc[p] EXCEPT !.doc.id = nextId, !.then = "write"]
  <2>1. pc[p] = "identStore" /\ loc[p].then \in {"mint", "write"}
    BY <1>1, <1>3, <1>6 DEF IdenticalInStore, RetryCall
  <2>2. \/ same /\ IdenticalFound(p, store[i].id)
        \/ Goto(p, "identDocs", minted)
        \/ Goto(p, "write", loc[p])
    BY <1>6, <2>1 DEF IdenticalInStore, Mint
  <2>3. CASE same /\ IdenticalFound(p, store[i].id)
    <3>1. i \in 1..Len(store) /\ store[i].id \in KnownIds /\ store[i].id \in Ids
      BY <1>1, <2>3, PathPosFact, KnownFound
    <3>2. store[i].path \notin Canonical
      BY <1>3, <2>3 DEF IsIdentical
    <3>3. PICK k \in 1..Len(docs) : docs[k] = store[i]
      BY <3>1, <3>2 DEF RetryInv, NotesIndexed
    <3> QED
      BY <1>4, <2>3, <3>1, <3>3
  <2>4. CASE Goto(p, "identDocs", minted)
    <3>1. minted.doc.path = loc[p].doc.path /\ minted.then = "write" /\ minted.op = loc[p].op
      BY <1>1 DEF Locals, Draft
    <3>2. RetryCall(docs, "identDocs", minted)
      BY <1>3, <3>1 DEF RetryCall
    <3> QED
      BY <1>2, <2>4, <3>2, RetryQuiet
  <2>5. CASE Goto(p, "write", loc[p])
    <3>1. RetryCall(docs, "write", loc[p])
      BY <1>3 DEF RetryCall
    <3> QED
      BY <1>2, <2>5, <3>1, RetryQuiet
  <2> QED
    BY <2>2, <2>3, <2>4, <2>5
<1>7. CASE AddResolve(p)
  <2>1. pc[p] = "resolve"
    BY <1>7 DEF AddResolve
  <2>2. CASE (\E e \in Range(docs) : e.id = loc[p].doc.id) /\ Return(p, loc[p].doc.id)
    <3>1. PICK j \in 1..Len(docs) : docs[j].id = loc[p].doc.id
      BY <1>1, <2>2, RangeFact
    <3> QED
      BY <1>1, <1>2, <2>2, <3>1, KnownFound, RetryAnswer
  <2>3. CASE Goto(p, "identDocs", [loc[p] EXCEPT !.then = "return"])
    <3> DEFINE l == [loc[p] EXCEPT !.then = "return"]
    <3>1. l.doc = loc[p].doc /\ l.op = loc[p].op
      BY <1>1 DEF Locals
    <3>2. \E j \in 1..Len(docs) : IsIdentical(docs[j], loc[p].doc)
      BY <1>1, <2>1 DEF RetryCall
    <3> HIDE DEF l
    <3>3. RetryCall(docs, "identDocs", l)
      BY <1>3, <3>1, <3>2 DEF RetryCall
    <3> QED
      BY <1>2, <2>3, <3>3, RetryQuiet DEF l
  <2> QED
    BY <1>7, <2>2, <2>3 DEF AddResolve
<1> QED
  BY <1>5, <1>6, <1>7

(* A note is pushed when no document is identical to it. *)
LEMMA PushRetry ==
    ASSUME docs \in Seq(Doc), NEW d \in Doc, docs' = Append(docs, d), UNCHANGED store,
           NotesDiffer, NotesIndexed,
           d.path \notin Canonical => \A i \in 1..Len(docs) : ~IsIdentical(docs[i], d)
    PROVE  /\ DocsKept /\ NotesDiffer' /\ NotesIndexed' /\ KnownIds \subseteq KnownIds'
           /\ \E j \in 1..Len(docs') : docs'[j] = d
<1>1. /\ Len(docs') = Len(docs) + 1 /\ Len(docs) \in Nat
      /\ \A i \in 1..Len(docs) : docs'[i] = docs[i]
      /\ docs'[Len(docs) + 1] = d
  BY AppendProperties
<1>2. \A i \in 1..Len(docs) : i \in 1..Len(docs')
  BY <1>1
<1>3. \A i \in 1..Len(docs') : i \in 1..Len(docs) \/ i = Len(docs) + 1
  BY <1>1
<1>4. DocsKept /\ NotesIndexed'
  BY <1>1, <1>2 DEF DocsKept, NotesIndexed
<1>5. KnownIds \subseteq KnownIds'
  BY <1>1, <1>2 DEF KnownIds
<1>6. NotesDiffer'
  <2>1. SUFFICES ASSUME NEW i \in 1..Len(docs'), NEW j \in 1..Len(docs'),
                        docs'[i].path \notin Canonical, IsIdentical(docs'[i], docs'[j])
                 PROVE  i = j
    BY DEF NotesDiffer
  <2>2. CASE i \in 1..Len(docs) /\ j \in 1..Len(docs)
    BY <1>1, <2>1, <2>2 DEF NotesDiffer
  <2>3. CASE i \in 1..Len(docs) /\ j = Len(docs) + 1
    BY <1>1, <2>1, <2>3 DEF IsIdentical
  <2>4. CASE i = Len(docs) + 1 /\ j \in 1..Len(docs)
    BY <1>1, <2>1, <2>4 DEF IsIdentical
  <2> QED
    BY <1>3, <2>2, <2>3, <2>4
<1>7. Len(docs) + 1 \in 1..Len(docs')
  BY <1>1
<1> QED
  BY <1>1, <1>4, <1>5, <1>6, <1>7

(* A canonical document is replaced in place, under its id. *)
LEMMA ReplaceRetry ==
    ASSUME docs \in Seq(Doc), NEW d \in Doc, NEW k \in 1..Len(docs),
           docs' = [docs EXCEPT ![k] = d], UNCHANGED store, NotesDiffer, NotesIndexed,
           d.path = docs[k].path, d.path \in Canonical, d.id = docs[k].id
    PROVE  /\ DocsKept /\ NotesDiffer' /\ NotesIndexed' /\ KnownIds \subseteq KnownIds'
           /\ \E j \in 1..Len(docs') : docs'[j].id = d.id
<1>1. /\ Len(docs') = Len(docs)
      /\ \A j \in 1..Len(docs) : docs'[j] = IF j = k THEN d ELSE docs[j]
  BY ExceptSeq
<1>2. DocsKept /\ NotesIndexed'
  <2>1. DocsKept
    BY <1>1 DEF DocsKept
  <2> QED
    BY <2>1 DEF DocsKept, NotesIndexed
<1>3. KnownIds \subseteq KnownIds'
  BY <1>1 DEF KnownIds
<1>4. NotesDiffer'
  <2>1. SUFFICES ASSUME NEW i \in 1..Len(docs), NEW j \in 1..Len(docs),
                        docs'[i].path \notin Canonical, IsIdentical(docs'[i], docs'[j])
                 PROVE  i = j
    BY <1>1 DEF NotesDiffer
  <2>2. i # k /\ j # k
    BY <1>1, <2>1 DEF IsIdentical
  <2> QED
    BY <1>1, <2>1, <2>2 DEF NotesDiffer
<1> QED
  BY <1>1, <1>2, <1>3, <1>4

(* The write of an add, under the guard. *)
LEMMA RetryWrite ==
    ASSUME TypeInv, RetryInv, NEW p \in Procs, AddWrite(p)
    PROVE  RetryInv'
<1> DEFINE d == loc[p].doc
           i == PathPos(docs, d.path)
           kept == [d EXCEPT !.id = docs[i].id]
<1>1. /\ docs \in Seq(Doc) /\ loc[p] \in Locals /\ d \in Doc /\ RetryCall(docs, pc[p], loc[p])
      /\ pc[p] = "write" /\ UNCHANGED store /\ NotesDiffer /\ NotesIndexed
      /\ ret \in [Procs -> Ids \cup {NoId}]
  BY DEF TypeInv, SharedOK, ControlOK, AddWrite, CallOK, HasId, Locals, Draft, Doc,
         RetryInv, RetryCalls
<1>2. loc[p].op \in RetryOps \cup {"none"}
  BY <1>1 DEF RetryCall
<1>3. i # 0 => i \in 1..Len(docs) /\ docs[i].path = d.path
               /\ docs[i].id \in KnownIds /\ docs[i].id \in Ids
  BY <1>1, PathPosFact, KnownFound
<1>4. i # 0 => kept \in Doc /\ kept.path = d.path /\ kept.id = docs[i].id
  BY <1>1, <1>3 DEF Doc
<1>5. CASE i # 0 /\ Return(p, kept.id) /\ UNCHANGED docs
  <2>1. kept.id \in Ids /\ kept.id \in KnownIds
    BY <1>3, <1>4, <1>5
  <2> QED
    BY <1>1, <1>5, <2>1, RetryAnswer
<1>6. ASSUME NEW l, Goto(p, "invalidate", l), l.op = loc[p].op, DocsKept, NotesDiffer',
             NotesIndexed', KnownIds \subseteq KnownIds',
             \E j \in 1..Len(docs') :
                docs'[j].id = l.doc.id /\ (l.doc.path \notin Canonical => docs'[j] = l.doc)
      PROVE  RetryInv'
  <2>1. RetryCall(docs', "invalidate", l)
    BY <1>2, <1>6 DEF RetryCall
  <2>2. Moves(p, "invalidate", l) /\ ret' = ret
    BY <1>6, GotoMoves DEF Goto
  <2> QED
    BY <1>1, <1>6, <2>1, <2>2, RetryStep
<1>7. CASE /\ d.path \in Canonical /\ i # 0 /\ PlaceAt(i, kept)
           /\ Goto(p, "invalidate", [loc[p] EXCEPT !.doc = kept])
  <2> DEFINE l == [loc[p] EXCEPT !.doc = kept]
  <2>1. l.doc = kept /\ l.op = loc[p].op
    BY <1>1 DEF Locals
  <2>2. docs' = [docs EXCEPT ![i] = kept]
    BY <1>7 DEF PlaceAt
  <2>3. kept.path \in Canonical /\ Goto(p, "invalidate", l)
    BY <1>4, <1>7
  <2> HIDE DEF l, kept, i, d
  <2>4. /\ DocsKept /\ NotesDiffer' /\ NotesIndexed' /\ KnownIds \subseteq KnownIds'
        /\ \E j \in 1..Len(docs') : docs'[j].id = kept.id
    BY <1>1, <1>3, <1>4, <1>7, <2>2, <2>3, ReplaceRetry
  <2> QED
    BY <1>6, <2>1, <2>3, <2>4
<1>8. CASE /\ PlaceAt(0, d) /\ Goto(p, "invalidate", loc[p])
           /\ d.path \notin Canonical => \A e \in Range(docs) : ~IsIdentical(e, d)
  <2>1. docs' = Append(docs, d)
    BY <1>8 DEF PlaceAt
  <2>2. d.path \notin Canonical => \A j \in 1..Len(docs) : ~IsIdentical(docs[j], d)
    BY <1>1, <1>8, RangeFact
  <2>3. /\ DocsKept /\ NotesDiffer' /\ NotesIndexed' /\ KnownIds \subseteq KnownIds'
        /\ \E j \in 1..Len(docs') : docs'[j] = d
    BY <1>1, <2>1, <2>2, PushRetry
  <2> QED
    BY <1>6, <1>8, <2>3
<1>9. CASE /\ d.path \notin Canonical /\ Goto(p, "resolve", loc[p]) /\ UNCHANGED docs
           /\ \E e \in Range(docs) : IsIdentical(e, d)
  <2>1. \E j \in 1..Len(docs) : IsIdentical(docs[j], d)
    BY <1>1, <1>9, RangeFact
  <2>2. RetryCall(docs, "resolve", loc[p])
    BY <1>2, <1>9, <2>1 DEF RetryCall
  <2> QED
    BY <1>1, <1>9, <2>2, RetryQuiet
<1> QED
  BY <1>5, <1>7, <1>8, <1>9 DEF AddWrite

(* The put of an add: a note is stored as it is in the index. *)
LEMMA RetryPut ==
    ASSUME TypeInv, RetryInv, NEW p \in Procs,
           Invalidate(p) \/ PutValidate(p) \/ PutCommit(p) \/ StoreError(p)
    PROVE  RetryInv'
<1>1. /\ docs \in Seq(Doc) /\ store \in Seq(Doc) /\ loc[p] \in Locals
      /\ RetryCall(docs, pc[p], loc[p]) /\ CallOK(pc[p], loc[p])
      /\ ret \in [Procs -> Ids \cup {NoId}]
  BY DEF TypeInv, SharedOK, ControlOK, RetryInv, RetryCalls
<1>2. CASE Invalidate(p)
  <2> DEFINE l == [loc[p] EXCEPT !.key = loc[p].doc.id]
             label == PutLabel(loc[p].doc.path)
  <2>1. pc[p] = "invalidate" /\ loc[p].op = "add" /\ UNCHANGED <<docs, store>>
    BY <1>1, <1>2 DEF Invalidate, CallOK, OpsAt, RetryCall, RetryOps
  <2>2. l.doc = loc[p].doc /\ l.op = "add" /\ l.key = loc[p].doc.id
    BY <1>1, <2>1 DEF Locals
  <2>3. /\ label \in {"putValidate", "putCommit"}
        /\ label = "putValidate" => loc[p].doc.path \in Canonical
    BY QmdAssumption DEF PutLabel
  <2>4. Goto(p, label, l)
    BY <1>2, <2>1 DEF Invalidate
  <2> HIDE DEF l, label
  <2>5. RetryCall(docs, label, l)
    BY <1>1, <2>1, <2>2, <2>3 DEF RetryCall, RetryOps
  <2> QED
    BY <2>1, <2>4, <2>5, RetryQuiet
<1>3. CASE PutValidate(p)
  <2>1. pc[p] = "putValidate" /\ UNCHANGED <<docs, store>>
    BY <1>3 DEF PutValidate
  <2>2. PICK l : Goto(p, "putCommit", l) /\ (l = loc[p] \/ \E id : l = [loc[p] EXCEPT !.key = id])
    BY <1>3 DEF PutValidate
  <2>3. l.doc = loc[p].doc /\ l.op = loc[p].op
    BY <1>1, <2>2 DEF Locals
  <2>4. RetryCall(docs, "putCommit", l)
    BY <1>1, <2>1, <2>3 DEF RetryCall
  <2> QED
    BY <2>1, <2>2, <2>4, RetryQuiet
<1>4. CASE StoreError(p)
  BY <1>4, RetryAnswer DEF StoreError
<1>5. CASE PutCommit(p)
  <2> DEFINE d == loc[p].doc
             row == [d EXCEPT !.id = loc[p].key]
  <2>1. /\ pc[p] = "putCommit" /\ store' = StorePut(row) /\ UNCHANGED docs
        /\ loc[p].key \in Ids /\ d \in Doc /\ loc[p].op = "add"
    BY <1>1, <1>5 DEF PutCommit, CallOK, HasId, OpsAt, RetryCall, RetryOps, Locals, Draft, Doc
  <2>2. PICK k \in 1..Len(docs) : docs[k].id = d.id /\ (d.path \notin Canonical => docs[k] = d)
    BY <1>1, <2>1 DEF RetryCall
  <2>3. row \in Doc /\ row.path = d.path
    BY <2>1 DEF Doc
  <2>4. d.path \notin Canonical => row = d
    <3>1. d.path \notin Canonical => loc[p].key = d.id
      BY <1>1, <2>1 DEF RetryCall
    <3> QED
      BY <2>1, <3>1 DEF Doc
  <2> HIDE DEF row
  <2>5. /\ \A i \in 1..Len(store') : store'[i] = row \/ \E m \in 1..Len(store) : store'[i] = store[m]
        /\ \E i \in 1..Len(store') : store'[i] = row
        /\ \A m \in 1..Len(store) :
              store[m].id = row.id \/ \E i \in 1..Len(store') : store'[i] = store[m]
    BY <1>1, <2>1, <2>3, PutRows
  <2>6. DocsKept /\ NotesDiffer'
    BY <2>1 DEF DocsKept, RetryInv, NotesDiffer
  <2>7. NotesIndexed'
    <3>1. SUFFICES ASSUME NEW i \in 1..Len(store'), store'[i].path \notin Canonical
                   PROVE  \E j \in 1..Len(docs) : docs[j] = store'[i]
      BY <2>1 DEF NotesIndexed
    <3>2. CASE store'[i] = row
      BY <2>2, <2>3, <2>4, <3>1, <3>2
    <3>3. CASE \E m \in 1..Len(store) : store'[i] = store[m]
      BY <3>1, <3>3 DEF RetryInv, NotesIndexed
    <3> QED
      BY <2>5, <3>2, <3>3
  <2>8. KnownIds \subseteq KnownIds'
    <3>1. \A m \in 1..Len(store) : \E i \in 1..Len(store') : store'[i].id = store[m].id
      BY <2>5
    <3> QED
      BY <2>1, <3>1 DEF KnownIds
  <2>9. CASE Return(p, d.id)
    <3>1. d.id \in KnownIds' /\ d.id \in Ids
      BY <2>1, <2>2, <2>8, DocFact DEF KnownIds
    <3> QED
      BY <2>6, <2>7, <2>8, <2>9, <3>1, RetryReturn
  <2>10. CASE d.path \notin Canonical /\ Goto(p, "resolve", loc[p])
    <3>1. RetryCall(docs, "resolve", loc[p])
      BY <1>1, <2>2, <2>10 DEF RetryCall, IsIdentical
    <3>2. RetryCall(docs', "resolve", loc[p])
      BY <2>1, <3>1
    <3>3. Moves(p, "resolve", loc[p]) /\ ret' = ret
      BY <2>10, GotoMoves DEF Goto
    <3> QED
      BY <1>1, <2>6, <2>7, <2>8, <3>2, <3>3, RetryStep
  <2> QED
    BY <1>5, <2>1, <2>9, <2>10 DEF PutCommit
<1> QED
  BY <1>2, <1>3, <1>4, <1>5

(* The other calls never start. *)
LEMMA RetrySteps ==
    ASSUME ~Lazy, Ops \subseteq RetryOps, TypeInv, NameInv, RetryInv, NEW p \in Procs, Step(p)
    PROVE  RetryInv'
<1>1. CallOK(pc[p], loc[p]) /\ RetryCall(docs, pc[p], loc[p])
  BY DEF TypeInv, ControlOK, RetryInv, RetryCalls
<1>2. pc[p] \notin {"fetchDocs", "fetchStore", "updWrite", "updById", "updByPath", "setVector", "upsert"}
  BY <1>1 DEF CallOK, OpsAt, RetryCall, RetryOps
<1>3. ~UpdateFetch(p) /\ ~UpdateWrite(p) /\ ~UpdateLookup(p) /\ ~RefreshSetVector(p) /\ ~IndexUpsert(p)
  BY <1>2 DEF UpdateFetch, UpdateWrite, UpdateLookup, RefreshSetVector, IndexUpsert
<1>4. ~UpdateStart(p) /\ ~RefreshStart(p)
  <2>1. \A op, d : [NoLocals EXCEPT !.op = op, !.doc = d].op = op
    BY NoLocalsFact DEF Locals
  <2>2. \A label, op, d : Begin(p, label, [NoLocals EXCEPT !.op = op, !.doc = d]) => op \in RetryOps
    BY <2>1 DEF Begin
  <2>3. ~UpdateStart(p)
    BY <2>2 DEF UpdateStart, RetryOps
  <2>4. ASSUME RefreshStart(p)  PROVE FALSE
    <3>1. PICK r \in Range(store) : Begin(p, "setVector", [NoLocals EXCEPT !.op = "refresh", !.doc = r])
      BY <2>4 DEF RefreshStart
    <3>2. "refresh" \in RetryOps
      BY <2>2, <3>1, Zenon
    <3> QED
      BY <3>2 DEF RetryOps
  <2> QED
    BY <2>3, <2>4
<1>5. CASE SearchStart(p)
  <2>1. PICK query \in Contents :
          /\ Begin(p, "fill", [NoLocals EXCEPT !.op = "search", !.query = query,
                                                !.snap = Scan(query)])
          /\ UNCHANGED <<docs, cache, loaded, store, nextId, restarts>>
    BY <1>5 DEF SearchStart
  <2> DEFINE l == [NoLocals EXCEPT !.op = "search", !.query = query, !.snap = Scan(query)]
  <2>2. l.op = "search"
    BY NoLocalsFact DEF Locals
  <2> HIDE DEF l
  <2>3. RetryCall(docs, "fill", l)
    BY <2>2 DEF RetryCall, RetryOps
  <2> QED
    BY <2>1, <2>3, RetryQuiet DEF l
<1>6. CASE SearchFill(p)
  BY <1>6, RetryAnswer DEF SearchFill
<1>7. Ops \subseteq SafeOps
  BY DEF RetryOps, SafeOps
<1> QED
  BY <1>3, <1>4, <1>5, <1>6, <1>7, SafeSteps, RetryLookups, RetryIdentical, RetryWrite, RetryPut

(* An index built from rows that differ. *)
LEMMA BootRetry ==
    ASSUME NEW rows \in Seq(Doc), NEW t \in SetToSeqs(Range(rows)),
           \A i, j \in 1..Len(rows) :
              rows[i].path \notin Canonical /\ IsIdentical(rows[i], rows[j]) => rows[i] = rows[j]
    PROVE  /\ \A i \in 1..Len(rows) : \E j \in 1..Len(t) : t[j] = rows[i]
           /\ \A i, j \in 1..Len(t) : t[i].path \notin Canonical /\ IsIdentical(t[i], t[j]) => i = j
<1>1. /\ IsFiniteSet(Range(rows)) /\ Range(rows) \in SUBSET Doc
      /\ \A i \in 1..Len(rows) : rows[i] \in Range(rows)
      /\ \A e \in Range(rows) : \E i \in 1..Len(rows) : e = rows[i]
  BY RangeFact
<1>2. /\ \A i \in 1..Len(t) : t[i] \in Range(rows)
      /\ \A i, j \in 1..Len(t) : t[i] = t[j] => i = j
      /\ \A e \in Range(rows) : \E i \in 1..Len(t) : t[i] = e
  BY <1>1, SetToSeqsFact
<1>3. ASSUME NEW i \in 1..Len(t), NEW j \in 1..Len(t), t[i].path \notin Canonical,
             IsIdentical(t[i], t[j])
      PROVE  i = j
  <2>1. PICK k \in 1..Len(rows) : t[i] = rows[k]
    BY <1>1, <1>2
  <2>2. PICK m \in 1..Len(rows) : t[j] = rows[m]
    BY <1>1, <1>2
  <2>3. t[i] = t[j]
    BY <1>3, <2>1, <2>2
  <2> QED
    BY <1>2, <2>3
<1> QED
  BY <1>1, <1>2, <1>3

LEMMA InitRetry ==
    ASSUME ~Lazy, Init
    PROVE  RetryInv
<1>1. store \in Seq(Doc) /\ docs \in SetToSeqs(Range(store))
  BY InitType DEF TypeInv, SharedOK, Init
<1>2. \A i, j \in 1..Len(store) : i = j
  <2>1. CASE store = << >>
    BY <2>1
  <2>2. CASE \E r \in [id : {1}, path : Paths, content : Contents] : store = <<r>>
    BY <2>2
  <2> QED
    BY <2>1, <2>2 DEF Init
<1>3. NotesIndexed /\ NotesDiffer
  BY <1>1, <1>2, BootRetry DEF NotesIndexed, NotesDiffer
<1>4. \A p \in Procs : pc[p] = "idle" /\ loc[p] = NoLocals /\ ret[p] = NoId
  BY DEF Init
<1> QED
  BY <1>3, <1>4, IdleRetry DEF RetryInv, RetryCalls, AnswersKnown

LEMMA RestartRetry ==
    ASSUME ~Lazy, TypeInv, RetryInv, Restart
    PROVE  RetryInv'
<1>1. store \in Seq(Doc) /\ docs' \in SetToSeqs(Range(store)) /\ UNCHANGED store
  BY DEF TypeInv, SharedOK, Restart
<1>2. ASSUME NEW i \in 1..Len(store), NEW j \in 1..Len(store), store[i].path \notin Canonical,
             IsIdentical(store[i], store[j])
      PROVE  store[i] = store[j]
  <2>1. store[j].path \notin Canonical
    BY <1>2 DEF IsIdentical
  <2>2. PICK k \in 1..Len(docs) : docs[k] = store[i]
    BY <1>2 DEF RetryInv, NotesIndexed
  <2>3. PICK m \in 1..Len(docs) : docs[m] = store[j]
    BY <2>1 DEF RetryInv, NotesIndexed
  <2>4. k = m
    BY <1>2, <2>2, <2>3 DEF RetryInv, NotesDiffer
  <2> QED
    BY <2>2, <2>3, <2>4
<1>3. NotesIndexed' /\ NotesDiffer'
  BY <1>1, <1>2, BootRetry DEF NotesIndexed, NotesDiffer
<1>4. \A p \in Procs : pc'[p] = "idle" /\ loc'[p] = NoLocals /\ ret'[p] = NoId
  BY DEF Restart
<1> QED
  BY <1>3, <1>4, IdleRetry DEF RetryInv, RetryCalls, AnswersKnown

LEMMA RetryHolds ==
    ASSUME ~Lazy, Ops \subseteq RetryOps
    PROVE  Spec => [](TypeInv /\ NameInv /\ RetryInv)
<1>1. Init => RetryInv
  BY InitRetry
<1>2. TypeInv /\ NameInv /\ RetryInv /\ [Next]_vars => RetryInv'
  <2> SUFFICES ASSUME TypeInv, NameInv, RetryInv, [Next]_vars  PROVE RetryInv'
    OBVIOUS
  <2>1. CASE UNCHANGED vars
    BY <2>1 DEF vars, RetryInv, RetryCalls, NotesIndexed, NotesDiffer, AnswersKnown, KnownIds
  <2> QED
    BY <2>1, RetrySteps, RestartRetry DEF Next
<1>3. Ops \subseteq SafeOps
  BY DEF RetryOps, SafeOps
<1>4. Spec => [](TypeInv /\ NameInv)
  BY <1>3, NamesHold
<1> QED
  BY <1>1, <1>2, <1>4, PTL DEF Spec

(* In an eagerly loaded memory whose callers add and search, a retried write  *)
(* is one record: the index never holds two documents with one path and       *)
(* content, whatever the interleavings, store errors and restarts             *)
(* (qmd/writer.rs, identical_record_id and the check under the guard).        *)
THEOREM RetriesAreOneRecord ==
    ASSUME ~Lazy, Ops \subseteq RetryOps
    PROVE  Spec => []NoTwins
<1>1. TypeInv /\ NameInv /\ RetryInv => NoTwins
  <2> SUFFICES ASSUME TypeInv, NameInv, RetryInv, NEW i \in DOMAIN docs, NEW j \in DOMAIN docs,
                      IsIdentical(docs[i], docs[j])
               PROVE  i = j
    BY DEF NoTwins
  <2>1. DOMAIN docs = 1..Len(docs)
    BY DEF TypeInv, SharedOK
  <2>2. CASE docs[i].path \in Canonical
    BY <2>2 DEF NameInv, CanonicalUnique, IsIdentical
  <2>3. CASE docs[i].path \notin Canonical
    BY <2>1, <2>3 DEF RetryInv, NotesDiffer
  <2> QED
    BY <2>2, <2>3
<1> QED
  BY <1>1, RetryHolds, PTL

(* In such a memory the id an add answers is the id of a document of the      *)
(* index or of a row (qmd/writer.rs, "hand back the id that actually          *)
(* resolves").                                                                *)
THEOREM AnsweredIdsResolve ==
    ASSUME ~Lazy, Ops \subseteq RetryOps
    PROVE  Spec => []ReturnedIdResolves
<1>1. TypeInv /\ RetryInv => ReturnedIdResolves
  <2> SUFFICES ASSUME TypeInv, RetryInv, NEW p \in Procs, ret[p] # NoId
               PROVE  \E d \in Range(docs) \cup Range(store) : d.id = ret[p]
    BY DEF ReturnedIdResolves
  <2>1. ret[p] \in KnownIds
    BY DEF RetryInv, AnswersKnown
  <2>2. docs \in Seq(Doc) /\ store \in Seq(Doc)
    BY DEF TypeInv, SharedOK
  <2>3. /\ \A i \in 1..Len(docs) : docs[i] \in Range(docs)
        /\ \A i \in 1..Len(store) : store[i] \in Range(store)
    BY <2>2, RangeFact
  <2> QED
    BY <2>1, <2>3 DEF KnownIds
<1> QED
  BY <1>1, RetryHolds, PTL

-----------------------------------------------------------------------------
(* One client.                                                                *)
(*                                                                            *)
(* Between the calls of one client the index holds what the store holds.      *)
(* During a call they differ by the one record the call writes or deletes,    *)
(* and the invariant says by which one, label by label.                       *)

Elems(s) == {s[i] : i \in 1..Len(s)}
Without(S, id) == {r \in S : r.id # id}
IdsDiffer(s) == \A i, j \in 1..Len(s) : s[i].id = s[j].id => i = j

(* The steps TLC takes under the constraint Plain. *)
PlainSpec == Init /\ [][Plain /\ Next]_vars

(* The call has written its document to the index and not yet to the store;   *)
(* it has removed a document whose row is still there.                        *)
Wrote(label, l) ==
    /\ label \in {"invalidate", "updById", "updByPath", "putValidate", "putCommit"}
    /\ l.op \in {"add", "update", "move"}

Removed(label, l) ==
    /\ label \in {"invalidate", "delLookup", "delCommit"}
    /\ l.op \in {"delete", "deletePath"}

Calm(label, l) == ~Wrote(label, l) /\ ~Removed(label, l) /\ label # "evict"

(* How the documents D of a loaded index and the rows R of the store differ. *)
Agree(D, R, label, l) ==
    /\ Calm(label, l) => D = R
    /\ Wrote(label, l) => D = Without(R, l.doc.id) \cup {l.doc}
    /\ Removed(label, l) =>
          \E e \in R : /\ D = Without(R, e.id)
                       /\ \A d \in D : d.path # e.path
                       /\ l.key = e.id \/ (label # "delCommit" /\ l.key = e.path)
    /\ label = "evict" => R = Without(D, l.key)

(* What the locals of a call say of the index and the store. *)
CallFacts(D, R, indexed, label, l) ==
    /\ label \in {"load", "install"} => ~indexed
    /\ label = "install" => l.snap = R
    /\ label \notin {"load", "install"} /\ l.op \in {"update", "move", "delete", "deletePath"}
          => indexed
    /\ label \in {"evict", "upsert"} => indexed
    /\ l.op = "refresh" /\ label # "invalidate" => l.doc \in R
    /\ label = "updWrite" => \E e \in D : e.id = l.doc.id
    /\ label \in {"putValidate", "putCommit"} /\ indexed => l.key = l.doc.id
    /\ l.op \in {"delete", "drop"} => l.key \in Ids
    /\ l.op = "deletePath" /\ label # "delCommit" => l.key \in Paths
    /\ l.op = "drop" /\ label \in {"evict", "invalidate"} => \A r \in R : r.id # l.key

(* The cache answers what a scan of D finds, except between a write to the    *)
(* index and the invalidation.                                                *)
Fresh(D, C, label, l) ==
    /\ label # "invalidate" => \A q \in DOMAIN C : C[q] = {d \in D : d.content = q}
    /\ label = "fill" => l.snap = {d \in D : d.content = l.query}

Synced(D, R, C, indexed, label, l) ==
    /\ indexed => Agree(D, R, label, l)
    /\ CallFacts(D, R, indexed, label, l)
    /\ Fresh(D, C, label, l)

ClientInv ==
    /\ IdsDiffer(store)
    /\ \A p \in Procs : Synced(Elems(docs), Elems(store), cache, Indexed, pc[p], loc[p])

(* Sequences of documents as sets. *)
LEMMA ElemsFact ==
    ASSUME NEW s \in Seq(Doc)
    PROVE  /\ Elems(s) = Range(s) /\ Elems(s) \subseteq Doc
           /\ \A i \in 1..Len(s) : s[i] \in Elems(s)
           /\ \A e \in Elems(s) : \E i \in 1..Len(s) : s[i] = e
BY RangeFact DEF Elems

LEMMA AppendElems ==
    ASSUME NEW s \in Seq(Doc), NEW d \in Doc
    PROVE  Elems(Append(s, d)) = Elems(s) \cup {d}
<1> DEFINE t == Append(s, d)
<1>1. /\ Len(t) = Len(s) + 1 /\ Len(s) \in Nat
      /\ \A i \in 1..Len(s) : t[i] = s[i]
      /\ t[Len(s) + 1] = d
  BY AppendProperties
<1>2. /\ \A i \in 1..Len(t) : i \in 1..Len(s) \/ i = Len(s) + 1
      /\ \A i \in 1..Len(s) : i \in 1..Len(t)
      /\ Len(s) + 1 \in 1..Len(t)
  BY <1>1
<1> HIDE DEF t
<1>3. Elems(t) \subseteq Elems(s) \cup {d}
  BY <1>1, <1>2 DEF Elems
<1>4. Elems(s) \subseteq Elems(t)
  BY <1>1, <1>2 DEF Elems
<1>5. d \in Elems(t)
  BY <1>1, <1>2 DEF Elems
<1> QED
  BY <1>3, <1>4, <1>5 DEF t

LEMMA ReplaceElems ==
    ASSUME NEW s \in Seq(Doc), NEW k \in 1..Len(s), NEW d \in Doc, IdsDiffer(s), s[k].id = d.id
    PROVE  Elems([s EXCEPT ![k] = d]) = Without(Elems(s), d.id) \cup {d}
<1> DEFINE t == [s EXCEPT ![k] = d]
<1>1. Len(t) = Len(s) /\ \A j \in 1..Len(s) : t[j] = IF j = k THEN d ELSE s[j]
  BY ExceptSeq
<1> HIDE DEF t
<1>2. \A j \in 1..Len(s) : j # k => s[j].id # d.id
  BY DEF IdsDiffer
<1>3. Elems(t) \subseteq Without(Elems(s), d.id) \cup {d}
  BY <1>1, <1>2 DEF Elems, Without
<1>4. d \in Elems(t)
  BY <1>1 DEF Elems
<1>5. Without(Elems(s), d.id) \subseteq Elems(t)
  <2>1. SUFFICES ASSUME NEW j \in 1..Len(s), s[j].id # d.id  PROVE s[j] \in Elems(t)
    BY DEF Elems, Without
  <2>2. t[j] = s[j]
    BY <1>1, <2>1
  <2> QED
    BY <1>1, <2>2 DEF Elems
<1> QED
  BY <1>3, <1>4, <1>5 DEF t

LEMMA RemoveElems ==
    ASSUME NEW s \in Seq(Doc), NEW k \in 1..Len(s), IdsDiffer(s)
    PROVE  /\ Elems(RemoveAt(s, k)) = Without(Elems(s), s[k].id)
           /\ IdsDiffer(RemoveAt(s, k))
<1> DEFINE t == RemoveAt(s, k)
<1>1. /\ t \in Seq(Doc) /\ Len(t) = Len(s) - 1 /\ Len(s) \in Nat
      /\ \A j \in 1..(Len(s) - 1) : t[j] = IF j < k THEN s[j] ELSE s[j + 1]
  BY RemoveAtFact
<1> HIDE DEF t
<1>2. \A i \in 1..Len(t) : \E m \in 1..Len(s) : t[i] = s[m] /\ m # k
  BY <1>1
<1>3. ASSUME NEW m \in 1..Len(s), m # k  PROVE \E i \in 1..Len(t) : t[i] = s[m]
  <2>1. CASE m < k
    <3>1. m \in 1..Len(t)
      BY <1>1, <2>1
    <3> QED
      BY <1>1, <2>1, <3>1
  <2>2. CASE ~(m < k)
    <3>1. m - 1 \in 1..Len(t) /\ ~(m - 1 < k) /\ m - 1 + 1 = m
      BY <1>1, <1>3, <2>2
    <3> QED
      BY <1>1, <3>1
  <2> QED
    BY <2>1, <2>2
<1>4. Elems(t) \subseteq Without(Elems(s), s[k].id)
  BY <1>2 DEF Elems, Without, IdsDiffer
<1>5. Without(Elems(s), s[k].id) \subseteq Elems(t)
  <2>1. SUFFICES ASSUME NEW m \in 1..Len(s), s[m].id # s[k].id  PROVE s[m] \in Elems(t)
    BY DEF Elems, Without
  <2>2. PICK i \in 1..Len(t) : t[i] = s[m]
    BY <1>3, <2>1
  <2> QED
    BY <2>2 DEF Elems
<1>6. IdsDiffer(t)
  <2>1. SUFFICES ASSUME NEW i \in 1..Len(t), NEW j \in 1..Len(t), t[i].id = t[j].id
                 PROVE  i = j
    BY DEF IdsDiffer
  <2> DEFINE a == IF i < k THEN i ELSE i + 1
             b == IF j < k THEN j ELSE j + 1
  <2>2. a \in 1..Len(s) /\ b \in 1..Len(s) /\ (a = b => i = j)
    BY <1>1
  <2>3. t[i] = s[a] /\ t[j] = s[b]
    BY <1>1
  <2> HIDE DEF a, b
  <2> QED
    BY <2>1, <2>2, <2>3 DEF IdsDiffer
<1> QED
  BY <1>4, <1>5, <1>6 DEF t

(* The rows after a delete and after a put. *)
LEMMA DeleteElems ==
    ASSUME store \in Seq(Doc), IdsDiffer(store), NEW id
    PROVE  /\ RowsWithout(id) \in Seq(Doc)
           /\ Elems(RowsWithout(id)) = Without(Elems(store), id)
           /\ IdsDiffer(RowsWithout(id))
<1> DEFINE k == IdPos(store, id)
<1>1. RowsWithout(id) \in Seq(Doc)
  BY RowsWithoutFact
<1>2. CASE k = 0
  <2>1. \A i \in 1..Len(store) : store[i].id # id
    BY <1>2, IdPosFact
  <2>2. Elems(store) = Without(Elems(store), id)
    BY <2>1 DEF Elems, Without
  <2> QED
    BY <1>1, <1>2, <2>2 DEF RowsWithout
<1>3. CASE k # 0
  <2>1. k \in 1..Len(store) /\ store[k].id = id
    BY <1>3, IdPosFact
  <2> QED
    BY <1>1, <1>3, <2>1, RemoveElems DEF RowsWithout
<1> QED
  BY <1>2, <1>3

LEMMA PutElems ==
    ASSUME store \in Seq(Doc), IdsDiffer(store), NEW row \in Doc
    PROVE  /\ Elems(StorePut(row)) = Without(Elems(store), row.id) \cup {row}
           /\ IdsDiffer(StorePut(row))
<1> DEFINE rest == RowsWithout(row.id)
           t == Append(rest, row)
<1>1. /\ rest \in Seq(Doc) /\ Elems(rest) = Without(Elems(store), row.id) /\ IdsDiffer(rest)
  BY DeleteElems
<1>2. StorePut(row) = t
  BY DEF StorePut
<1>3. Elems(t) = Elems(rest) \cup {row}
  BY <1>1, AppendElems
<1>4. /\ Len(t) = Len(rest) + 1 /\ Len(rest) \in Nat
      /\ \A i \in 1..Len(rest) : t[i] = rest[i]
      /\ t[Len(rest) + 1] = row
  BY <1>1, AppendProperties
<1>5. \A i \in 1..Len(rest) : rest[i].id # row.id
  BY <1>1 DEF Elems, Without
<1> HIDE DEF rest, t
<1>6. IdsDiffer(t)
  <2>1. SUFFICES ASSUME NEW i \in 1..Len(t), NEW j \in 1..Len(t), t[i].id = t[j].id
                 PROVE  i = j
    BY DEF IdsDiffer
  <2>2. /\ i \in 1..Len(rest) \/ i = Len(rest) + 1
        /\ j \in 1..Len(rest) \/ j = Len(rest) + 1
    BY <1>4
  <2>3. CASE i \in 1..Len(rest) /\ j \in 1..Len(rest)
    BY <1>1, <1>4, <2>1, <2>3 DEF IdsDiffer
  <2>4. CASE i \in 1..Len(rest) /\ j = Len(rest) + 1
    BY <1>4, <1>5, <2>1, <2>4
  <2>5. CASE i = Len(rest) + 1 /\ j \in 1..Len(rest)
    BY <1>4, <1>5, <2>1, <2>5
  <2> QED
    BY <2>2, <2>3, <2>4, <2>5
<1> QED
  BY <1>1, <1>2, <1>3, <1>6

(* Two listings of the same documents without repetition are equally long. *)
LEMMA CountElems ==
    ASSUME NEW s \in Seq(Doc), IdsDiffer(s)
    PROVE  Cardinality(Elems(s)) = Len(s)
<1>1. Len(s) \in Nat /\ s \in [1..Len(s) -> Doc]
  BY LenProperties
<1>2. s \in [1..Len(s) -> Elems(s)]
  BY <1>1 DEF Elems
<1>3. s \in Surjection(1..Len(s), Elems(s))
  BY <1>2 DEF Surjection, Elems
<1>4. \A i, j \in 1..Len(s) : s[i] = s[j] => i = j
  BY DEF IdsDiffer
<1>5. s \in Injection(1..Len(s), Elems(s))
  BY <1>2, <1>4, Fun_IsInj
<1>6. IsFiniteSet(1..Len(s)) /\ Cardinality(1..Len(s)) = Len(s)
  BY <1>1, FS_Interval
<1> QED
  BY <1>3, <1>5, <1>6, FS_Surjection

(* In a plain index a document has its id and its path for itself. *)
LEMMA PlainNames ==
    ASSUME NEW s \in Seq(Doc),
           ~ \E i, j \in DOMAIN s : i # j /\ (s[i].path = s[j].path \/ s[i].id = s[j].id)
    PROVE  /\ IdsDiffer(s)
           /\ \A d, e \in Elems(s) : d.id = e.id \/ d.path = e.path => d = e
<1>1. DOMAIN s = 1..Len(s)
  OBVIOUS
<1>2. \A i, j \in 1..Len(s) : s[i].path = s[j].path \/ s[i].id = s[j].id => i = j
  BY <1>1
<1> QED
  BY <1>2 DEF IdsDiffer, Elems

LEMMA PlainDocs ==
    ASSUME TypeInv, Plain
    PROVE  /\ IdsDiffer(docs)
           /\ \A d, e \in Elems(docs) : d.id = e.id \/ d.path = e.path => d = e
<1>1. docs \in Seq(Doc)
  BY DEF TypeInv, SharedOK
<1> QED
  BY <1>1, PlainNames DEF Plain, SharedName

(* A listing of a set of documents has exactly its elements. *)
LEMMA ListedElems ==
    ASSUME NEW T \in SUBSET Doc, IsFiniteSet(T), NEW s \in SetToSeqs(T)
    PROVE  s \in Seq(Doc) /\ Elems(s) = T
BY SetToSeqsFact DEF Elems

(* The client goes on at a label. *)
LEMMA ClientMove ==
    ASSUME NEW p, Procs = {p}, TypeInv, NEW label, NEW l, Moves(p, label, l),
           IdsDiffer(store'),
           Synced(Elems(docs'), Elems(store'), cache', Indexed', label, l)
    PROVE  ClientInv'
<1>1. pc'[p] = label /\ loc'[p] = l
  BY DEF Moves, TypeInv, ControlOK
<1> QED
  BY <1>1 DEF ClientInv

(* What is known of the client where it is. *)
LEMMA ClientNow ==
    ASSUME NEW p, Procs = {p}, TypeInv, ClientInv
    PROVE  /\ docs \in Seq(Doc) /\ store \in Seq(Doc) /\ IdsDiffer(store)
           /\ Elems(docs) \subseteq Doc /\ Elems(store) \subseteq Doc
           /\ CallOK(pc[p], loc[p]) /\ loc[p] \in Locals
           /\ Indexed => Agree(Elems(docs), Elems(store), pc[p], loc[p])
           /\ CallFacts(Elems(docs), Elems(store), Indexed, pc[p], loc[p])
           /\ Fresh(Elems(docs), cache, pc[p], loc[p])
<1>1. p \in Procs
  OBVIOUS
<1>2. docs \in Seq(Doc) /\ store \in Seq(Doc) /\ CallOK(pc[p], loc[p]) /\ loc[p] \in Locals
  BY <1>1 DEF TypeInv, SharedOK, ControlOK
<1> QED
  BY <1>1, <1>2, ElemsFact DEF ClientInv, Synced

(* A step that changes nothing that is shared. *)
LEMMA ClientQuiet ==
    ASSUME NEW p, Procs = {p}, TypeInv, ClientInv, NEW label, NEW l, Moves(p, label, l),
           UNCHANGED <<docs, store, cache, loaded>>,
           Indexed => Agree(Elems(docs), Elems(store), label, l),
           CallFacts(Elems(docs), Elems(store), Indexed, label, l),
           Fresh(Elems(docs), cache, label, l)
    PROVE  ClientInv'
<1>1. IdsDiffer(store') /\ Indexed' = Indexed
  BY DEF ClientInv, Indexed
<1>2. Synced(Elems(docs'), Elems(store'), cache', Indexed', label, l)
  BY <1>1 DEF Synced
<1> QED
  BY <1>1, <1>2, ClientMove

(* Such a step between two labels at which the index and the store agree. *)
LEMMA ClientCalm ==
    ASSUME NEW p, Procs = {p}, TypeInv, ClientInv, NEW label, NEW l, Moves(p, label, l),
           UNCHANGED <<docs, store, cache, loaded>>,
           Calm(pc[p], loc[p]), pc[p] # "invalidate",
           Calm(label, l), label \notin {"invalidate", "fill"},
           CallFacts(Elems(docs), Elems(store), Indexed, label, l)
    PROVE  ClientInv'
<1>1. Indexed => Agree(Elems(docs), Elems(store), label, l)
  BY ClientNow DEF Agree, Calm
<1>2. Fresh(Elems(docs), cache, label, l)
  BY ClientNow DEF Fresh
<1> QED
  BY <1>1, <1>2, ClientQuiet

(* An idle client, whatever the index and the store hold. *)
LEMMA IdleFacts ==
    /\ Calm("idle", NoLocals)
    /\ \A D, R, indexed : CallFacts(D, R, indexed, "idle", NoLocals)
BY DEF Calm, Wrote, Removed, CallFacts, NoLocals

LEMMA ClientReturn ==
    ASSUME NEW p, Procs = {p}, TypeInv, ClientInv, NEW id, Return(p, id),
           UNCHANGED <<docs, store, cache, loaded>>,
           Calm(pc[p], loc[p]), pc[p] # "invalidate"
    PROVE  ClientInv'
<1>1. Moves(p, "idle", NoLocals)
  BY ReturnMoves
<1> QED
  BY <1>1, IdleFacts, ClientCalm

(* The lookups of an add: nothing is known and nothing is owed. *)
LEMMA AddFacts ==
    ASSUME NEW l, l.op = "add"
    PROVE  /\ \A label \in {"identDocs", "identStore", "canonStore", "write", "resolve"} :
                 /\ Calm(label, l) /\ label \notin {"invalidate", "fill"}
                 /\ \A D, R, indexed : CallFacts(D, R, indexed, label, l)
BY DEF Calm, Wrote, Removed, CallFacts

LEMMA ClientLookups ==
    ASSUME NEW p, Procs = {p}, TypeInv, ClientInv,
           \/ AddStart(p) \/ AddCanonicalLookup(p) \/ IdenticalInDocs(p)
           \/ IdenticalInStore(p) \/ AddResolve(p)
    PROVE  ClientInv'
<1>1. CallOK(pc[p], loc[p]) /\ loc[p] \in Locals
  BY ClientNow
<1>2. /\ UNCHANGED <<docs, store, cache, loaded>>
      /\ pc[p] \in {"idle", "identDocs", "identStore", "canonStore", "write", "resolve"}
      /\ pc[p] # "idle" => loc[p].op = "add"
  BY <1>1 DEF AddStart, AddCanonicalLookup, IdenticalInDocs, IdenticalInStore, AddResolve, Begin,
              CallOK, OpsAt
<1>3. Calm(pc[p], loc[p]) /\ pc[p] # "invalidate"
  BY <1>2 DEF Calm, Wrote, Removed
<1>4. ASSUME NEW label \in {"identDocs", "identStore", "canonStore", "write", "resolve"},
             NEW l, l.op = "add", Goto(p, label, l) \/ Begin(p, label, l)
      PROVE  ClientInv'
  <2>1. Moves(p, label, l)
    BY <1>4, GotoMoves
  <2> QED
    BY <1>2, <1>3, <1>4, <2>1, AddFacts, ClientCalm
<1>5. ASSUME NEW id, Return(p, id)  PROVE ClientInv'
  BY <1>2, <1>3, <1>5, ClientReturn
<1>6. CASE AddStart(p)
  <2>1. PICK path \in Paths, content \in Contents :
        LET d == [id |-> NoId, path |-> path, content |-> content]
            i == PathPos(docs, path)
            locals == [NoLocals EXCEPT !.op = "add", !.doc = d]
        IN  /\ IF path \notin Canonical THEN Begin(p, "identDocs", locals)
               ELSE IF i = 0 THEN Begin(p, "canonStore", locals)
               ELSE IF IsIdentical(docs[i], d)
               THEN /\ "add" \in Ops
                    /\ pc[p] = "idle"
                    /\ Return(p, docs[i].id)
               ELSE Begin(p, "write", [locals EXCEPT !.doc.id = docs[i].id])
            /\ UNCHANGED <<docs, cache, loaded, store, nextId, restarts>>
    BY <1>6 DEF AddStart
  <2> DEFINE d == [id |-> NoId, path |-> path, content |-> content]
             i == PathPos(docs, path)
             locals == [NoLocals EXCEPT !.op = "add", !.doc = d]
             known == [locals EXCEPT !.doc.id = docs[i].id]
  <2>2. locals.op = "add" /\ known.op = "add"
    BY NoLocalsFact DEF Locals
  <2>3. \/ Begin(p, "identDocs", locals) \/ Begin(p, "canonStore", locals)
        \/ Return(p, docs[i].id) \/ Begin(p, "write", known)
    BY <2>1
  <2> HIDE DEF locals, known, i
  <2> QED
    BY <1>4, <1>5, <2>2, <2>3
<1>7. ASSUME pc[p] # "idle"
      PROVE  /\ loc[p].op = "add"
             /\ \A id, next : [loc[p] EXCEPT !.doc.id = id, !.then = next].op = "add"
             /\ \A id : [loc[p] EXCEPT !.doc.id = id].op = "add"
             /\ \A next : [loc[p] EXCEPT !.then = next].op = "add"
  BY <1>1, <1>2, <1>7 DEF Locals
<1>8. CASE AddCanonicalLookup(p)
  <2> DEFINE known == [loc[p] EXCEPT !.doc.id = store[PathPos(store, loc[p].doc.path)].id]
             minted == [loc[p] EXCEPT !.doc.id = nextId, !.then = "mint"]
  <2>1. \/ \E id : Return(p, id)
        \/ Goto(p, "write", known) \/ Goto(p, "write", minted)
    BY <1>8 DEF AddCanonicalLookup, Mint
  <2>2. pc[p] # "idle"
    BY <1>8 DEF AddCanonicalLookup
  <2>3. known.op = "add" /\ minted.op = "add"
    BY <1>7, <2>2
  <2> HIDE DEF known, minted
  <2> QED
    BY <1>4, <1>5, <2>1, <2>3
<1>9. CASE IdenticalInDocs(p) \/ IdenticalInStore(p) \/ AddResolve(p)
  <2>1. loc[p].then \in {"mint", "write", "return"}
    BY <1>1 DEF Locals
  <2>2. CASE IdenticalInDocs(p)
    BY <1>4, <1>5, <1>7, <2>2 DEF IdenticalInDocs, IdenticalFound
  <2>3. CASE IdenticalInStore(p)
    <3> DEFINE minted == [loc[p] EXCEPT !.doc.id = nextId, !.then = "write"]
    <3>1. \/ \E id : Return(p, id)
          \/ Goto(p, "resolve", loc[p]) \/ Goto(p, "write", loc[p])
          \/ Goto(p, "identDocs", minted)
      BY <2>1, <2>3 DEF IdenticalInStore, IdenticalFound, Mint
    <3>2. pc[p] # "idle"
      BY <2>3 DEF IdenticalInStore
    <3>3. minted.op = "add" /\ loc[p].op = "add"
      BY <1>7, <3>2
    <3> HIDE DEF minted
    <3> QED
      BY <1>4, <1>5, <3>1, <3>3
  <2>4. CASE AddResolve(p)
    BY <1>4, <1>5, <1>7, <2>4 DEF AddResolve
  <2> QED
    BY <1>9, <2>2, <2>3, <2>4
<1> QED
  BY <1>6, <1>8, <1>9

(* The load. *)
LEMMA ClientLoad ==
    ASSUME NEW p, Procs = {p}, TypeInv, Plain, ClientInv,
           LoadSnapshot(p) \/ LoadInstall(p) \/ GetStart(p)
    PROVE  ClientInv'
<1> DEFINE D == Elems(docs)
           R == Elems(store)
<1>1. /\ store \in Seq(Doc) /\ IdsDiffer(store) /\ R \subseteq Doc /\ loc[p] \in Locals
      /\ CallOK(pc[p], loc[p]) /\ CallFacts(D, R, Indexed, pc[p], loc[p])
  BY ClientNow
<1>2. CASE LoadSnapshot(p)
  <2> DEFINE l == [loc[p] EXCEPT !.snap = Range(store)]
  <2>1. /\ l.op = loc[p].op /\ l.doc = loc[p].doc /\ l.key = loc[p].key /\ l.snap = R
    BY <1>1, ElemsFact DEF Locals
  <2>2. pc[p] = "load" /\ UNCHANGED <<docs, store, cache, loaded>> /\ Moves(p, "install", l)
    BY <1>2, GotoMoves DEF LoadSnapshot
  <2>3. loc[p].op \in {"update", "move", "delete", "deletePath", "refresh", "get"}
    BY <1>1, <2>2 DEF CallOK, OpsAt
  <2> HIDE DEF D, R, l
  <2>4. CallFacts(D, R, Indexed, "install", l)
    BY <1>1, <2>1, <2>2, <2>3 DEF CallFacts
  <2>5. Calm(pc[p], loc[p]) /\ Calm("install", l)
    BY <2>2 DEF Calm, Wrote, Removed
  <2> QED
    BY <2>2, <2>4, <2>5, ClientCalm DEF D, R
<1>3. CASE LoadInstall(p)
  <2>1. /\ pc[p] = "install" /\ docs' \in SetToSeqs(loc[p].snap) /\ loaded' = TRUE
        /\ UNCHANGED <<cache, store>>
    BY <1>3 DEF LoadInstall
  <2>2. loc[p].snap = R /\ ~Indexed
    BY <1>1, <2>1 DEF CallFacts
  <2>3. Elems(docs') = R
    BY <1>1, <2>1, <2>2, ListedElems DEF CallOK
  <2>4. DOMAIN cache' = {}
    BY <2>1, <2>2 DEF Plain, EarlyAnswer
  <2>5. Indexed'
    BY <2>1 DEF Indexed
  <2>6. ASSUME NEW label, NEW l, Moves(p, label, l), Calm(label, l), label # "fill",
               CallFacts(R, R, TRUE, label, l)
        PROVE  ClientInv'
    <3>1. Agree(R, R, label, l)
      BY <2>6 DEF Agree, Calm
    <3>2. Fresh(R, cache', label, l)
      BY <2>4, <2>6 DEF Fresh
    <3>3. Synced(Elems(docs'), Elems(store'), cache', Indexed', label, l)
      BY <2>1, <2>3, <2>5, <2>6, <3>1, <3>2 DEF Synced
    <3> QED
      BY <1>1, <2>1, <2>6, <3>3, ClientMove
  <2>7. CASE loc[p].op = "get"
    <3>1. Moves(p, "idle", NoLocals)
      BY <1>3, <2>7, ReturnMoves DEF LoadInstall
    <3> QED
      BY <2>6, <3>1, IdleFacts
  <2>8. CASE loc[p].op # "get"
    <3> DEFINE l == [loc[p] EXCEPT !.snap = {}]
               label == AfterLoad(loc[p].op)
    <3>1. loc[p].op \in {"update", "move", "delete", "deletePath", "refresh"}
      BY <1>1, <2>1, <2>8 DEF CallOK, OpsAt
    <3>2. l.op = loc[p].op /\ l.doc = loc[p].doc /\ l.key = loc[p].key
      BY <1>1 DEF Locals
    <3>3. Moves(p, label, l)
      BY <1>3, <2>8, GotoMoves DEF LoadInstall
    <3>4. label \in {"fetchDocs", "remove", "upsert"}
      BY <3>1 DEF AfterLoad
    <3> HIDE DEF l, label, D, R
    <3>5. CallFacts(R, R, TRUE, label, l)
      BY <1>1, <2>1, <3>1, <3>2, <3>4 DEF CallFacts
    <3>6. Calm(label, l)
      BY <3>4 DEF Calm, Wrote, Removed
    <3> QED
      BY <2>6, <3>3, <3>4, <3>5, <3>6
  <2> QED
    BY <2>7, <2>8
<1>4. CASE GetStart(p)
  <2> DEFINE l == [NoLocals EXCEPT !.op = "get"]
  <2>1. l.op = "get"
    BY NoLocalsFact DEF Locals
  <2> HIDE DEF l
  <2>2. /\ Moves(p, "load", l) /\ UNCHANGED <<docs, store, cache, loaded>> /\ ~Indexed
        /\ pc[p] = "idle"
    BY <1>4, GotoMoves DEF GetStart, Indexed, Begin, l
  <2>3. CallFacts(D, R, Indexed, "load", l)
    BY <2>1, <2>2 DEF CallFacts
  <2>4. Calm(pc[p], loc[p]) /\ Calm("load", l)
    BY <2>2 DEF Calm, Wrote, Removed
  <2> QED
    BY <2>2, <2>3, <2>4, ClientCalm
<1> QED
  BY <1>2, <1>3, <1>4


(* A write to the index. *)
LEMMA ClientWrote ==
    ASSUME NEW p, Procs = {p}, TypeInv, ClientInv, NEW l, Moves(p, "invalidate", l),
           l.op \in {"add", "update", "move"}, UNCHANGED <<store, loaded>>,
           l.op \in {"update", "move"} => Indexed,
           Indexed => Elems(docs') = Without(Elems(store), l.doc.id) \cup {l.doc}
    PROVE  ClientInv'
<1>1. IdsDiffer(store') /\ Indexed' = Indexed
  BY DEF ClientInv, Indexed
<1>2. Indexed => Agree(Elems(docs'), Elems(store'), "invalidate", l)
  BY DEF Agree, Calm, Wrote, Removed
<1>3. CallFacts(Elems(docs'), Elems(store'), Indexed, "invalidate", l)
  BY DEF CallFacts
<1>4. Fresh(Elems(docs'), cache', "invalidate", l)
  BY DEF Fresh
<1> QED
  BY <1>1, <1>2, <1>3, <1>4, ClientMove DEF Synced

(* Pushing a document leaves a plain index only if its id is new. *)
LEMMA PushElems ==
    ASSUME NEW s \in Seq(Doc), NEW d \in Doc, NEW t \in Seq(Doc), t = Append(s, d),
           ~ \E i, j \in DOMAIN t : i # j /\ (t[i].path = t[j].path \/ t[i].id = t[j].id)
    PROVE  Elems(t) = Without(Elems(s), d.id) \cup {d}
<1>1. Elems(t) = Elems(s) \cup {d}
  BY AppendElems
<1>2. \A e \in Elems(t) : e.id = d.id => e = d
  BY <1>1, PlainNames
<1> QED
  BY <1>1, <1>2 DEF Without

LEMMA ClientAddWrite ==
    ASSUME NEW p, Procs = {p}, TypeInv, TypeInv', Plain, Plain', ClientInv, AddWrite(p)
    PROVE  ClientInv'
<1> DEFINE d == loc[p].doc
           i == PathPos(docs, d.path)
           kept == [d EXCEPT !.id = docs[i].id]
<1>1. /\ docs \in Seq(Doc) /\ docs' \in Seq(Doc) /\ loc[p] \in Locals /\ CallOK(pc[p], loc[p])
      /\ Indexed => Agree(Elems(docs), Elems(store), pc[p], loc[p])
      /\ pc[p] = "write" /\ UNCHANGED <<store, cache, loaded>>
  BY ClientNow DEF AddWrite, TypeInv, SharedOK
<1>2. loc[p].op = "add" /\ d \in Doc
  BY <1>1 DEF CallOK, OpsAt, HasId, Locals, Draft, Doc
<1>3. Calm(pc[p], loc[p]) /\ (Indexed => Elems(docs) = Elems(store))
  BY <1>1 DEF Agree, Calm, Wrote, Removed
<1>4. CASE (\E id : Return(p, id)) /\ UNCHANGED docs
  BY <1>1, <1>3, <1>4, ClientReturn
<1>5. CASE Goto(p, "resolve", loc[p]) /\ UNCHANGED docs
  <2>1. Moves(p, "resolve", loc[p])
    BY <1>5, GotoMoves
  <2> QED
    BY <1>1, <1>2, <1>3, <1>5, <2>1, AddFacts, ClientCalm
<1>6. CASE PlaceAt(0, d) /\ Goto(p, "invalidate", loc[p])
  <2>1. docs' = Append(docs, d) /\ Moves(p, "invalidate", loc[p])
    BY <1>6, GotoMoves DEF PlaceAt
  <2>2. Elems(docs') = Without(Elems(docs), d.id) \cup {d}
    BY <1>1, <1>2, <2>1, PushElems DEF Plain, SharedName
  <2> QED
    BY <1>1, <1>2, <1>3, <2>1, <2>2, ClientWrote
<1>7. CASE i # 0 /\ PlaceAt(i, kept) /\ Goto(p, "invalidate", [loc[p] EXCEPT !.doc = kept])
  <2> DEFINE l == [loc[p] EXCEPT !.doc = kept]
  <2>1. i \in 1..Len(docs) /\ docs[i].id \in Ids
    BY <1>1, <1>7, PathPosFact, FoundFact
  <2>2. kept \in Doc /\ kept.id = docs[i].id /\ l.doc = kept /\ l.op = "add"
    BY <1>1, <1>2, <2>1 DEF Doc, Locals
  <2>3. docs' = [docs EXCEPT ![i] = kept] /\ Moves(p, "invalidate", l)
    BY <1>7, GotoMoves DEF PlaceAt
  <2>4. IdsDiffer(docs)
    BY PlainDocs
  <2> HIDE DEF kept, l, i
  <2>5. Elems([docs EXCEPT ![i] = kept]) = Without(Elems(docs), kept.id) \cup {kept}
    BY <1>1, <2>1, <2>2, <2>4, ReplaceElems
  <2> QED
    BY <1>1, <1>3, <2>2, <2>3, <2>5, ClientWrote
<1> QED
  BY <1>4, <1>5, <1>6, <1>7 DEF AddWrite

(* The way to the put. *)
LEMMA ClientInvalidate ==
    ASSUME NEW p, Procs = {p}, TypeInv, ClientInv, Invalidate(p)
    PROVE  ClientInv'
<1> DEFINE D == Elems(docs)
           R == Elems(store)
<1>1. /\ IdsDiffer(store) /\ loc[p] \in Locals /\ CallOK(pc[p], loc[p])
      /\ Indexed => Agree(D, R, pc[p], loc[p])
      /\ CallFacts(D, R, Indexed, pc[p], loc[p])
  BY ClientNow
<1>2. pc[p] = "invalidate" /\ cache' = << >> /\ UNCHANGED <<docs, store, loaded>> /\ Indexed' = Indexed
  BY DEF Invalidate, Indexed
<1>3. ASSUME NEW label, NEW l, Moves(p, label, l), label # "fill",
             Indexed => Agree(D, R, label, l), CallFacts(D, R, Indexed, label, l)
      PROVE  ClientInv'
  <2>1. Fresh(D, cache', label, l)
    BY <1>2, <1>3 DEF Fresh
  <2> QED
    BY <1>1, <1>2, <1>3, <2>1, ClientMove DEF Synced
<1>4. CASE loc[p].op = "add"
  <2> DEFINE l == [loc[p] EXCEPT !.key = loc[p].doc.id]
             label == PutLabel(loc[p].doc.path)
  <2>1. l.doc = loc[p].doc /\ l.op = "add" /\ l.key = loc[p].doc.id
    BY <1>1, <1>4 DEF Locals
  <2>2. label \in {"putValidate", "putCommit"} /\ Moves(p, label, l)
    BY <1>4, GotoMoves DEF Invalidate, PutLabel
  <2> HIDE DEF l, label, D, R
  <2>3. Indexed => Agree(D, R, label, l)
    BY <1>1, <1>2, <1>4, <2>1, <2>2 DEF Agree, Calm, Wrote, Removed
  <2>4. CallFacts(D, R, Indexed, label, l)
    BY <2>1, <2>2 DEF CallFacts
  <2> QED
    BY <1>3, <2>2, <2>3, <2>4
<1>5. CASE loc[p].op \in {"update", "move"}
  <2>1. Moves(p, "updById", loc[p])
    BY <1>5, GotoMoves DEF Invalidate
  <2> HIDE DEF D, R
  <2>2. Indexed => Agree(D, R, "updById", loc[p])
    BY <1>1, <1>2, <1>5 DEF Agree, Calm, Wrote, Removed
  <2>3. CallFacts(D, R, Indexed, "updById", loc[p])
    BY <1>1, <1>2, <1>5 DEF CallFacts
  <2> QED
    BY <1>3, <2>1, <2>2, <2>3
<1>6. CASE loc[p].op \in {"delete", "deletePath"}
  <2>1. Moves(p, "delLookup", loc[p])
    BY <1>6, GotoMoves DEF Invalidate
  <2> HIDE DEF D, R
  <2>2. Indexed => Agree(D, R, "delLookup", loc[p])
    BY <1>1, <1>2, <1>6 DEF Agree, Calm, Wrote, Removed
  <2>3. CallFacts(D, R, Indexed, "delLookup", loc[p])
    BY <1>1, <1>2, <1>6 DEF CallFacts
  <2> QED
    BY <1>3, <2>1, <2>2, <2>3
<1>7. CASE loc[p].op \in {"drop", "refresh"}
  <2>1. Moves(p, "idle", NoLocals)
    BY <1>7, ReturnMoves DEF Invalidate
  <2>2. Indexed => D = R
    BY <1>1, <1>2, <1>7 DEF Agree, Calm, Wrote, Removed
  <2>3. Indexed => Agree(D, R, "idle", NoLocals)
    BY <2>2, IdleFacts DEF Agree, Calm
  <2> QED
    BY <1>3, <2>1, <2>3, IdleFacts
<1>8. loc[p].op \in {"add", "update", "move", "delete", "deletePath", "drop", "refresh"}
  BY <1>1, <1>2 DEF CallOK, OpsAt
<1> QED
  BY <1>4, <1>5, <1>6, <1>7, <1>8

(* In a plain index, the row of the path of a document just written is its    *)
(* own row.                                                                   *)
LEMMA OwnRow ==
    ASSUME NEW p, Procs = {p}, TypeInv, Plain, ClientInv, Indexed, Wrote(pc[p], loc[p]),
           NEW i \in 1..Len(store), store[i].path = loc[p].doc.path
    PROVE  store[i].id = loc[p].doc.id
<1>1. Elems(docs) = Without(Elems(store), loc[p].doc.id) \cup {loc[p].doc}
  BY ClientNow DEF Agree
<1>2. store[i] \in Elems(store)
  BY DEF Elems
<1>3. SUFFICES ASSUME store[i].id # loc[p].doc.id  PROVE FALSE
  OBVIOUS
<1>4. store[i] \in Elems(docs) /\ loc[p].doc \in Elems(docs)
  BY <1>1, <1>2, <1>3 DEF Without
<1>5. store[i] = loc[p].doc
  BY <1>4, PlainDocs
<1> QED
  BY <1>3, <1>5

LEMMA ClientPutLookup ==
    ASSUME NEW p, Procs = {p}, TypeInv, Plain, ClientInv, PutValidate(p) \/ UpdateLookup(p)
    PROVE  ClientInv'
<1> DEFINE D == Elems(docs)
           R == Elems(store)
           i == PathPos(store, loc[p].doc.path)
<1>1. /\ IdsDiffer(store) /\ loc[p] \in Locals /\ CallOK(pc[p], loc[p]) /\ store \in Seq(Doc)
      /\ Indexed => Agree(D, R, pc[p], loc[p])
      /\ CallFacts(D, R, Indexed, pc[p], loc[p]) /\ Fresh(D, cache, pc[p], loc[p])
  BY ClientNow
<1>2. /\ pc[p] \in {"putValidate", "updById", "updByPath"} /\ UNCHANGED <<docs, store, cache, loaded>>
  BY DEF PutValidate, UpdateLookup
<1>3. /\ loc[p].op \in {"add", "update", "move"} /\ Wrote(pc[p], loc[p])
  BY <1>1, <1>2 DEF CallOK, OpsAt, Wrote
<1>4. loc[p].op \in {"update", "move"} => Indexed
  BY <1>1, <1>2 DEF CallFacts
<1>5. Indexed => D = Without(R, loc[p].doc.id) \cup {loc[p].doc}
  BY <1>1, <1>3 DEF Agree
<1>6. Indexed /\ i # 0 => store[i].id = loc[p].doc.id
  <2>1. i # 0 => i \in 1..Len(store) /\ store[i].path = loc[p].doc.path
    BY <1>1, PathPosFact
  <2> QED
    BY <1>3, <2>1, OwnRow
<1>7. ASSUME NEW label \in {"putValidate", "putCommit", "updByPath"}, NEW l, Goto(p, label, l),
             l.doc = loc[p].doc, l.op = loc[p].op,
             label \in {"putValidate", "putCommit"} /\ Indexed => l.key = l.doc.id
      PROVE  ClientInv'
  <2>1. Moves(p, label, l)
    BY <1>7, GotoMoves
  <2> HIDE DEF D, R
  <2>2. Indexed => Agree(D, R, label, l)
    BY <1>3, <1>5, <1>7 DEF Agree, Calm, Wrote, Removed
  <2>3. CallFacts(D, R, Indexed, label, l)
    BY <1>3, <1>4, <1>7 DEF CallFacts
  <2>4. Fresh(D, cache, label, l)
    BY <1>1, <1>2, <1>7 DEF Fresh
  <2> QED
    BY <1>2, <2>1, <2>2, <2>3, <2>4, ClientQuiet DEF D, R
<1>8. \A id : LET l == [loc[p] EXCEPT !.key = id]
              IN  l.doc = loc[p].doc /\ l.op = loc[p].op /\ l.key = id
  BY <1>1 DEF Locals
<1>9. PutLabel(loc[p].doc.path) \in {"putValidate", "putCommit"}
  BY DEF PutLabel
<1>10. CASE PutValidate(p)
  <2> DEFINE found == [loc[p] EXCEPT !.key = store[i].id]
  <2>1. \/ i # 0 /\ Goto(p, "putCommit", found)
        \/ Goto(p, "putCommit", loc[p])
    BY <1>10 DEF PutValidate
  <2>2. found.doc = loc[p].doc /\ found.op = loc[p].op /\ found.key = store[i].id
    BY <1>8
  <2>3. pc[p] = "putValidate" /\ (Indexed => loc[p].key = loc[p].doc.id)
    BY <1>1, <1>10 DEF PutValidate, CallFacts
  <2> HIDE DEF found, i
  <2> QED
    BY <1>6, <1>7, <2>1, <2>2, <2>3
<1>11. CASE UpdateLookup(p)
  <2> DEFINE own == [loc[p] EXCEPT !.key = loc[p].doc.id]
             other == [loc[p] EXCEPT !.key = IF i # 0 THEN store[i].id ELSE loc[p].doc.id]
  <2>1. \/ Goto(p, PutLabel(loc[p].doc.path), own)
        \/ Goto(p, PutLabel(loc[p].doc.path), other)
        \/ Goto(p, "updByPath", loc[p])
    BY <1>11 DEF UpdateLookup
  <2>2. /\ own.doc = loc[p].doc /\ own.op = loc[p].op /\ own.key = loc[p].doc.id
        /\ other.doc = loc[p].doc /\ other.op = loc[p].op
        /\ other.key = IF i # 0 THEN store[i].id ELSE loc[p].doc.id
    BY <1>8
  <2> HIDE DEF own, other, i
  <2>3. CASE Goto(p, PutLabel(loc[p].doc.path), own)
    BY <1>7, <1>9, <2>2, <2>3
  <2>4. CASE Goto(p, PutLabel(loc[p].doc.path), other)
    <3>1. Indexed => other.key = other.doc.id
      BY <1>6, <2>2
    <3> QED
      BY <1>7, <1>9, <2>2, <2>4, <3>1
  <2>5. CASE Goto(p, "updByPath", loc[p])
    BY <1>7, <2>5
  <2> QED
    BY <2>1, <2>3, <2>4, <2>5
<1> QED
  BY <1>10, <1>11

LEMMA ClientPut ==
    ASSUME NEW p, Procs = {p}, TypeInv, ClientInv, PutCommit(p)
    PROVE  ClientInv'
<1> DEFINE D == Elems(docs)
           R == Elems(store)
           d == loc[p].doc
           row == [d EXCEPT !.id = loc[p].key]
<1>1. /\ IdsDiffer(store) /\ loc[p] \in Locals /\ CallOK(pc[p], loc[p]) /\ store \in Seq(Doc)
      /\ Indexed => Agree(D, R, pc[p], loc[p])
      /\ CallFacts(D, R, Indexed, pc[p], loc[p]) /\ Fresh(D, cache, pc[p], loc[p])
  BY ClientNow
<1>2. /\ pc[p] = "putCommit" /\ store' = StorePut(row) /\ UNCHANGED <<docs, cache, loaded>>
      /\ Indexed' = Indexed
  BY DEF PutCommit, Indexed
<1>3. /\ loc[p].op \in {"add", "update", "move"} /\ loc[p].key \in Ids /\ d \in Doc
  BY <1>1, <1>2 DEF CallOK, OpsAt, HasId, Locals, Draft, Doc
<1>4. row \in Doc
  BY <1>3 DEF Doc
<1>5. Indexed => loc[p].key = d.id /\ D = Without(R, d.id) \cup {d}
  BY <1>1, <1>2, <1>3 DEF CallFacts, Agree, Wrote
<1>6. loc[p].key = d.id => row = d
  BY <1>3 DEF Doc
<1> HIDE DEF row
<1>7. Elems(store') = Without(R, row.id) \cup {row} /\ IdsDiffer(store')
  BY <1>1, <1>2, <1>4, PutElems
<1>8. Indexed => D = Elems(store')
  BY <1>5, <1>6, <1>7
<1>9. ASSUME NEW label, NEW l, Moves(p, label, l), Calm(label, l), label # "fill",
             \A S, T, indexed : CallFacts(S, T, indexed, label, l)
      PROVE  ClientInv'
  <2>1. Indexed' => Agree(Elems(docs'), Elems(store'), label, l)
    BY <1>2, <1>8, <1>9 DEF Agree, Calm
  <2>2. Fresh(Elems(docs'), cache', label, l)
    BY <1>1, <1>2, <1>9 DEF Fresh
  <2>3. CallFacts(Elems(docs'), Elems(store'), Indexed', label, l)
    BY <1>9
  <2> QED
    BY <1>7, <1>9, <2>1, <2>2, <2>3, ClientMove DEF Synced
<1>10. CASE \E id : Return(p, id)
  BY <1>9, <1>10, ReturnMoves, IdleFacts
<1>11. CASE loc[p].op = "add" /\ Goto(p, "resolve", loc[p])
  <2>1. Moves(p, "resolve", loc[p])
    BY <1>11, GotoMoves
  <2> QED
    BY <1>9, <1>11, <2>1, AddFacts
<1> QED
  BY <1>10, <1>11 DEF PutCommit


(* An update loads the index before it looks its record up. *)
LEMMA ClientUpdateLookup ==
    ASSUME NEW p, Procs = {p}, TypeInv, ClientInv, UpdateStart(p) \/ UpdateFetch(p)
    PROVE  ClientInv'
<1> DEFINE D == Elems(docs)
           R == Elems(store)
<1>1. /\ loc[p] \in Locals /\ CallOK(pc[p], loc[p]) /\ docs \in Seq(Doc) /\ store \in Seq(Doc)
      /\ Indexed => Agree(D, R, pc[p], loc[p])
      /\ CallFacts(D, R, Indexed, pc[p], loc[p])
  BY ClientNow
<1>2. /\ pc[p] \in {"idle", "fetchDocs", "fetchStore"} /\ UNCHANGED <<docs, store, cache, loaded>>
  BY DEF UpdateStart, UpdateFetch, Begin
<1>3. Calm(pc[p], loc[p]) /\ pc[p] # "invalidate"
  BY <1>2 DEF Calm, Wrote, Removed
<1>4. CASE UpdateStart(p)
  <2>1. PICK op \in {"update", "move"}, id \in MintedIds, path \in Paths, content \in Contents :
          Begin(p, EnsureLoaded("fetchDocs"),
                [NoLocals EXCEPT !.op = op,
                                 !.doc = [id |-> id, path |-> path, content |-> content]])
    BY <1>4 DEF UpdateStart
  <2> DEFINE l == [NoLocals EXCEPT !.op = op,
                                   !.doc = [id |-> id, path |-> path, content |-> content]]
             label == EnsureLoaded("fetchDocs")
  <2>2. l.op \in {"update", "move"}
    BY NoLocalsFact DEF Locals
  <2>3. label = IF Indexed THEN "fetchDocs" ELSE "load"
    BY QmdAssumption DEF EnsureLoaded, Indexed
  <2>4. Moves(p, label, l)
    BY <2>1, GotoMoves
  <2> HIDE DEF l, label
  <2>5. CallFacts(D, R, Indexed, label, l)
    BY <2>2, <2>3 DEF CallFacts
  <2>6. Calm(label, l) /\ label \notin {"invalidate", "fill"}
    BY <2>3 DEF Calm, Wrote, Removed
  <2> QED
    BY <1>2, <1>3, <2>4, <2>5, <2>6, ClientCalm
<1>5. CASE UpdateFetch(p)
  <2>1. pc[p] \in {"fetchDocs", "fetchStore"} /\ loc[p].op \in {"update", "move"}
    BY <1>1, <1>5 DEF UpdateFetch, CallOK, OpsAt
  <2>2. Indexed /\ D = R
    BY <1>1, <1>3, <2>1 DEF CallFacts, Agree
  <2>3. ASSUME NEW path, NEW e \in D, e.id = loc[p].doc.id, UpdateFound(p, path)
        PROVE  ClientInv'
    <3> DEFINE l == IF loc[p].op = "move" THEN loc[p] ELSE [loc[p] EXCEPT !.doc.path = path]
    <3>1. l.op = loc[p].op /\ l.doc.id = loc[p].doc.id
      BY <1>1 DEF Locals, Draft
    <3>2. Moves(p, "updWrite", l)
      BY <2>3, GotoMoves DEF UpdateFound
    <3> HIDE DEF l, D, R
    <3>3. CallFacts(D, R, Indexed, "updWrite", l)
      BY <2>1, <2>2, <2>3, <3>1 DEF CallFacts
    <3>4. Calm("updWrite", l)
      BY DEF Calm, Wrote, Removed
    <3> QED
      BY <1>2, <1>3, <3>2, <3>3, <3>4, ClientCalm DEF D, R
  <2> DEFINE i == IdPos(docs, loc[p].doc.id)
             j == IdPos(store, loc[p].doc.id)
  <2>4. CASE i # 0 /\ UpdateFound(p, docs[i].path)
    <3>1. docs[i] \in D /\ docs[i].id = loc[p].doc.id
      BY <1>1, <2>4, IdPosFact, ElemsFact
    <3> QED
      BY <2>3, <2>4, <3>1
  <2>5. CASE j # 0 /\ UpdateFound(p, store[j].path)
    <3>1. store[j] \in R /\ store[j].id = loc[p].doc.id
      BY <1>1, <2>5, IdPosFact, ElemsFact
    <3> QED
      BY <2>2, <2>3, <2>5, <3>1
  <2>6. CASE Goto(p, "fetchStore", loc[p])
    <3>1. Moves(p, "fetchStore", loc[p])
      BY <2>6, GotoMoves
    <3>2. CallFacts(D, R, Indexed, "fetchStore", loc[p]) /\ Calm("fetchStore", loc[p])
      BY <2>1, <2>2 DEF CallFacts, Calm, Wrote, Removed
    <3> QED
      BY <1>2, <1>3, <3>1, <3>2, ClientCalm
  <2>7. CASE Return(p, NoId)
    BY <1>2, <1>3, <2>7, ClientReturn
  <2> QED
    BY <1>5, <2>4, <2>5, <2>6, <2>7 DEF UpdateFetch
<1> QED
  BY <1>4, <1>5

(* The update replaces the document of its id: had it replaced that of the    *)
(* path instead, two documents would have the id.                             *)
LEMMA ClientUpdateWrite ==
    ASSUME NEW p, Procs = {p}, TypeInv, TypeInv', Plain, Plain', ClientInv, UpdateWrite(p)
    PROVE  ClientInv'
<1> DEFINE d == loc[p].doc
           k == NamePos(docs, d)
<1>1. /\ docs \in Seq(Doc) /\ docs' \in Seq(Doc) /\ loc[p] \in Locals /\ CallOK(pc[p], loc[p])
      /\ Indexed => Agree(Elems(docs), Elems(store), pc[p], loc[p])
      /\ CallFacts(Elems(docs), Elems(store), Indexed, pc[p], loc[p])
      /\ pc[p] = "updWrite" /\ UNCHANGED <<store, cache, loaded>>
      /\ PlaceAt(k, d) /\ Goto(p, "invalidate", loc[p])
  BY ClientNow DEF UpdateWrite, TypeInv, SharedOK
<1>2. loc[p].op \in {"update", "move"} /\ d \in Doc
  BY <1>1 DEF CallOK, OpsAt, HasId, Locals, Draft, Doc
<1>3. Indexed /\ Elems(docs) = Elems(store) /\ \E e \in Elems(docs) : e.id = d.id
  BY <1>1, <1>2 DEF CallFacts, Agree, Calm, Wrote, Removed
<1>4. PICK m \in 1..Len(docs) : docs[m].id = d.id
  BY <1>3 DEF Elems
<1>5. k # 0 /\ k \in 1..Len(docs)
  BY <1>1, <1>4, NamePosFact
<1>6. docs' = [docs EXCEPT ![k] = d]
  BY <1>1, <1>5 DEF PlaceAt
<1> HIDE DEF k
<1>7. Len(docs') = Len(docs) /\ \A j \in 1..Len(docs) : docs'[j] = IF j = k THEN d ELSE docs[j]
  BY <1>1, <1>2, <1>5, <1>6, ExceptSeq
<1>8. IdsDiffer(docs')
  BY <1>1, PlainNames DEF Plain, SharedName
<1>9. m = k
  <2>1. docs'[m].id = d.id /\ docs'[k].id = d.id
    BY <1>4, <1>5, <1>7
  <2> QED
    BY <1>4, <1>5, <1>7, <1>8, <2>1 DEF IdsDiffer
<1>10. IdsDiffer(docs)
  BY PlainDocs
<1>11. Elems([docs EXCEPT ![k] = d]) = Without(Elems(docs), d.id) \cup {d}
  BY <1>1, <1>2, <1>4, <1>5, <1>9, <1>10, ReplaceElems
<1>12. Moves(p, "invalidate", loc[p])
  BY <1>1, GotoMoves
<1> QED
  BY <1>1, <1>2, <1>3, <1>6, <1>11, <1>12, ClientWrote

(* A delete or a drop begins. *)
LEMMA ClientDeleteStart ==
    ASSUME NEW p, Procs = {p}, TypeInv, ClientInv, DeleteStart(p) \/ DropStart(p)
    PROVE  ClientInv'
<1> DEFINE D == Elems(docs)
           R == Elems(store)
<1>1. pc[p] = "idle" /\ UNCHANGED <<docs, store, cache, loaded>>
  BY DEF DeleteStart, DropStart, Begin
<1>2. Calm(pc[p], loc[p]) /\ pc[p] # "invalidate"
  BY <1>1 DEF Calm, Wrote, Removed
<1>3. MintedIds \subseteq Ids
  BY MintedFact DEF TypeInv, SharedOK
<1>4. EnsureLoaded("remove") = IF Indexed THEN "remove" ELSE "load"
  BY QmdAssumption DEF EnsureLoaded, Indexed
<1>5. ASSUME NEW label, NEW l, Begin(p, label, l),
             \/ l.op = "delete" /\ l.key \in Ids /\ label = EnsureLoaded("remove")
             \/ l.op = "deletePath" /\ l.key \in Paths /\ label = EnsureLoaded("remove")
             \/ l.op = "drop" /\ l.key \in Ids /\ label = "delLookup"
      PROVE  ClientInv'
  <2>1. Moves(p, label, l)
    BY <1>5, GotoMoves
  <2> HIDE DEF D, R
  <2>2. CallFacts(D, R, Indexed, label, l)
    BY <1>4, <1>5 DEF CallFacts
  <2>3. Calm(label, l) /\ label \notin {"invalidate", "fill"}
    BY <1>4, <1>5 DEF Calm, Wrote, Removed
  <2> QED
    BY <1>1, <1>2, <2>1, <2>2, <2>3, ClientCalm DEF D, R
<1>6. \A op, key : LET l == [NoLocals EXCEPT !.op = op, !.key = key]
                   IN  l.op = op /\ l.key = key
  BY NoLocalsFact DEF Locals
<1>7. CASE \E id \in MintedIds :
             Begin(p, EnsureLoaded("remove"), [NoLocals EXCEPT !.op = "delete", !.key = id])
  <2>1. PICK id \in MintedIds :
             Begin(p, EnsureLoaded("remove"), [NoLocals EXCEPT !.op = "delete", !.key = id])
    BY <1>7
  <2> DEFINE l == [NoLocals EXCEPT !.op = "delete", !.key = id]
  <2>2. l.op = "delete" /\ l.key \in Ids
    BY <1>3, <1>6
  <2> HIDE DEF l
  <2> QED
    BY <1>5, <2>1, <2>2 DEF l
<1>8. CASE \E path \in Paths :
             Begin(p, EnsureLoaded("remove"), [NoLocals EXCEPT !.op = "deletePath", !.key = path])
  <2>1. PICK path \in Paths :
             Begin(p, EnsureLoaded("remove"), [NoLocals EXCEPT !.op = "deletePath", !.key = path])
    BY <1>8
  <2> DEFINE l == [NoLocals EXCEPT !.op = "deletePath", !.key = path]
  <2>2. l.op = "deletePath" /\ l.key \in Paths
    BY <1>6
  <2> HIDE DEF l
  <2> QED
    BY <1>5, <2>1, <2>2 DEF l
<1>9. CASE DropStart(p)
  <2>1. PICK id \in MintedIds :
             Begin(p, "delLookup", [NoLocals EXCEPT !.op = "drop", !.key = id])
    BY <1>9 DEF DropStart
  <2> DEFINE l == [NoLocals EXCEPT !.op = "drop", !.key = id]
  <2>2. l.op = "drop" /\ l.key \in Ids
    BY <1>3, <1>6
  <2> HIDE DEF l
  <2> QED
    BY <1>5, <2>1, <2>2 DEF l
<1> QED
  BY <1>7, <1>8, <1>9 DEF DeleteStart

(* The delete takes the record from the index. *)
LEMMA ClientRemove ==
    ASSUME NEW p, Procs = {p}, TypeInv, Plain, ClientInv, DeleteFromDocs(p)
    PROVE  ClientInv'
<1> DEFINE i == KeyPos(docs, loc[p].key)
<1>1. /\ docs \in Seq(Doc) /\ CallOK(pc[p], loc[p]) /\ IdsDiffer(store)
      /\ Indexed => Agree(Elems(docs), Elems(store), pc[p], loc[p])
      /\ CallFacts(Elems(docs), Elems(store), Indexed, pc[p], loc[p])
      /\ pc[p] = "remove" /\ UNCHANGED <<store, cache, loaded>>
  BY ClientNow DEF DeleteFromDocs
<1>2. loc[p].op \in {"delete", "deletePath"} /\ Indexed /\ Calm(pc[p], loc[p])
  BY <1>1 DEF CallOK, OpsAt, CallFacts, Calm, Wrote, Removed
<1>3. Elems(docs) = Elems(store)
  BY <1>1, <1>2 DEF Agree
<1>4. CASE i = 0
  BY <1>1, <1>2, <1>4, ClientReturn DEF DeleteFromDocs
<1>5. CASE i # 0
  <2> DEFINE e == docs[i]
  <2>1. i \in 1..Len(docs) /\ (e.path = loc[p].key \/ e.id = loc[p].key) /\ e \in Elems(docs)
    BY <1>1, <1>5, KeyPosFact, ElemsFact
  <2>2. docs' = RemoveAt(docs, i) /\ Moves(p, "invalidate", loc[p])
    BY <1>5, GotoMoves DEF DeleteFromDocs
  <2>3. IdsDiffer(docs) /\ \A x, y \in Elems(docs) : x.id = y.id \/ x.path = y.path => x = y
    BY PlainDocs
  <2> HIDE DEF i
  <2>4. Elems(docs') = Without(Elems(docs), e.id)
    BY <1>1, <2>1, <2>2, <2>3, RemoveElems
  <2> HIDE DEF e
  <2>5. \A x \in Elems(docs') : x.path # e.path
    BY <2>1, <2>3, <2>4 DEF Without
  <2>6. Agree(Elems(docs'), Elems(store), "invalidate", loc[p])
    BY <1>2, <1>3, <2>1, <2>4, <2>5 DEF Agree, Calm, Wrote, Removed
  <2>7. CallFacts(Elems(docs'), Elems(store), Indexed, "invalidate", loc[p])
    BY <1>1, <1>2 DEF CallFacts
  <2>8. Fresh(Elems(docs'), cache', "invalidate", loc[p])
    BY DEF Fresh
  <2>9. Indexed' = Indexed /\ store' = store
    BY <1>1 DEF Indexed
  <2> QED
    BY <1>1, <2>2, <2>6, <2>7, <2>8, <2>9, ClientMove DEF Synced
<1> QED
  BY <1>4, <1>5

(* store.delete finds the row of the document that the index has lost. *)
LEMMA ClientStoreLookup ==
    ASSUME NEW p, Procs = {p}, \A path \in Paths : path \notin Ids,
           TypeInv, ClientInv, StoreDeleteLookup(p)
    PROVE  ClientInv'
<1> DEFINE D == Elems(docs)
           R == Elems(store)
           i == StoreGet(loc[p].key)
<1>1. /\ docs \in Seq(Doc) /\ store \in Seq(Doc) /\ CallOK(pc[p], loc[p]) /\ IdsDiffer(store)
      /\ R \subseteq Doc /\ loc[p] \in Locals
      /\ Indexed => Agree(D, R, pc[p], loc[p])
      /\ CallFacts(D, R, Indexed, pc[p], loc[p]) /\ Fresh(D, cache, pc[p], loc[p])
      /\ pc[p] = "delLookup" /\ UNCHANGED <<docs, store, cache, loaded>>
  BY ClientNow DEF StoreDeleteLookup
<1>2. loc[p].op \in {"delete", "deletePath", "drop"}
  BY <1>1 DEF CallOK, OpsAt
<1>3. /\ i # 0 => i \in 1..Len(store) /\ store[i] \in R /\ store[i].id \in Ids
      /\ i # 0 => store[i].id = loc[p].key
                  \/ (store[i].path = loc[p].key /\ \A r \in R : r.id # loc[p].key)
      /\ i = 0 => \A r \in R : r.id # loc[p].key /\ r.path # loc[p].key
  <2>1. /\ IdPos(store, loc[p].key) # 0 => /\ IdPos(store, loc[p].key) \in 1..Len(store)
                                           /\ store[IdPos(store, loc[p].key)].id = loc[p].key
        /\ IdPos(store, loc[p].key) = 0 => \A j \in 1..Len(store) : store[j].id # loc[p].key
    BY <1>1, IdPosFact
  <2>2. /\ PathPos(store, loc[p].key) # 0 => /\ PathPos(store, loc[p].key) \in 1..Len(store)
                                             /\ store[PathPos(store, loc[p].key)].path = loc[p].key
        /\ PathPos(store, loc[p].key) = 0 => \A j \in 1..Len(store) : store[j].path # loc[p].key
    BY <1>1, PathPosFact
  <2>3. i # 0 => i \in 1..Len(store)
    BY <2>1, <2>2 DEF StoreGet
  <2>4. \A j \in 1..Len(store) : store[j] \in R /\ store[j].id \in Ids
    BY <1>1, FoundFact, ElemsFact
  <2>5. \A r \in R : \E j \in 1..Len(store) : store[j] = r
    BY <1>1, ElemsFact
  <2> HIDE DEF R
  <2> QED
    BY <2>1, <2>2, <2>3, <2>4, <2>5 DEF StoreGet
<1>4. \A r \in R : r.id \in Ids /\ r.path \in Paths
  BY <1>1, DocFact
<1>5. CASE i = 0
  <2>1. Return(p, NoId)
    BY <1>5 DEF StoreDeleteLookup
  <2>2. CASE loc[p].op = "drop"
    <3>1. Calm(pc[p], loc[p])
      BY <1>1, <2>2 DEF Calm, Wrote, Removed
    <3> QED
      BY <1>1, <2>1, <3>1, ClientReturn
  <2>3. CASE loc[p].op \in {"delete", "deletePath"}
    <3>1. Indexed
      BY <1>1, <2>3 DEF CallFacts
    <3>2. \E e \in R : loc[p].key \in {e.id, e.path}
      BY <1>1, <2>3, <3>1 DEF Agree, Removed
    <3> QED
      BY <1>3, <1>5, <3>2
  <2> QED
    BY <1>2, <2>2, <2>3
<1>6. CASE i # 0
  <2> DEFINE l == [loc[p] EXCEPT !.key = store[i].id]
  <2>1. Goto(p, "delCommit", l)
    BY <1>6 DEF StoreDeleteLookup
  <2>2. l.op = loc[p].op /\ l.key = store[i].id
    BY <1>1 DEF Locals
  <2>3. Moves(p, "delCommit", l)
    BY <2>1, GotoMoves
  <2> HIDE DEF l, i, D, R
  <2>4. CallFacts(D, R, Indexed, "delCommit", l)
    BY <1>1, <1>2, <1>3, <1>6, <2>2 DEF CallFacts
  <2>5. Fresh(D, cache, "delCommit", l)
    BY <1>1 DEF Fresh
  <2>6. CASE loc[p].op = "drop"
    <3>1. Indexed => Agree(D, R, "delCommit", l)
      BY <1>1, <2>2, <2>6 DEF Agree, Calm, Wrote, Removed
    <3> QED
      BY <1>1, <2>3, <2>4, <2>5, <3>1, ClientQuiet DEF D, R
  <2>7. CASE loc[p].op \in {"delete", "deletePath"}
    <3>1. Indexed
      BY <1>1, <2>7 DEF CallFacts
    <3>2. PICK e \in R : /\ D = Without(R, e.id)
                         /\ \A d \in D : d.path # e.path
                         /\ loc[p].key \in {e.id, e.path}
      BY <1>1, <2>7, <3>1 DEF Agree, Removed
    <3>3. store[i].id = e.id
      <4>1. CASE store[i].id = loc[p].key
        BY <1>3, <1>4, <1>6, <3>2, <4>1
      <4>2. CASE store[i].path = loc[p].key /\ \A r \in R : r.id # loc[p].key
        <5>1. store[i].path = e.path
          BY <3>2, <4>2
        <5> QED
          BY <1>3, <1>6, <3>2, <5>1 DEF Without
      <4> QED
        BY <1>3, <1>6, <4>1, <4>2
    <3>4. Agree(D, R, "delCommit", l)
      BY <2>2, <2>7, <3>2, <3>3 DEF Agree, Calm, Wrote, Removed
    <3> QED
      BY <1>1, <2>3, <2>4, <2>5, <3>4, ClientQuiet DEF D, R
  <2> QED
    BY <1>2, <2>6, <2>7
<1> QED
  BY <1>5, <1>6

LEMMA ClientStoreDelete ==
    ASSUME NEW p, Procs = {p}, TypeInv, ClientInv, StoreDeleteCommit(p)
    PROVE  ClientInv'
<1> DEFINE D == Elems(docs)
           R == Elems(store)
<1>1. /\ docs \in Seq(Doc) /\ store \in Seq(Doc) /\ CallOK(pc[p], loc[p]) /\ IdsDiffer(store)
      /\ Indexed => Agree(D, R, pc[p], loc[p])
      /\ CallFacts(D, R, Indexed, pc[p], loc[p]) /\ Fresh(D, cache, pc[p], loc[p])
      /\ pc[p] = "delCommit" /\ store' = RowsWithout(loc[p].key) /\ UNCHANGED <<docs, cache, loaded>>
  BY ClientNow DEF StoreDeleteCommit
<1>2. Elems(store') = Without(R, loc[p].key) /\ IdsDiffer(store') /\ Indexed' = Indexed
  BY <1>1, DeleteElems DEF Indexed
<1>3. loc[p].op \in {"delete", "deletePath", "drop"}
  BY <1>1 DEF CallOK, OpsAt
<1>4. ASSUME NEW label, NEW l, Moves(p, label, l), label \notin {"fill", "invalidate"},
             Indexed => Agree(D, Elems(store'), label, l),
             CallFacts(D, Elems(store'), Indexed, label, l)
      PROVE  ClientInv'
  <2>1. Fresh(D, cache, label, l)
    BY <1>1, <1>4 DEF Fresh
  <2> QED
    BY <1>1, <1>2, <1>4, <2>1, ClientMove DEF Synced
<1>5. CASE loc[p].op = "drop" /\ Indexed
  <2>1. Moves(p, "evict", loc[p])
    BY <1>5, GotoMoves DEF StoreDeleteCommit, Indexed
  <2>2. D = R
    BY <1>1, <1>5 DEF Agree, Calm, Wrote, Removed
  <2>3. Agree(D, Elems(store'), "evict", loc[p])
    BY <1>2, <2>2 DEF Agree, Calm, Wrote, Removed
  <2>4. CallFacts(D, Elems(store'), Indexed, "evict", loc[p])
    BY <1>1, <1>2, <1>5 DEF CallFacts, Without
  <2> QED
    BY <1>4, <2>1, <2>3, <2>4
<1>6. CASE ~(loc[p].op = "drop" /\ Indexed)
  <2>1. Moves(p, "idle", NoLocals)
    BY <1>6, ReturnMoves DEF StoreDeleteCommit, Indexed
  <2>2. Indexed => D = Elems(store')
    BY <1>1, <1>2, <1>3, <1>6 DEF Agree, Removed
  <2>3. Indexed => Agree(D, Elems(store'), "idle", NoLocals)
    BY <2>2, IdleFacts DEF Agree, Calm
  <2> QED
    BY <1>4, <2>1, <2>3, IdleFacts
<1> QED
  BY <1>5, <1>6

(* A drop takes the record from the index when its row is gone. *)
LEMMA ClientEvict ==
    ASSUME NEW p, Procs = {p}, \A path \in Paths : path \notin Ids,
           TypeInv, Plain, ClientInv, DropEvict(p)
    PROVE  ClientInv'
<1> DEFINE D == Elems(docs)
           R == Elems(store)
           i == KeyPos(docs, loc[p].key)
<1>1. /\ docs \in Seq(Doc) /\ CallOK(pc[p], loc[p]) /\ IdsDiffer(store) /\ D \subseteq Doc
      /\ Indexed => Agree(D, R, pc[p], loc[p])
      /\ CallFacts(D, R, Indexed, pc[p], loc[p])
      /\ pc[p] = "evict" /\ UNCHANGED <<store, cache, loaded>>
      /\ docs' = IF i = 0 THEN docs ELSE RemoveAt(docs, i)
      /\ Goto(p, "invalidate", loc[p])
  BY ClientNow DEF DropEvict
<1>2. loc[p].op = "drop" /\ Indexed /\ loc[p].key \in Ids
  BY <1>1 DEF CallOK, OpsAt, CallFacts
<1>3. R = Without(D, loc[p].key)
  BY <1>1, <1>2 DEF Agree
<1>4. Elems(docs') = R
  <2>1. CASE i = 0
    <3>1. \A d \in D : d.id # loc[p].key
      BY <1>1, <2>1, KeyPosFact, ElemsFact
    <3> QED
      BY <1>1, <1>3, <2>1, <3>1 DEF Without
  <2>2. CASE i # 0
    <3>1. i \in 1..Len(docs) /\ (docs[i].path = loc[p].key \/ docs[i].id = loc[p].key)
      BY <1>1, <2>2, KeyPosFact
    <3>2. docs[i].path \in Paths
      BY <1>1, <3>1, FoundFact
    <3>3. docs[i].id = loc[p].key
      BY <1>2, <3>1, <3>2
    <3>4. IdsDiffer(docs)
      BY PlainDocs
    <3> HIDE DEF i
    <3>5. Elems(RemoveAt(docs, i)) = Without(D, docs[i].id)
      BY <1>1, <3>1, <3>4, RemoveElems
    <3> QED
      BY <1>1, <1>3, <2>2, <3>3, <3>5
  <2> QED
    BY <2>1, <2>2
<1>5. Moves(p, "invalidate", loc[p]) /\ Indexed' = Indexed
  BY <1>1, GotoMoves DEF Indexed
<1>6. Agree(R, R, "invalidate", loc[p])
  BY <1>2 DEF Agree, Calm, Wrote, Removed
<1>7. CallFacts(R, R, Indexed, "invalidate", loc[p])
  BY <1>1, <1>2 DEF CallFacts
<1>8. Fresh(R, cache', "invalidate", loc[p])
  BY DEF Fresh
<1>9. store' = store
  BY <1>1
<1> QED
  BY <1>1, <1>4, <1>5, <1>6, <1>7, <1>8, <1>9, ClientMove DEF Synced


(* A refresh reads a row and puts it into the index, which has it already. *)
LEMMA ClientRefreshStart ==
    ASSUME NEW p, Procs = {p}, TypeInv, ClientInv, RefreshStart(p) \/ RefreshSetVector(p)
    PROVE  ClientInv'
<1> DEFINE D == Elems(docs)
           R == Elems(store)
<1>1. /\ loc[p] \in Locals /\ CallOK(pc[p], loc[p]) /\ store \in Seq(Doc) /\ R \subseteq Doc
      /\ CallFacts(D, R, Indexed, pc[p], loc[p])
  BY ClientNow
<1>2. pc[p] \in {"idle", "setVector"} /\ UNCHANGED <<docs, store, cache, loaded>>
  BY DEF RefreshStart, RefreshSetVector, Begin
<1>3. Calm(pc[p], loc[p]) /\ pc[p] # "invalidate"
  BY <1>2 DEF Calm, Wrote, Removed
<1>4. ASSUME NEW label, NEW l, Moves(p, label, l), l.op = "refresh", l.doc \in R,
             label = "setVector" \/ label = IF Indexed THEN "upsert" ELSE "load"
      PROVE  ClientInv'
  <2> HIDE DEF D, R
  <2>1. CallFacts(D, R, Indexed, label, l)
    BY <1>4 DEF CallFacts
  <2>2. Calm(label, l) /\ label \notin {"invalidate", "fill"}
    BY <1>4 DEF Calm, Wrote, Removed
  <2> QED
    BY <1>2, <1>3, <1>4, <2>1, <2>2, ClientCalm DEF D, R
<1>5. CASE RefreshStart(p)
  <2>1. PICK r \in Range(store) :
          Begin(p, "setVector", [NoLocals EXCEPT !.op = "refresh", !.doc = r])
    BY <1>5 DEF RefreshStart
  <2> DEFINE l == [NoLocals EXCEPT !.op = "refresh", !.doc = r]
  <2>2. l.op = "refresh" /\ l.doc = r
    BY NoLocalsFact DEF Locals
  <2>3. r \in R
    BY <1>1, <2>1, ElemsFact
  <2>4. Moves(p, "setVector", l)
    BY <2>1, GotoMoves
  <2> HIDE DEF l, R
  <2> QED
    BY <1>4, <2>2, <2>3, <2>4
<1>6. CASE RefreshSetVector(p)
  <2>1. pc[p] = "setVector" /\ loc[p].op = "refresh"
    BY <1>1, <1>6 DEF RefreshSetVector, CallOK, OpsAt
  <2>2. loc[p].doc \in R
    BY <1>1, <2>1 DEF CallFacts
  <2>3. EnsureLoaded("upsert") = IF Indexed THEN "upsert" ELSE "load"
    BY QmdAssumption DEF EnsureLoaded, Indexed
  <2>4. CASE Return(p, NoId)
    BY <1>2, <1>3, <2>4, ClientReturn
  <2>5. CASE Goto(p, EnsureLoaded("upsert"), loc[p])
    BY <1>4, <2>1, <2>2, <2>3, <2>5, GotoMoves
  <2> QED
    BY <1>6, <2>4, <2>5 DEF RefreshSetVector
<1> QED
  BY <1>5, <1>6

LEMMA ClientUpsert ==
    ASSUME NEW p, Procs = {p}, TypeInv, Plain, ClientInv, IndexUpsert(p)
    PROVE  ClientInv'
<1> DEFINE d == loc[p].doc
           k == NamePos(docs, d)
<1>1. /\ docs \in Seq(Doc) /\ CallOK(pc[p], loc[p]) /\ Elems(docs) \subseteq Doc /\ IdsDiffer(store)
      /\ Indexed => Agree(Elems(docs), Elems(store), pc[p], loc[p])
      /\ CallFacts(Elems(docs), Elems(store), Indexed, pc[p], loc[p])
      /\ pc[p] = "upsert" /\ UNCHANGED <<store, cache, loaded>>
      /\ PlaceAt(k, d) /\ Goto(p, "invalidate", loc[p])
  BY ClientNow DEF IndexUpsert
<1>2. loc[p].op = "refresh" /\ Indexed /\ d \in Elems(store)
  BY <1>1 DEF CallOK, OpsAt, CallFacts
<1>3. Elems(docs) = Elems(store)
  BY <1>1, <1>2 DEF Agree, Calm, Wrote, Removed
<1>4. PICK m \in 1..Len(docs) : docs[m] = d
  BY <1>1, <1>2, <1>3, ElemsFact
<1>5. k # 0 /\ k \in 1..Len(docs) /\ (docs[k].id = d.id \/ docs[k].path = d.path)
  BY <1>1, <1>4, NamePosFact
<1>6. docs' = [docs EXCEPT ![k] = d]
  BY <1>1, <1>5 DEF PlaceAt
<1> HIDE DEF k
<1>7. IdsDiffer(docs) /\ \A x, y \in Elems(docs) : x.id = y.id \/ x.path = y.path => x = y
  BY PlainDocs
<1>8. docs[k] \in Elems(docs)
  BY <1>1, <1>5, ElemsFact
<1> HIDE DEF d
<1>9. docs[k] = d /\ d \in Doc
  BY <1>1, <1>2, <1>3, <1>5, <1>7, <1>8
<1>10. Elems([docs EXCEPT ![k] = d]) = Without(Elems(docs), d.id) \cup {d}
  BY <1>1, <1>5, <1>7, <1>9, ReplaceElems
<1>11. Without(Elems(docs), d.id) \cup {d} = Elems(docs)
  BY <1>2, <1>3, <1>7 DEF Without
<1>12. Elems(docs') = Elems(store)
  BY <1>3, <1>6, <1>10, <1>11
<1>13. Moves(p, "invalidate", loc[p]) /\ Indexed' = Indexed /\ store' = store
  BY <1>1, GotoMoves DEF Indexed
<1>14. Agree(Elems(store), Elems(store), "invalidate", loc[p])
  BY <1>2 DEF Agree, Calm, Wrote, Removed
<1>15. CallFacts(Elems(store), Elems(store), Indexed, "invalidate", loc[p])
  BY <1>1, <1>2 DEF CallFacts
<1>16. Fresh(Elems(store), cache', "invalidate", loc[p])
  BY DEF Fresh
<1> QED
  BY <1>1, <1>12, <1>13, <1>14, <1>15, <1>16, ClientMove DEF Synced

(* A search caches what it found: nobody wrote to the index in between. *)
LEMMA ClientSearch ==
    ASSUME NEW p, Procs = {p}, TypeInv, ClientInv, SearchStart(p) \/ SearchFill(p)
    PROVE  ClientInv'
<1> DEFINE D == Elems(docs)
           R == Elems(store)
<1>1. /\ docs \in Seq(Doc) /\ CallOK(pc[p], loc[p]) /\ IdsDiffer(store)
      /\ Indexed => Agree(D, R, pc[p], loc[p])
      /\ CallFacts(D, R, Indexed, pc[p], loc[p]) /\ Fresh(D, cache, pc[p], loc[p])
      /\ UNCHANGED <<docs, store, loaded>>
  BY ClientNow DEF SearchStart, SearchFill
<1>2. CASE SearchStart(p)
  <2>1. PICK query \in Contents :
          /\ Begin(p, "fill", [NoLocals EXCEPT !.op = "search", !.query = query,
                                               !.snap = Scan(query)])
          /\ UNCHANGED cache
    BY <1>2 DEF SearchStart
  <2> DEFINE l == [NoLocals EXCEPT !.op = "search", !.query = query, !.snap = Scan(query)]
  <2>2. l.op = "search" /\ l.query = query /\ l.snap = Scan(query)
    BY NoLocalsFact DEF Locals
  <2>3. Moves(p, "fill", l) /\ pc[p] = "idle"
    BY <2>1, GotoMoves DEF Begin
  <2>4. Scan(query) = {d \in D : d.content = query}
    BY <1>1, ElemsFact DEF Scan
  <2> HIDE DEF l, D, R
  <2>5. Indexed => Agree(D, R, "fill", l)
    BY <1>1, <2>3 DEF Agree, Calm, Wrote, Removed
  <2>6. CallFacts(D, R, Indexed, "fill", l)
    BY <2>2 DEF CallFacts
  <2>7. Fresh(D, cache, "fill", l)
    BY <1>1, <2>2, <2>3, <2>4 DEF Fresh
  <2> QED
    BY <1>1, <2>1, <2>3, <2>5, <2>6, <2>7, ClientQuiet DEF D, R
<1>3. CASE SearchFill(p)
  <2> DEFINE C == CacheInsert(loc[p].query, loc[p].snap)
  <2>1. pc[p] = "fill" /\ cache' = C /\ Moves(p, "idle", NoLocals) /\ Indexed' = Indexed
    BY <1>3, ReturnMoves DEF SearchFill, Indexed
  <2>2. /\ loc[p].snap = {d \in D : d.content = loc[p].query}
        /\ \A q \in DOMAIN cache : cache[q] = {d \in D : d.content = q}
    BY <1>1, <2>1 DEF Fresh
  <2>3. ASSUME NEW q \in DOMAIN C
        PROVE  C[q] = {d \in D : d.content = q}
    <3>1. q = loc[p].query \/ q \in DOMAIN cache
      BY DEF CacheInsert
    <3>2. C[q] = IF q = loc[p].query THEN loc[p].snap ELSE cache[q]
      BY DEF CacheInsert
    <3> HIDE DEF C, D
    <3> QED
      BY <2>2, <3>1, <3>2
  <2> HIDE DEF C, D, R
  <2>4. Fresh(D, C, "idle", NoLocals)
    BY <2>3 DEF Fresh
  <2>5. Indexed => Agree(D, R, "idle", NoLocals)
    BY <1>1, <2>1, IdleFacts DEF Agree, Calm, Wrote, Removed
  <2> QED
    BY <1>1, <2>1, <2>4, <2>5, IdleFacts, ClientMove DEF Synced, D, R
<1> QED
  BY <1>2, <1>3

(* Right after a boot the index is empty and to be loaded, or a listing of    *)
(* the rows.                                                                  *)
LEMMA ClientBoot ==
    ASSUME NEW p, Procs = {p}, store \in Seq(Doc), NEW boot \in Seq(Doc),
           boot \in IF Lazy THEN {<< >>} ELSE SetToSeqs(Range(store)),
           NEW C, C = << >>
    PROVE  Synced(Elems(boot), Elems(store), C, ~Lazy, "idle", NoLocals)
<1>1. ~Lazy => Elems(boot) = Elems(store)
  <2>1. IsFiniteSet(Range(store)) /\ Range(store) \in SUBSET Doc /\ Elems(store) = Range(store)
    BY RangeFact, ElemsFact
  <2> QED
    BY <2>1, ListedElems
<1>2. ~Lazy => Agree(Elems(boot), Elems(store), "idle", NoLocals)
  BY <1>1, IdleFacts DEF Agree, Calm
<1>3. DOMAIN C = {}
  OBVIOUS
<1>4. Fresh(Elems(boot), C, "idle", NoLocals)
  BY <1>3 DEF Fresh
<1> QED
  BY <1>2, <1>4, IdleFacts DEF Synced

LEMMA ClientInit ==
    ASSUME NEW p, Procs = {p}, Init
    PROVE  ClientInv
<1>1. TypeInv
  BY InitType
<1>2. docs \in Seq(Doc) /\ store \in Seq(Doc)
  BY <1>1 DEF TypeInv, SharedOK
<1>3. Len(store) \in {0, 1}
  BY DEF Init
<1>4. IdsDiffer(store)
  BY <1>3 DEF IdsDiffer
<1>5. pc[p] = "idle" /\ loc[p] = NoLocals
  BY DEF Init
<1>6. Indexed = ~Lazy
  BY QmdAssumption DEF Init, Indexed
<1>7. Synced(Elems(docs), Elems(store), cache, ~Lazy, "idle", NoLocals)
  BY <1>2, ClientBoot DEF Init
<1> QED
  BY <1>4, <1>5, <1>6, <1>7 DEF ClientInv

LEMMA ClientRestart ==
    ASSUME NEW p, Procs = {p}, TypeInv, TypeInv', ClientInv, Restart
    PROVE  ClientInv'
<1>1. docs' \in Seq(Doc) /\ store \in Seq(Doc) /\ store' = store /\ IdsDiffer(store)
  BY DEF TypeInv, SharedOK, Restart, ClientInv
<1>2. pc'[p] = "idle" /\ loc'[p] = NoLocals
  BY DEF Restart
<1>3. Indexed' = ~Lazy
  BY QmdAssumption DEF Restart, Indexed
<1>4. Synced(Elems(docs'), Elems(store), cache', ~Lazy, "idle", NoLocals)
  BY <1>1, ClientBoot DEF Restart
<1> QED
  BY <1>1, <1>2, <1>3, <1>4 DEF ClientInv

LEMMA ClientNext ==
    ASSUME NEW p, Procs = {p}, ~StoreMayFail, \A path \in Paths : path \notin Ids,
           TypeInv, TypeInv', Plain, Plain', ClientInv, Next
    PROVE  ClientInv'
<1>1. CASE Step(p)
  <2>1. ~StoreError(p)
    BY DEF StoreError
  <2>2. CASE \/ LoadSnapshot(p) \/ LoadInstall(p) \/ GetStart(p)
             \/ AddStart(p) \/ AddCanonicalLookup(p) \/ IdenticalInDocs(p)
             \/ IdenticalInStore(p) \/ AddWrite(p) \/ AddResolve(p)
    BY <2>2, ClientLoad, ClientLookups, ClientAddWrite
  <2>3. CASE \/ Invalidate(p) \/ PutValidate(p) \/ PutCommit(p)
             \/ UpdateStart(p) \/ UpdateFetch(p) \/ UpdateWrite(p) \/ UpdateLookup(p)
    BY <2>3, ClientInvalidate, ClientPutLookup, ClientPut, ClientUpdateLookup, ClientUpdateWrite
  <2>4. CASE \/ DeleteStart(p) \/ DeleteFromDocs(p) \/ DropStart(p)
             \/ StoreDeleteLookup(p) \/ StoreDeleteCommit(p) \/ DropEvict(p)
    BY <2>4, ClientDeleteStart, ClientRemove, ClientStoreLookup, ClientStoreDelete, ClientEvict
  <2>5. CASE \/ RefreshStart(p) \/ RefreshSetVector(p) \/ IndexUpsert(p)
             \/ SearchStart(p) \/ SearchFill(p)
    BY <2>5, ClientRefreshStart, ClientUpsert, ClientSearch
  <2> QED
    BY <1>1, <2>1, <2>2, <2>3, <2>4, <2>5 DEF Step
<1>2. CASE Restart
  BY <1>2, ClientRestart
<1> QED
  BY <1>1, <1>2 DEF Next

LEMMA ClientHolds ==
    ASSUME NEW c, Procs = {c}, ~StoreMayFail, \A path \in Paths : path \notin Ids
    PROVE  PlainSpec => [](TypeInv /\ (Plain => ClientInv))
<1>1. Init => TypeInv /\ (Plain => ClientInv)
  BY InitType, ClientInit
<1>2. ASSUME TypeInv, Plain => ClientInv, [Plain /\ Next]_vars
      PROVE  TypeInv' /\ (Plain => ClientInv)'
  <2>1. TypeInv'
    BY <1>2, StepType
  <2>2. CASE Plain /\ Next
    BY <1>2, <2>1, <2>2, ClientNext
  <2>3. CASE UNCHANGED vars
    <3>1. Plain' = Plain
      BY <2>3 DEF vars, Plain, SharedName, EarlyAnswer, Indexed
    <3>2. ClientInv' = ClientInv
      BY <2>3 DEF vars, ClientInv, Indexed
    <3> QED
      BY <1>2, <2>1, <3>1, <3>2
  <2> QED
    BY <1>2, <2>1, <2>2, <2>3
<1> QED
  BY <1>1, <1>2, PTL DEF PlainSpec

(* With one client the index and the store hold the same documents, one for   *)
(* one, whenever no call is under way: the writes and deletes of writer.rs    *)
(* and delete_memory_record leave both in step, across the load and restarts. *)
THEOREM ClientKeepsIndex ==
    ASSUME NEW c, Procs = {c}, ~StoreMayFail, \A path \in Paths : path \notin Ids
    PROVE  PlainSpec => []ClientIndexMatchesStore
<1>1. PlainSpec => [](TypeInv /\ (Plain => ClientInv))
  BY ClientHolds
<1>2. ASSUME TypeInv, Plain => ClientInv  PROVE ClientIndexMatchesStore
  <2>1. SUFFICES ASSUME Plain, Quiescent, Indexed
                 PROVE  Range(docs) = Range(store) /\ Len(docs) = Len(store)
    BY DEF ClientIndexMatchesStore, IndexMatchesStore
  <2>2. /\ docs \in Seq(Doc) /\ store \in Seq(Doc) /\ IdsDiffer(store)
        /\ Agree(Elems(docs), Elems(store), pc[c], loc[c])
    BY <1>2, <2>1, ClientNow
  <2>3. pc[c] = "idle"
    BY <2>1 DEF Quiescent
  <2>4. Elems(docs) = Elems(store)
    BY <2>2, <2>3 DEF Agree, Calm, Wrote, Removed
  <2>5. IdsDiffer(docs)
    BY <1>2, <2>1, PlainDocs
  <2>6. Len(docs) = Len(store)
    BY <2>2, <2>4, <2>5, CountElems
  <2> QED
    BY <2>2, <2>4, <2>6, ElemsFact
<1> QED
  BY <1>1, <1>2, PTL

(* With one client a cached search answers what a scan of the index would     *)
(* find whenever no call is under way: every write to docs in writer.rs ends  *)
(* in invalidate_cache, and a fill stores what is still true.                 *)
THEOREM ClientKeepsCache ==
    ASSUME NEW c, Procs = {c}, ~StoreMayFail, \A path \in Paths : path \notin Ids
    PROVE  PlainSpec => []ClientCacheFresh
<1>1. PlainSpec => [](TypeInv /\ (Plain => ClientInv))
  BY ClientHolds
<1>2. ASSUME TypeInv, Plain => ClientInv  PROVE ClientCacheFresh
  <2>1. SUFFICES ASSUME Plain, Quiescent, NEW q \in DOMAIN cache  PROVE cache[q] = Scan(q)
    BY DEF ClientCacheFresh, CacheFresh
  <2>2. docs \in Seq(Doc) /\ Fresh(Elems(docs), cache, pc[c], loc[c])
    BY <1>2, <2>1, ClientNow
  <2>3. pc[c] = "idle"
    BY <2>1 DEF Quiescent
  <2> QED
    BY <2>2, <2>3, ElemsFact DEF Fresh, Scan
<1> QED
  BY <1>1, <1>2, PTL

(* The steps at which a delete or a drop of an id ends. *)
LEMMA DeleteEnds ==
    ASSUME NEW p, Procs = {p}, ~StoreMayFail, TypeInv, Plain, ClientInv, Step(p),
           loc[p].op \in {"delete", "drop"}, pc'[p] = "idle"
    PROVE  store' \in Seq(Doc) /\ \A r \in Elems(store') : r.id # loc[p].key
<1> DEFINE D == Elems(docs)
           R == Elems(store)
           key == loc[p].key
<1>1. /\ docs \in Seq(Doc) /\ store \in Seq(Doc) /\ CallOK(pc[p], loc[p]) /\ IdsDiffer(store)
      /\ Indexed => Agree(D, R, pc[p], loc[p])
      /\ CallFacts(D, R, Indexed, pc[p], loc[p])
  BY ClientNow
<1>2. pc[p] \in {"load", "install", "remove", "invalidate", "delLookup", "delCommit", "evict"}
  BY <1>1 DEF CallOK, OpsAt, Labels
<1>3. ASSUME NEW label, NEW l, Goto(p, label, l)  PROVE label = "idle"
  BY <1>3 DEF Goto, TypeInv, ControlOK
<1>4. \/ LoadSnapshot(p) \/ LoadInstall(p) \/ DeleteFromDocs(p) \/ Invalidate(p)
      \/ StoreDeleteLookup(p) \/ StoreDeleteCommit(p) \/ DropEvict(p)
  BY <1>2 DEF Step, Begin, GetStart, AddStart, AddCanonicalLookup, IdenticalInDocs,
     IdenticalInStore, AddWrite, AddResolve, PutValidate, PutCommit, StoreError, UpdateStart,
     UpdateFetch, UpdateWrite, UpdateLookup, DeleteStart, DropStart, RefreshStart,
     RefreshSetVector, IndexUpsert, SearchStart, SearchFill
<1>5. CASE LoadSnapshot(p) \/ LoadInstall(p) \/ DropEvict(p)
  <2>1. AfterLoad("delete") # "idle"
    BY DEF AfterLoad
  <2>2. pc[p] = "install" => loc[p].op # "drop"
    BY <1>1 DEF CallOK, OpsAt
  <2> QED
    BY <1>3, <1>5, <2>1, <2>2 DEF LoadSnapshot, LoadInstall, DropEvict
<1>6. CASE DeleteFromDocs(p)
  <2>1. pc[p] = "remove" /\ KeyPos(docs, key) = 0 /\ store' = store
    BY <1>3, <1>6 DEF DeleteFromDocs
  <2>2. loc[p].op = "delete" /\ Indexed
    BY <1>1, <2>1 DEF CallOK, OpsAt, CallFacts
  <2>3. D = R
    BY <1>1, <2>1, <2>2 DEF Agree, Calm, Wrote, Removed
  <2>4. \A d \in D : d.id # key
    BY <1>1, <2>1, KeyPosFact, ElemsFact
  <2> QED
    BY <1>1, <2>1, <2>3, <2>4
<1>7. CASE Invalidate(p)
  <2>1. pc[p] = "invalidate" /\ loc[p].op # "delete" /\ store' = store
    BY <1>3, <1>7 DEF Invalidate
  <2> QED
    BY <1>1, <2>1 DEF CallFacts
<1>8. CASE StoreDeleteLookup(p)
  <2>1. StoreGet(key) = 0 /\ store' = store
    BY <1>3, <1>8 DEF StoreDeleteLookup
  <2>2. IdPos(store, key) = 0
    BY <2>1 DEF StoreGet
  <2> QED
    BY <1>1, <2>1, <2>2, IdPosFact, ElemsFact
<1>9. CASE StoreDeleteCommit(p)
  <2>1. store' = RowsWithout(key)
    BY <1>9 DEF StoreDeleteCommit
  <2> QED
    BY <1>1, <2>1, DeleteElems DEF Without
<1> QED
  BY <1>4, <1>5, <1>6, <1>7, <1>8, <1>9

(* With one client a delete or a drop of an id that has ended leaves no row   *)
(* of that id behind, whether the record was in the index, only in the store  *)
(* (an earlier session wrote it) or in neither (writer.rs, delete;            *)
(* workspace/state.rs, delete_memory_record).                                 *)
THEOREM ClientDeletesReachStore ==
    ASSUME NEW c, Procs = {c}, ~StoreMayFail, \A path \in Paths : path \notin Ids
    PROVE  PlainSpec => ClientDeleteReachesStore
<1>1. PlainSpec => [](TypeInv /\ (Plain => ClientInv))
  BY ClientHolds
<1>2. ASSUME TypeInv, Plain => ClientInv, [Plain /\ Next]_vars
      PROVE  [Plain => DeletedIsGone]_vars
  <2>1. SUFFICES ASSUME Plain, Next, UNCHANGED restarts,
                        loc[c].op \in {"delete", "drop"}, pc'[c] = "idle"
                 PROVE  \A r \in Range(store') : r.id # loc[c].key
    BY <1>2 DEF DeletedIsGone
  <2>2. ~Restart
    <3>1. restarts \in Nat
      BY <1>2, QmdAssumption DEF TypeInv, SharedOK
    <3> QED
      BY <2>1, <3>1 DEF Restart
  <2>3. Step(c)
    BY <2>1, <2>2 DEF Next
  <2>4. store' \in Seq(Doc) /\ \A r \in Elems(store') : r.id # loc[c].key
    BY <1>2, <2>1, <2>3, DeleteEnds
  <2> QED
    BY <2>4, ElemsFact
<1> QED
  BY <1>1, <1>2, PTL DEF PlainSpec, ClientDeleteReachesStore
=============================================================================
