------------------------------ MODULE RdbProofs -----------------------------
(***************************************************************************)
(* Proofs about module Rdb, for files of any bytes and any length.         *)
(*                                                                         *)
(* GET and KEYS go through the file with loops of their own.  They are     *)
(* compared on the places that a reader can be at: where KEYS goes from a  *)
(* place depends on the file and the place only, and GET goes the same way *)
(* until it finds its key.                                                 *)
(*                                                                         *)
(* In a plain file it is known at every byte what the reader is at: the    *)
(* invariant says which entry is next and which keys came before it.       *)
(* Where the entries are, and that a number is read as it was written,     *)
(* follows by induction from the recursive functions that make the file.   *)
(***************************************************************************)
EXTENDS Rdb, SequenceTheorems, WellFoundedInduction, TLAPS

-----------------------------------------------------------------------------
(* The places of a reader *)

\* A stage, a position, and what was read of an entry, where it matters.
Place(stage, p, t, k) ==
    <<stage, p, IF stage \in {"key", "value"} THEN t ELSE 0, IF stage = "value" THEN k ELSE <<>> >>

Here == Place(pc, pos, type, key)
Start == Place("scan", 2, 0, <<>>)
Hit(p) == Place("value", p, RDB_TYPE_STRING, target)

\* The places at which the command is over, ...
AtEnd(n) ==
    \/ n[1] = "scan" /\ readByte(n[2]).v = RDB_EOF
    \/ n[1] = "entry" /\ readByte(n[2]).v = RDB_EOF
    \/ n[1] = "key" /\ readString(n[2]).v = <<>>

\* ... and where KEYS goes from the others.
FromScan(p) ==
    LET byte == readByte(p)
    IN  IF byte.v = RDB_DATABASE_START THEN Place("sizes", readLength(byte.p).p, 0, <<>>)
        ELSE Place("scan", byte.p, 0, <<>>)

FromSizes(p) ==
    LET byte == readByte(p)
    IN  Place("entry", IF byte.v = RDB_HASHTABLE_SIZE
                       THEN readLength(readLength(byte.p).p).p ELSE byte.p, 0, <<>>)

FromEntry(p) ==
    LET byte == readByte(p)
        after == readByte(Expiry(byte.v, byte.p).p)
    IN  IF byte.v \in {RDB_EXPIRE_MS, RDB_EXPIRE_SEC} THEN Place("key", after.p, after.v, <<>>)
        ELSE Place("key", byte.p, byte.v, <<>>)

FromKey(p, t) == Place("value", readString(p).p, t, readString(p).v)

FromValue(p, t) ==
    Place("entry", IF t = RDB_TYPE_STRING THEN readString(p).p ELSE p, 0, <<>>)

After(n) ==
    CASE n[1] = "scan" -> FromScan(n[2])
      [] n[1] = "sizes" -> FromSizes(n[2])
      [] n[1] = "entry" -> FromEntry(n[2])
      [] n[1] = "key" -> FromKey(n[2], n[3])
      [] OTHER -> FromValue(n[2], n[3])

\* A reader at n comes to m: m is in every set of places that holds n and that
\* no reader leaves.
Closed(C) == \A x \in C : AtEnd(x) \/ After(x) \in C
Reaches(n, m) == \A C : n \in C /\ Closed(C) => m \in C

\* A reader that comes to a place goes on from there.
LEMMA Onward ==
    ASSUME NEW n, NEW m, Reaches(n, m), ~AtEnd(m)
    PROVE  Reaches(n, After(m))
<1>1. SUFFICES ASSUME NEW C, n \in C, Closed(C) PROVE After(m) \in C
  BY Zenon DEF Reaches
<1>2. m \in C
  BY <1>1, Zenon DEF Reaches
<1> QED
  BY <1>1, <1>2, Zenon DEF Closed

\* It comes to another place only by its next step.
LEMMA Stepwise ==
    ASSUME NEW n, NEW m, Reaches(n, m), n # m
    PROVE  ~AtEnd(n) /\ Reaches(After(n), m)
<1>1. ~AtEnd(n)
  <2>1. SUFFICES ASSUME AtEnd(n) PROVE FALSE
    OBVIOUS
  <2>2. Closed({n}) /\ n \in {n}
    BY <2>1, Zenon DEF Closed
  <2>3. m \in {n}
    BY <2>2, Zenon DEF Reaches
  <2> QED
    BY <2>3, Zenon
<1>2. ASSUME NEW C, After(n) \in C, Closed(C) PROVE m \in C
  <2>1. Closed(C \cup {n}) /\ n \in C \cup {n}
    BY <1>2, Zenon DEF Closed
  <2>2. m \in C \cup {n}
    BY <2>1, Zenon DEF Reaches
  <2> QED
    BY <2>2, Zenon
<1> QED
  BY <1>1, <1>2, Zenon DEF Reaches

LEMMA ReachesSelf == ASSUME NEW n PROVE Reaches(n, n)
  BY Zenon DEF Reaches

\* The places do not change while the file does not.
LEMMA SamePlaces ==
    ASSUME UNCHANGED file, NEW n, NEW m PROVE Reaches(n, m)' <=> Reaches(n, m)
<1>1. \A p : readByte(p)' = readByte(p)
  BY DEF readByte
<1>2. \A p, k : fread(p, k)' = fread(p, k)
  BY DEF fread
<1>3. \A p : readUint32(p)' = readUint32(p) /\ readUint64(p)' = readUint64(p)
  BY <1>2, Zenon DEF readUint32, readUint64
<1>4. \A p : readLength(p)' = readLength(p)
  BY <1>1, <1>3, Zenon DEF readLength
<1>5. \A p : readString(p)' = readString(p)
  BY <1>2, <1>4, Zenon DEF readString
<1>6. \A b, p : Expiry(b, p)' = Expiry(b, p)
  BY <1>3, Zenon DEF Expiry
<1>7. \A x : AtEnd(x)' <=> AtEnd(x)
  BY <1>1, <1>5, Zenon DEF AtEnd
<1>8. \A x : After(x)' = After(x)
  BY <1>1, <1>4, <1>5, <1>6, Zenon DEF After, FromScan, FromSizes, FromEntry, FromKey, FromValue, Place
<1>9. \A C : Closed(C)' <=> Closed(C)
  BY <1>7, <1>8, Zenon DEF Closed
<1> QED
  BY <1>9, Zenon DEF Reaches

-----------------------------------------------------------------------------
(* The readers go from place to place *)

Stages == {"open", "scan", "sizes", "entry", "key", "value"}

\* GET is at the key it looks for.
Found == op = "GET" /\ pc = "value" /\ type = RDB_TYPE_STRING /\ key = target

\* What both loops do: they go on to the next place, or the command is over
\* because the file is, or because GET has found its key.
Goes ==
    /\ ~AtEnd(Here) /\ ~Found /\ Here' = After(Here)
    /\ op' = op /\ pc' \in Stages \ {"open"}
Ends == Return /\ (AtEnd(Here) \/ Found)

LEMMA ScanGoes == ASSUME findDatabaseSection PROVE Goes \/ Ends
<1>1. pc = "scan" /\ Here[1] = "scan" /\ Here[2] = pos
  BY DEF findDatabaseSection, Here, Place
<1>2. After(Here) = FromScan(pos)
  BY <1>1 DEF After
<1>3. AtEnd(Here) <=> readByte(pos).v = RDB_EOF
  BY <1>1 DEF AtEnd
<1>4. CASE readByte(pos).v = RDB_EOF
  BY <1>3, <1>4 DEF findDatabaseSection, Ends, RDB_EOF, RDB_DATABASE_START
<1>5. CASE readByte(pos).v = RDB_DATABASE_START
  <2>1. /\ pc' = "sizes" /\ pos' = readLength(readByte(pos).p).p /\ op' = op
    BY <1>5 DEF findDatabaseSection, RDB_EOF, RDB_DATABASE_START
  <2>2. Here' = FromScan(pos)
    BY <1>5, <2>1 DEF Here, FromScan, Place
  <2> QED
    BY <1>1, <1>2, <1>3, <1>5, <2>1, <2>2 DEF Goes, Found, Stages, RDB_EOF, RDB_DATABASE_START
<1>6. CASE readByte(pos).v \notin {RDB_EOF, RDB_DATABASE_START}
  <2>1. /\ pc' = "scan" /\ pos' = readByte(pos).p /\ op' = op
    BY <1>1, <1>6 DEF findDatabaseSection
  <2>2. Here' = FromScan(pos)
    BY <1>6, <2>1 DEF Here, FromScan, Place
  <2> QED
    BY <1>1, <1>2, <1>3, <1>6, <2>1, <2>2 DEF Goes, Found, Stages
<1> QED
  BY <1>4, <1>5, <1>6

LEMMA SizesGoes == ASSUME skipSizes PROVE Goes \/ Ends
<1>1. pc = "sizes" /\ Here[1] = "sizes" /\ Here[2] = pos
  BY DEF skipSizes, Here, Place
<1>2. After(Here) = FromSizes(pos) /\ ~AtEnd(Here)
  BY <1>1 DEF After, AtEnd
<1>3. Here' = FromSizes(pos) /\ pc' = "entry" /\ op' = op
  BY DEF skipSizes, Here, FromSizes, Place
<1> QED
  BY <1>1, <1>2, <1>3 DEF Goes, Found, Stages

LEMMA TypeGoes == ASSUME readType PROVE Goes \/ Ends
<1> DEFINE byte == readByte(pos)
           rest == readByte(Expiry(byte.v, byte.p).p)
<1>1. pc = "entry" /\ Here[1] = "entry" /\ Here[2] = pos
  BY DEF readType, Here, Place
<1>2. After(Here) = FromEntry(pos)
  BY <1>1 DEF After
<1>3. AtEnd(Here) <=> byte.v = RDB_EOF
  BY <1>1 DEF AtEnd
<1>4. CASE byte.v = RDB_EOF
  BY <1>3, <1>4 DEF readType, Ends, RDB_EOF, RDB_EXPIRE_MS, RDB_EXPIRE_SEC
<1>5. CASE byte.v \in {RDB_EXPIRE_MS, RDB_EXPIRE_SEC}
  <2>1. pc' = "key" /\ pos' = rest.p /\ type' = rest.v /\ op' = op
    BY <1>5 DEF readType, RDB_EOF, RDB_EXPIRE_MS, RDB_EXPIRE_SEC
  <2>2. Here' = FromEntry(pos)
    BY <1>5, <2>1 DEF Here, FromEntry, Place
  <2> QED
    BY <1>1, <1>2, <1>3, <1>5, <2>1, <2>2
       DEF Goes, Found, Stages, RDB_EOF, RDB_EXPIRE_MS, RDB_EXPIRE_SEC
<1>6. CASE byte.v \notin {RDB_EOF, RDB_EXPIRE_MS, RDB_EXPIRE_SEC}
  <2>1. pc' = "key" /\ pos' = byte.p /\ type' = byte.v /\ op' = op
    BY <1>6 DEF readType
  <2>2. Here' = FromEntry(pos)
    BY <1>6, <2>1 DEF Here, FromEntry, Place
  <2> QED
    BY <1>1, <1>2, <1>3, <1>6, <2>1, <2>2 DEF Goes, Found, Stages
<1> QED
  BY <1>4, <1>5, <1>6

LEMMA KeyGoes == ASSUME readKey PROVE Goes \/ Ends
<1>1. pc = "key" /\ Here[1] = "key" /\ Here[2] = pos /\ Here[3] = type
  BY DEF readKey, Here, Place
<1>2. After(Here) = FromKey(pos, type)
  BY <1>1 DEF After
<1>3. AtEnd(Here) <=> readString(pos).v = <<>>
  BY <1>1 DEF AtEnd
<1>4. CASE readString(pos).v = <<>>
  BY <1>3, <1>4 DEF readKey, Ends
<1>5. CASE readString(pos).v # <<>>
  <2>1. /\ pc' = "value" /\ pos' = readString(pos).p /\ key' = readString(pos).v
        /\ type' = type /\ op' = op
    BY <1>5 DEF readKey
  <2>2. Here' = FromKey(pos, type)
    BY <2>1 DEF Here, FromKey, Place
  <2> QED
    BY <1>1, <1>2, <1>3, <1>5, <2>1, <2>2 DEF Goes, Found, Stages
<1> QED
  BY <1>4, <1>5

LEMMA ValueGoes == ASSUME getRdbValue \/ getRdbKeys PROVE Goes \/ Ends
<1>1. pc = "value" /\ Here[1] = "value" /\ Here[2] = pos /\ Here[3] = type
  BY DEF getRdbValue, getRdbKeys, Here, Place
<1>2. After(Here) = FromValue(pos, type) /\ ~AtEnd(Here)
  BY <1>1 DEF After, AtEnd
<1>3. CASE Found
  BY <1>3 DEF Found, Ends, getRdbValue, getRdbKeys
<1>4. CASE ~Found
  <2>1. /\ pc' = "entry" /\ op' = op
        /\ pos' = IF type = RDB_TYPE_STRING THEN readString(pos).p ELSE pos
    BY <1>1, <1>4 DEF Found, getRdbValue, getRdbKeys, skipRdbValue
  <2>2. Here' = FromValue(pos, type)
    BY <2>1 DEF Here, FromValue, Place
  <2> QED
    BY <1>2, <1>4, <2>1, <2>2 DEF Goes, Stages
<1> QED
  BY <1>3, <1>4

Loops == findDatabaseSection \/ skipSizes \/ readType \/ readKey \/ getRdbValue \/ getRdbKeys

LEMMA LoopsGo == ASSUME Loops PROVE (Goes \/ Ends) /\ UNCHANGED <<file, target>> /\ pc # "open"
<1>1. UNCHANGED <<file, target>> /\ pc # "open"
  BY DEF Loops, findDatabaseSection, skipSizes, readType, readKey, getRdbValue, getRdbKeys
<1> QED
  BY <1>1, ScanGoes, SizesGoes, TypeGoes, KeyGoes, ValueGoes DEF Loops

-----------------------------------------------------------------------------
(* The inductive invariant *)

\* The command and the stage; the list of keys is a list.
ShapeOK ==
    /\ pc \in Stages /\ op \in {"GET", "KEYS", "none"}
    /\ op = "none" => pc = "open"
    /\ keys \in Seq(Range(keys))

\* GET is at a place that a reader of this file comes to, and has no answer.
GetOK ==
    op = "GET" => /\ value = <<>>
                  /\ pc # "open" => ValidHeader /\ Reaches(Start, Here)

\* If GET has found its key, KEYS has listed it or will come to it.
KeysOK ==
    op # "GET" /\ value # <<>> /\ target \notin Range(keys) =>
        /\ op = "KEYS" /\ ValidHeader
        /\ \E p : Reaches(IF pc = "open" THEN Start ELSE Here, Hit(p))

IInv == ShapeOK /\ GetOK /\ KeysOK

\* A list with one more element.
LEMMA Longer ==
    ASSUME NEW s, s \in Seq(Range(s)), NEW e
    PROVE  Append(s, e) \in Seq(Range(Append(s, e))) /\ Range(Append(s, e)) = Range(s) \cup {e}
<1> DEFINE S == Range(s) \cup {e}
           t == Append(s, e)
<1>1. s \in Seq(S) /\ e \in S
  BY SeqMonotonic
<1>2. /\ t \in Seq(S) /\ DOMAIN t = 1..(Len(s) + 1) /\ DOMAIN s = 1..Len(s) /\ Len(s) \in Nat
      /\ \A i \in 1..Len(s) : t[i] = s[i]
      /\ t[Len(s) + 1] = e
  BY <1>1, AppendProperties, LenProperties
<1> HIDE DEF t
<1>3. \A i \in 1..(Len(s) + 1) : i \in 1..Len(s) \/ i = Len(s) + 1
  BY <1>2
<1>4. Len(s) + 1 \in 1..(Len(s) + 1) /\ \A i \in 1..Len(s) : i \in 1..(Len(s) + 1)
  BY <1>2
<1>5. Range(t) = S
  BY <1>2, <1>3, <1>4 DEF Range
<1>6. t \in Seq(Range(t))
  BY <1>2, <1>5
<1> QED
  BY <1>5, <1>6 DEF t

LEMMA ShapeStep == ASSUME IInv, [Next]_vars PROVE ShapeOK'
<1>1. CASE getRdbKeys
  <2>1. keys' \in Seq(Range(keys'))
    BY <1>1, Longer DEF IInv, ShapeOK, getRdbKeys
  <2> QED
    BY <1>1, <2>1 DEF IInv, ShapeOK, getRdbKeys, Stages
<1>2. CASE [findDatabaseSection \/ skipSizes \/ readType \/ readKey \/ getRdbValue \/ validateHeader]_vars
  <2>1. keys' = keys
    BY <1>2 DEF findDatabaseSection, skipSizes, readType, readKey, getRdbValue, validateHeader, vars
  <2>2. /\ pc' \in Stages /\ op' \in {"GET", "KEYS", "none"}
        /\ op' = "none" => pc' = "open"
    BY <1>2, Zenon DEF IInv, ShapeOK, findDatabaseSection, skipSizes, readType, readKey, getRdbValue, validateHeader,
                vars, Return, Stages
  <2> QED
    BY <2>1, <2>2 DEF IInv, ShapeOK
<1> QED
  BY <1>1, <1>2 DEF Next

LEMMA HeaderStep == ASSUME IInv, validateHeader PROVE GetOK' /\ KeysOK'
<1>1. UNCHANGED <<file, target, value, keys>> /\ pc = "open" /\ op # "none"
  BY DEF validateHeader
<1>2. ValidHeader' <=> ValidHeader
  BY <1>1 DEF ValidHeader
<1>3. \A p : Hit(p)' = Hit(p)
  BY <1>1, Zenon DEF Hit
<1>4. CASE ValidHeader
  <2>1. pc' = "scan" /\ pos' = 2 /\ op' = op
    BY <1>4 DEF validateHeader
  <2>2. Here' = Start
    BY <2>1 DEF Here, Start, Place
  <2>3. Reaches(Start, Start)'
    BY ReachesSelf, <1>1, SamePlaces
  <2>4. GetOK'
    BY <1>1, <1>2, <1>4, <2>1, <2>2, <2>3 DEF IInv, GetOK
  <2>5. KeysOK'
    <3>1. SUFFICES ASSUME op # "GET", value # <<>>, target \notin Range(keys)
                   PROVE  op = "KEYS" /\ ValidHeader /\ \E p : Reaches(Start, Hit(p))'
      BY <1>1, <1>2, <1>3, <2>1, <2>2 DEF KeysOK
    <3>2. /\ op = "KEYS" /\ ValidHeader
          /\ \E p : Reaches(Start, Hit(p))
      BY <1>1, <3>1 DEF IInv, KeysOK
    <3> QED
      BY <1>1, <1>3, <3>2, SamePlaces
  <2> QED
    BY <2>4, <2>5
<1>5. CASE ~ValidHeader
  <2>1. pc' = "open" /\ op' = IF op = "GET" THEN "KEYS" ELSE "none"
    BY <1>5 DEF validateHeader, Return
  <2> QED
    BY <1>1, <1>2, <1>5, <2>1 DEF IInv, GetOK, KeysOK
<1> QED
  BY <1>4, <1>5

\* GET goes from place to place, up to the one where its key is.
LEMMA GetStep == ASSUME IInv, Loops, op = "GET" PROVE GetOK' /\ KeysOK'
<1>1. UNCHANGED <<file, target>> /\ pc # "open" /\ (Goes \/ Ends)
  BY LoopsGo
<1>2. value = <<>> /\ ValidHeader /\ Reaches(Start, Here)
  BY <1>1 DEF IInv, GetOK
<1>3. ValidHeader'
  BY <1>1, <1>2 DEF ValidHeader
<1>4. CASE Goes
  <2>1. value' = <<>>
    BY <1>2, <1>4 DEF Goes, Found, Loops, findDatabaseSection, skipSizes, readType, readKey,
                      getRdbValue, getRdbKeys
  <2>2. Reaches(Start, After(Here))
    BY <1>2, <1>4, Onward DEF Goes
  <2>3. Reaches(Start, Here)'
    <3>1. ASSUME NEW n, Reaches(Start, n) PROVE Reaches(Start, n)'
      BY <1>1, <3>1, SamePlaces
    <3> QED
      BY <1>4, <2>2, <3>1 DEF Goes
  <2> QED
    BY <1>3, <1>4, <2>1, <2>3 DEF GetOK, KeysOK, Goes
<1>5. CASE Ends
  <2>1. op' = "KEYS" /\ pc' = "open"
    BY <1>5 DEF Ends, Return
  <2>2. CASE Found
    <3>1. PICK p : Here = Hit(p)
      BY <2>2 DEF Found, Here, Hit, Place
    <3>2. Hit(p)' = Hit(p)
      BY <1>1, Zenon DEF Hit
    <3>3. ASSUME NEW n, Reaches(Start, n) PROVE Reaches(Start, n)'
      BY <1>1, <3>3, SamePlaces
    <3>4. Reaches(Start, Hit(p))'
      BY <1>2, <3>1, <3>2, <3>3
    <3> QED
      BY <1>3, <2>1, <3>4 DEF GetOK, KeysOK
  <2>3. CASE ~Found
    <3>1. value' = <<>>
      BY <1>2, <2>3 DEF Found, Loops, findDatabaseSection, skipSizes, readType, readKey,
                        getRdbValue, getRdbKeys
    <3> QED
      BY <2>1, <3>1 DEF GetOK, KeysOK
  <2> QED
    BY <2>2, <2>3
<1> QED
  BY <1>1, <1>4, <1>5

\* KEYS goes the same way, and lists the key when it gets there.
LEMMA KeysStep == ASSUME IInv, Loops, op # "GET" PROVE GetOK' /\ KeysOK'
<1>1. UNCHANGED <<file, target, value>> /\ pc # "open" /\ (Goes \/ Ends)
  BY LoopsGo DEF Loops, findDatabaseSection, skipSizes, readType, readKey, getRdbValue, getRdbKeys
<1>2. op = "KEYS"
  BY <1>1 DEF IInv, ShapeOK
<1>3. op' # "GET"
  BY <1>1, <1>2 DEF Goes, Ends, Return
<1>4. Range(keys) \subseteq Range(keys')
  <2>1. CASE getRdbKeys
    BY <2>1, Longer DEF getRdbKeys, IInv, ShapeOK
  <2>2. CASE ~getRdbKeys
    BY <2>2 DEF Loops, findDatabaseSection, skipSizes, readType, readKey, getRdbValue
  <2> QED
    BY <2>1, <2>2
<1>5. SUFFICES ASSUME value # <<>>, target \notin Range(keys')
               PROVE  /\ op' = "KEYS" /\ ValidHeader' /\ pc' # "open"
                      /\ \E p : Reaches(Here, Hit(p))'
  BY <1>1, <1>3 DEF GetOK, KeysOK
<1>6. PICK p : ValidHeader /\ Reaches(Here, Hit(p))
  BY <1>1, <1>2, <1>4, <1>5 DEF IInv, KeysOK
<1>7. Here # Hit(p)
  <2>1. SUFFICES ASSUME Here = Hit(p) PROVE FALSE
    OBVIOUS
  <2>2. pc = "value" /\ key = target
    <3>1. Here[1] = pc /\ Hit(p)[1] = "value"
      BY DEF Here, Hit, Place
    <3>2. pc = "value"
      BY <2>1, <3>1
    <3>3. Here[4] = key /\ Hit(p)[4] = target
      BY <3>2 DEF Here, Hit, Place
    <3> QED
      BY <2>1, <3>2, <3>3
  <2>3. getRdbKeys
    BY <1>2, <2>2 DEF Loops, findDatabaseSection, skipSizes, readType, readKey, getRdbValue
  <2>4. target \in Range(keys')
    BY <2>2, <2>3, Longer DEF getRdbKeys, IInv, ShapeOK
  <2> QED
    BY <1>5, <2>4
<1>8. ~AtEnd(Here) /\ Reaches(After(Here), Hit(p))
  BY <1>6, <1>7, Stepwise
<1>9. Goes
  BY <1>1, <1>2, <1>8 DEF Ends, Found
<1>10. Reaches(Here, Hit(p))'
  <2>1. ASSUME NEW n, NEW m, Reaches(n, m) PROVE Reaches(n, m)'
    BY <1>1, <2>1, SamePlaces
  <2>2. Hit(p)' = Hit(p)
    BY <1>1, Zenon DEF Hit
  <2> QED
    BY <1>8, <1>9, <2>1, <2>2 DEF Goes
<1>11. ValidHeader'
  BY <1>1, <1>6 DEF ValidHeader
<1> QED
  BY <1>2, <1>9, <1>10, <1>11 DEF Goes

-----------------------------------------------------------------------------
(* The theorem *)

LEMMA InitOK == Init => IInv
<1> SUFFICES ASSUME Init PROVE IInv
  OBVIOUS
<1>1. keys \in Seq(Range(keys))
  BY EmptySeq DEF Init
<1> QED
  BY <1>1 DEF Init, IInv, ShapeOK, GetOK, KeysOK, Stages

LEMMA NextOK == IInv /\ [Next]_vars => IInv'
<1> SUFFICES ASSUME IInv, [Next]_vars PROVE IInv'
  OBVIOUS
<1>1. ShapeOK'
  BY ShapeStep
<1>2. CASE validateHeader
  BY <1>1, <1>2, HeaderStep DEF IInv
<1>3. CASE Loops
  BY <1>1, <1>3, GetStep, KeysStep DEF IInv
<1>4. CASE UNCHANGED vars
  <2>1. UNCHANGED <<file, target, op, pc, value, keys, Here>> /\ (ValidHeader' <=> ValidHeader)
    BY <1>4 DEF vars, entryVars, ValidHeader, Here
  <2>2. \A n, m : Reaches(n, m)' <=> Reaches(n, m)
    BY <2>1, SamePlaces
  <2>3. \A p : Hit(p)' = Hit(p)
    BY <2>1, Zenon DEF Hit
  <2>4. GetOK'
    BY <2>1, <2>2 DEF IInv, GetOK
  <2>5. KeysOK'
    BY <2>1, <2>2, <2>3 DEF IInv, KeysOK
  <2> QED
    BY <1>1, <2>4, <2>5 DEF IInv
<1> QED
  BY <1>2, <1>3, <1>4 DEF Next, Loops

\* Whatever bytes the file is made of, a key that GET answers from it is one
\* that KEYS lists.
THEOREM GetFindsWhatKeysLists == Spec => []GetImpliesKeys
<1>1. IInv => GetImpliesKeys
  BY DEF IInv, KeysOK, GetImpliesKeys, Answered
<1> QED
  BY <1>1, InitOK, NextOK, PTL DEF Spec

-----------------------------------------------------------------------------
(* Recursive functions *)

\* Induction up to n, over the numbers in a set.
LEMMA Induction ==
    ASSUME NEW n \in Nat, NEW S, 0 \in S, \A i \in 1 .. n : i - 1 \in S => i \in S
    PROVE  \A i \in 0 .. n : i \in S
<1> DEFINE T == (0 .. n) \ S
           Less == {p \in Nat \X Nat : p[1] < p[2]}
<1>1. SUFFICES ASSUME T # {} PROVE FALSE
  OBVIOUS
<1>2. IsWellFoundedOn(Less, Nat)
  BY NatLessThanWellFounded, Zenon DEF OpToRel
<1>3. T \in SUBSET Nat
  OBVIOUS
<1>4. PICK m \in T : \A i \in T : <<i, m>> \notin Less
  <2> HIDE DEF Less, T
  <2> QED
    BY <1>1, <1>2, <1>3, WFMin
<1>5. m # 0 /\ m \in 1 .. n /\ m - 1 \in 0 .. n
  BY <1>4
<1>6. <<m - 1, m>> \in Less
  BY <1>5
<1>7. m - 1 \in S
  BY <1>4, <1>5, <1>6
<1> QED
  BY <1>4, <1>5, <1>7

\* A function that begins with base and goes on by steps; there is one.
Unfolds(f, V, base, step, n) ==
    f \in [0 .. n -> V] /\ f[0] = base /\ \A i \in 1 .. n : f[i] = step[i][f[i - 1]]

LEMMA Recursion ==
    ASSUME NEW V, NEW base \in V, NEW step \in [Nat -> [V -> V]], NEW n \in Nat
    PROVE  \E f : Unfolds(f, V, base, step, n)
<1> DEFINE Upto(f, m) ==
               f \in [0 .. m -> V] /\ f[0] = base /\ \A i \in 1 .. m : f[i] = step[i][f[i - 1]]
           S == {m \in Nat : \E f : Upto(f, m)}
<1>1. 0 \in S
  <2>1. Upto([i \in 0 .. 0 |-> base], 0)
    OBVIOUS
  <2> QED
    BY <2>1
<1>2. ASSUME NEW m \in 1 .. n, m - 1 \in S PROVE m \in S
  <2>1. PICK f : Upto(f, m - 1)
    BY <1>2
  <2> DEFINE g == [i \in 0 .. m |-> IF i = m THEN step[m][f[m - 1]] ELSE f[i]]
  <2>2. f[m - 1] \in V /\ step[m][f[m - 1]] \in V
    BY <2>1
  <2>3. ASSUME NEW i \in 0 .. m PROVE g[i] \in V
    <3>1. CASE i = m
      BY <2>2, <3>1
    <3>2. CASE i # m
      <4>1. i \in 0 .. (m - 1)
        BY <3>2
      <4> QED
        BY <2>1, <3>2, <4>1
    <3> QED
      BY <3>1, <3>2
  <2>4. g[0] = base
    BY <2>1
  <2>5. ASSUME NEW i \in 1 .. m PROVE g[i] = step[i][g[i - 1]]
    <3>1. i - 1 \in 0 .. m /\ i - 1 # m /\ g[i - 1] = f[i - 1]
      OBVIOUS
    <3>2. CASE i = m
      BY <3>1, <3>2
    <3>3. CASE i # m
      <4>1. i \in 1 .. (m - 1) /\ g[i] = f[i]
        BY <3>3
      <4> QED
        BY <2>1, <3>1, <4>1
    <3> QED
      BY <3>2, <3>3
  <2>6. Upto(g, m)
    BY <2>3, <2>4, <2>5
  <2> HIDE DEF g, Upto
  <2> QED
    BY <2>6
<1>3. n \in S
  <2> HIDE DEF S
  <2>1. \A i \in 0 .. n : i \in S
    BY <1>1, <1>2, Induction
  <2> QED
    BY <2>1
<1> QED
  BY <1>3 DEF Unfolds

\* What is left of a number, byte by byte.
LEMMA QuotientsDefined ==
    ASSUME NEW n \in Nat, NEW w \in Nat
    PROVE  /\ Quotients(n, w) = [i \in 0 .. w |-> IF i = 0 THEN n
                                                  ELSE Quotients(n, w)[i - 1] \div 256]
           /\ \A i \in 0 .. w : Quotients(n, w)[i] \in Nat
<1> DEFINE step == [i \in Nat |-> [v \in Nat |-> v \div 256]]
           q == Quotients(n, w)
<1>1. step \in [Nat -> [Nat -> Nat]]
  OBVIOUS
<1>2. PICK f : Unfolds(f, Nat, n, step, w)
  <2> HIDE DEF step
  <2> QED
    BY <1>1, Recursion, Zenon
<1>3. f = [i \in 0 .. w |-> IF i = 0 THEN n ELSE f[i - 1] \div 256]
  <2>1. ASSUME NEW i \in 1 .. w PROVE f[i] = f[i - 1] \div 256
    <3>1. f[i - 1] \in Nat
      BY <1>2 DEF Unfolds
    <3>2. step[i][f[i - 1]] = f[i - 1] \div 256
      BY <3>1
    <3> QED
      BY <1>2, <3>2 DEF Unfolds
  <2> QED
    BY <1>2, <2>1 DEF Unfolds
<1>4. q = [i \in 0 .. w |-> IF i = 0 THEN n ELSE q[i - 1] \div 256]
  BY <1>3 DEF Quotients
<1> HIDE DEF q
<1> DEFINE S == {i \in 0 .. w : q[i] \in Nat}
<1>5. 0 \in S
  BY <1>4
<1>6. ASSUME NEW i \in 1 .. w, i - 1 \in S PROVE i \in S
  BY <1>4, <1>6
<1>7. \A i \in 0 .. w : i \in S
  <2> HIDE DEF S
  <2> QED
    BY <1>5, <1>6, Induction
<1> QED
  BY <1>4, <1>7 DEF q

LEMMA BytesOfNumber ==
    ASSUME NEW n \in Nat, NEW w \in Nat
    PROVE  /\ LittleEndian(n, w) \in Seq(Nat) /\ Len(LittleEndian(n, w)) = w
           /\ \A i \in 1 .. w : LittleEndian(n, w)[i] = Quotients(n, w)[i - 1] % 256
<1>1. ASSUME NEW i \in 1 .. w PROVE Quotients(n, w)[i - 1] % 256 \in Nat
  <2>1. i - 1 \in 0 .. w
    OBVIOUS
  <2>2. Quotients(n, w)[i - 1] \in Nat
    BY <2>1, QuotientsDefined
  <2> QED
    BY <2>2
<1> QED
  BY <1>1 DEF LittleEndian

\* The number of a list of bytes.
LEMMA NumbersDefined ==
    ASSUME NEW b \in Seq(Nat)
    PROVE  Numbers(b) = [i \in 0 .. Len(b) |-> IF i = 0 THEN 0
                                               ELSE b[Len(b) - i + 1] + 256 * Numbers(b)[i - 1]]
<1> DEFINE w == Len(b)
           Value(i) == IF i \in 1 .. w THEN b[w - i + 1] ELSE 0
           step == [i \in Nat |-> [v \in Nat |-> Value(i) + 256 * v]]
<1>0. w \in Nat
  BY LenProperties
<1>1. \A i \in Nat : Value(i) \in Nat
  <2>1. ASSUME NEW i \in 1 .. w PROVE b[w - i + 1] \in Nat
    <3>1. w - i + 1 \in 1 .. w
      BY <1>0
    <3> QED
      BY <3>1, ElementOfSeq
  <2> QED
    BY <2>1
<1>2. step \in [Nat -> [Nat -> Nat]]
  <2> HIDE DEF Value
  <2> DEFINE Sum(i, v) == Value(i) + 256 * v
  <2>1. \A i, v \in Nat : Sum(i, v) \in Nat
    <3>1. \A x, v \in Nat : x + 256 * v \in Nat
      OBVIOUS
    <3> QED
      BY <1>1, <3>1, Zenon
  <2>2. step = [i \in Nat |-> [v \in Nat |-> Sum(i, v)]]
    OBVIOUS
  <2> HIDE DEF Sum, step
  <2> QED
    BY <2>1, <2>2
<1>3. PICK f : Unfolds(f, Nat, 0, step, w)
  <2> HIDE DEF step, w
  <2>1. 0 \in Nat
    OBVIOUS
  <2> QED
    BY <1>0, <1>2, <2>1, Recursion, Zenon
<1>4. ASSUME NEW i \in 1 .. w PROVE f[i] = b[w - i + 1] + 256 * f[i - 1]
  <2>1. i - 1 \in 0 .. w /\ i \in Nat
    BY <1>0
  <2>2. f[i - 1] \in Nat
    BY <1>3, <2>1 DEF Unfolds
  <2>3. step[i][f[i - 1]] = Value(i) + 256 * f[i - 1]
    <3> HIDE DEF Value
    <3> QED
      BY <2>1, <2>2
  <2>4. f[i] = step[i][f[i - 1]]
    BY <1>3, <1>4, Zenon DEF Unfolds
  <2> QED
    BY <2>3, <2>4
<1>5. f = [i \in 0 .. w |-> IF i = 0 THEN 0 ELSE b[w - i + 1] + 256 * f[i - 1]]
  <2>1. f \in [0 .. w -> Nat] /\ f[0] = 0
    BY <1>3 DEF Unfolds
  <2> DEFINE E(i) == b[w - i + 1] + 256 * f[i - 1]
  <2>2. \A i \in 1 .. w : f[i] = E(i)
    BY <1>4
  <2> HIDE DEF w, E
  <2>3. f = [i \in 0 .. w |-> IF i = 0 THEN 0 ELSE E(i)]
    BY <1>0, <2>1, <2>2
  <2> QED
    BY <2>3 DEF E
<1> QED
  BY <1>5, ZenonT(60) DEF Numbers

\* readUint64 gets what was written, if it fits.
LEMMA RoundTrip ==
    ASSUME NEW n \in Nat, NEW w \in Nat, Quotients(n, w)[w] = 0
    PROVE  Number(LittleEndian(n, w)) = n
<1> DEFINE b == LittleEndian(n, w)
           q == Quotients(n, w)
           S == {i \in 0 .. w : Numbers(b)[i] = q[w - i]}
<1>1. b \in Seq(Nat) /\ Len(b) = w /\ \A i \in 1 .. w : b[i] = q[i - 1] % 256
  BY BytesOfNumber
<1>2. /\ q = [i \in 0 .. w |-> IF i = 0 THEN n ELSE q[i - 1] \div 256]
      /\ \A i \in 0 .. w : q[i] \in Nat
  BY QuotientsDefined
<1> HIDE DEF b, q
<1>3. /\ Numbers(b)[0] = 0
      /\ \A i \in 1 .. w : Numbers(b)[i] = b[w - i + 1] + 256 * Numbers(b)[i - 1]
  <2>1. Numbers(b) = [i \in 0 .. Len(b) |-> IF i = 0 THEN 0
                                         ELSE b[Len(b) - i + 1] + 256 * Numbers(b)[i - 1]]
    BY <1>1, NumbersDefined, Zenon
  <2>2. Len(b) = w
    BY <1>1
  <2> DEFINE m == Numbers(b)
  <2> HIDE DEF m
  <2> QED
    BY <2>1, <2>2 DEF m
<1>4. 0 \in S
  BY <1>3 DEF q
<1>5. ASSUME NEW i \in 1 .. w, i - 1 \in S PROVE i \in S
  <2> DEFINE k == w - i
  <2>1. k \in 0 .. w /\ k + 1 \in 1 .. w /\ w - i + 1 = k + 1 /\ w - (i - 1) = k + 1
    OBVIOUS
  <2>2. Numbers(b)[i - 1] = q[k + 1]
    BY <1>5, <2>1
  <2>3. Numbers(b)[i] = b[k + 1] + 256 * q[k + 1]
    BY <1>3, <2>1, <2>2
  <2>4. b[k + 1] = q[k] % 256
    BY <1>1, <2>1
  <2>5. q[k + 1] = q[k] \div 256 /\ q[k] \in Nat
    <3> HIDE DEF k
    <3>1. q[k + 1] = IF k + 1 = 0 THEN n ELSE q[(k + 1) - 1] \div 256
      BY <1>2, <2>1
    <3>2. k + 1 # 0 /\ (k + 1) - 1 = k
      BY <2>1
    <3> QED
      BY <1>2, <2>1, <3>1, <3>2
  <2>6. \A x \in Nat : (x % 256) + 256 * (x \div 256) = x
    OBVIOUS
  <2> HIDE DEF k
  <2>7. Numbers(b)[i] = q[k]
    BY <2>3, <2>4, <2>5, <2>6
  <2> QED
    BY <2>7 DEF k
<1>6. \A i \in 0 .. w : i \in S
  <2> HIDE DEF S
  <2> QED
    BY <1>4, <1>5, Induction
<1>7. Numbers(b)[w] = q[0]
  BY <1>6
<1>8. q[0] = n
  BY <1>2
<1> QED
  BY <1>1, <1>7, <1>8 DEF Number, b

\* What the files are made of are sequences of numbers.
LEMMA StringType ==
    ASSUME NEW s \in Seq(Byte)
    PROVE  /\ s \in Seq(Nat) /\ StringBytes(s) \in Seq(Nat) /\ Len(StringBytes(s)) = Len(s) + 1
           /\ StringBytes(s)[1] = Len(s) /\ Len(s) \in Nat
           /\ \A i \in 1 .. Len(s) : StringBytes(s)[i + 1] = s[i]
<1>1. s \in Seq(Nat)
  <2>1. Byte \subseteq Nat
    BY DEF Byte
  <2> QED
    BY <2>1, SeqMonotonic
<1>2. Len(s) \in Nat
  BY LenProperties
<1> QED
  BY <1>1, <1>2 DEF StringBytes

\* What comes before the type of an entry.
Prefix(e) ==
    CASE e.unit = "ms" -> <<RDB_EXPIRE_MS>> \o LittleEndian(e.at, LongBytes)
      [] e.unit = "sec" -> <<RDB_EXPIRE_SEC>> \o LittleEndian(e.at, IntBytes)
      [] OTHER -> <<>>

LEMMA EntryType ==
    ASSUME NEW e \in Entry
    PROVE  /\ EntryBytes(e) \in Seq(Nat) /\ Prefix(e) \in Seq(Nat)
           /\ e.key \in Seq(Byte) /\ e.value \in Seq(Byte) /\ e.at \in Nat
           /\ e.key # <<>>
<1>1. e.key \in Seq(Byte) /\ e.value \in Seq(Byte) /\ e.at \in Nat /\ e.key # <<>>
  BY DEF Entry
<1>2. /\ StringBytes(e.key) \in Seq(Nat) /\ StringBytes(e.value) \in Seq(Nat)
      /\ e.value \in Seq(Nat)
  BY <1>1, StringType
<1>3. /\ LittleEndian(e.at, LongBytes) \in Seq(Nat) /\ LittleEndian(e.at, IntBytes) \in Seq(Nat)
  BY <1>1, BytesOfNumber, WidthAssumption
<1>4. /\ <<RDB_EXPIRE_MS>> \in Seq(Nat) /\ <<RDB_EXPIRE_SEC>> \in Seq(Nat)
      /\ <<RDB_TYPE_STRING>> \in Seq(Nat) /\ <<RDB_ENC_INT8>> \in Seq(Nat) /\ <<>> \in Seq(Nat)
  BY DEF RDB_EXPIRE_MS, RDB_EXPIRE_SEC, RDB_TYPE_STRING, RDB_ENC_INT8
<1>5. Prefix(e) \in Seq(Nat)
  BY <1>3, <1>4, ConcatProperties DEF Prefix
<1> DEFINE last == IF e.coded THEN <<RDB_ENC_INT8>> \o e.value ELSE StringBytes(e.value)
<1>6. last \in Seq(Nat)
  BY <1>2, <1>4, ConcatProperties
<1>7. EntryBytes(e) = Prefix(e) \o <<RDB_TYPE_STRING>> \o StringBytes(e.key) \o last
  BY Zenon DEF EntryBytes, Prefix
<1> HIDE DEF last
<1>8. Prefix(e) \o <<RDB_TYPE_STRING>> \in Seq(Nat)
  BY <1>4, <1>5, ConcatProperties
<1>9. Prefix(e) \o <<RDB_TYPE_STRING>> \o StringBytes(e.key) \in Seq(Nat)
  BY <1>2, <1>8, ConcatProperties
<1>10. EntryBytes(e) \in Seq(Nat)
  BY <1>6, <1>7, <1>9, ConcatProperties
<1> QED
  BY <1>1, <1>5, <1>10

\* The bytes of the last entries.
LEMMA LastEntriesDefined ==
    ASSUME NEW s \in Seq(Entry)
    PROVE  /\ LastEntries(s)[0] = <<>>
           /\ \A i \in 1 .. Len(s) :
                 LastEntries(s)[i] = EntryBytes(s[Len(s) - i + 1]) \o LastEntries(s)[i - 1]
           /\ \A i \in 0 .. Len(s) : LastEntries(s)[i] \in Seq(Nat)
<1> DEFINE n == Len(s)
           l == LastEntries(s)
           Part(i) == IF i \in 1 .. n THEN EntryBytes(s[n - i + 1]) ELSE <<>>
           step == [i \in Nat |-> [v \in Seq(Nat) |-> Part(i) \o v]]
<1>0. n \in Nat
  BY LenProperties
<1>1. ASSUME NEW i \in Nat PROVE Part(i) \in Seq(Nat)
  <2>1. CASE i \in 1 .. n
    <3>1. n - i + 1 \in 1 .. n
      BY <1>0, <2>1
    <3>2. s[n - i + 1] \in Entry
      BY <3>1, ElementOfSeq
    <3> QED
      BY <2>1, <3>2, EntryType
  <2>2. CASE i \notin 1 .. n
    BY <2>2
  <2> QED
    BY <2>1, <2>2
<1>2. step \in [Nat -> [Seq(Nat) -> Seq(Nat)]]
  <2> HIDE DEF Part
  <2>1. \A i \in Nat : \A v \in Seq(Nat) : Part(i) \o v \in Seq(Nat)
    BY <1>1, ConcatProperties
  <2> QED
    BY <2>1
<1>3. PICK f : Unfolds(f, Seq(Nat), <<>>, step, n)
  <2> HIDE DEF step, n
  <2>1. <<>> \in Seq(Nat)
    OBVIOUS
  <2> QED
    BY <1>0, <1>2, <2>1, Recursion, Zenon
<1>4. ASSUME NEW i \in 1 .. n PROVE f[i] = EntryBytes(s[n - i + 1]) \o f[i - 1]
  <2>1. i - 1 \in 0 .. n /\ i \in Nat
    BY <1>0
  <2>2. f[i - 1] \in Seq(Nat)
    BY <1>3, <2>1 DEF Unfolds
  <2>3. step[i][f[i - 1]] = Part(i) \o f[i - 1]
    <3> HIDE DEF Part
    <3> QED
      BY <2>1, <2>2
  <2>4. f[i] = step[i][f[i - 1]]
    BY <1>3, <1>4, Zenon DEF Unfolds
  <2> QED
    BY <2>3, <2>4
<1>5. f = [i \in 0 .. n |-> IF i = 0 THEN <<>> ELSE EntryBytes(s[n - i + 1]) \o f[i - 1]]
  <2>1. f \in [0 .. n -> Seq(Nat)] /\ f[0] = <<>>
    BY <1>3 DEF Unfolds
  <2> DEFINE E(i) == EntryBytes(s[n - i + 1]) \o f[i - 1]
  <2>2. \A i \in 1 .. n : f[i] = E(i)
    BY <1>4
  <2> HIDE DEF n, E
  <2>3. f = [i \in 0 .. n |-> IF i = 0 THEN <<>> ELSE E(i)]
    BY <1>0, <2>1, <2>2
  <2> QED
    BY <2>3 DEF E
<1>6. l = [i \in 0 .. n |-> IF i = 0 THEN <<>> ELSE EntryBytes(s[n - i + 1]) \o l[i - 1]]
  BY <1>5 DEF LastEntries
<1> HIDE DEF l
<1>7. l[0] = <<>> /\ \A i \in 1 .. n : l[i] = EntryBytes(s[n - i + 1]) \o l[i - 1]
  BY <1>0, <1>6
<1> DEFINE S == {i \in 0 .. n : l[i] \in Seq(Nat)}
<1>8. 0 \in S
  <2>1. <<>> \in Seq(Nat) /\ 0 \in 0 .. n
    BY <1>0
  <2> QED
    BY <1>7, <2>1
<1>9. ASSUME NEW i \in 1 .. n, i - 1 \in S PROVE i \in S
  <2>1. Part(i) = EntryBytes(s[n - i + 1]) /\ i \in Nat /\ i \in 0 .. n
    BY <1>0
  <2>2. Part(i) \in Seq(Nat) /\ l[i - 1] \in Seq(Nat)
    BY <1>1, <1>9, <2>1
  <2>3. l[i] = Part(i) \o l[i - 1]
    BY <1>7, <2>1
  <2> HIDE DEF Part
  <2> QED
    BY <2>1, <2>2, <2>3, ConcatProperties
<1>10. \A i \in 0 .. n : i \in S
  <2> HIDE DEF S, n
  <2> QED
    BY <1>0, <1>8, <1>9, Induction
<1> QED
  BY <1>7, <1>10 DEF l

-----------------------------------------------------------------------------
(* What is where in a plain file *)

Count == Len(content.entries)
Nth(j) == content.entries[j]
Section == 2 + Len(content.aux)

\* From p on, the file has these bytes; it has none, or the trailer; it has the
\* entries from the j-th on.
Holds(p, bytes) ==
    p + Len(bytes) <= Len(file) /\ \A i \in 1 .. Len(bytes) : file[p + i] = bytes[i]

Over(p) == p = Len(file) \/ (p < Len(file) /\ file[p + 1] = RDB_EOF)

Ahead(p, j) ==
    LET bytes == LastEntries(content.entries)[Count + 1 - j]
    IN  Holds(p, bytes) /\ Over(p + Len(bytes))

Layout ==
    /\ Holds(0, <<RDB_MAGIC, RDB_VERSION>>) /\ Holds(2, content.aux)
    /\ Count = 0 => Over(Section)
    /\ Count # 0 =>
          /\ Holds(Section, <<RDB_DATABASE_START, 0, RDB_HASHTABLE_SIZE, Count, 0>>)
          /\ Ahead(Section + 5, 1)

\* A reader before the value or the key of the j-th entry.
BeforeValue(p, j) ==
    Holds(p, StringBytes(Nth(j).value)) /\ Ahead(p + 1 + Len(Nth(j).value), j + 1)

BeforeKey(p, j) ==
    Holds(p, StringBytes(Nth(j).key)) /\ BeforeValue(p + 1 + Len(Nth(j).key), j)

Begun(j) ==
    /\ j <= Count /\ type = RDB_TYPE_STRING
    /\ expiry = IF Nth(j).unit = "ms" THEN Nth(j).at ELSE 0

\* The j-th entry is the next, or the one that is being read.  Without a
\* trailer the reader begins one more, which has no key.
At(j) ==
    /\ pc = "entry" => Ahead(pos, j)
    /\ pc = "key" => (Begun(j) /\ BeforeKey(pos, j)) \/ (j = Count + 1 /\ pos = Len(file))
    /\ pc = "value" => Begun(j) /\ BeforeValue(pos, j) /\ key = Nth(j).key

KeysBefore(j) == {Nth(k).key : k \in 1 .. (j - 1)}

\* Which entry the reader has come to, and what it has made of those before.
Reading ==
    \E j \in 1 .. (Count + 1) :
        /\ At(j)
        /\ op = "GET" => target \notin KeysBefore(j)
        /\ op = "KEYS" => Range(keys) = KeysBefore(j)

GetRight ==
    {value} \ {<<>>} = {e.value : e \in {f \in Range(content.entries) :
                                            f.key = target /\ Live(f)}}

PlainOK ==
    /\ pos \in Nat
    /\ op = "GET" => value = <<>>
    /\ op = "GET" \/ pc \in {"open", "scan", "sizes"} => keys = <<>> \/ op = "none"
    /\ op # "GET" => GetRight
    /\ op = "none" => Range(keys) = KeysBefore(Count + 1)
    /\ pc = "scan" => pos \in 2 .. Section
    /\ pc = "sizes" => Count # 0 /\ pos = Section + 2
    /\ pc \in {"entry", "key", "value"} => Reading

FileOK == content \in Contents /\ file = FileBytes(content)

PInv == IInv /\ FileOK /\ (Plain(content) => Layout /\ PlainOK)

-----------------------------------------------------------------------------
(* What the reader finds in a plain file *)

LEMMA Joined ==
    ASSUME NEW a \in Seq(Nat), NEW b \in Seq(Nat)
    PROVE  /\ Len(a) \in Nat /\ Len(b) \in Nat
           /\ a \o b \in Seq(Nat) /\ Len(a \o b) = Len(a) + Len(b)
           /\ \A i \in 1 .. Len(a) : (a \o b)[i] = a[i]
           /\ \A i \in 1 .. Len(b) : (a \o b)[Len(a) + i] = b[i]
<1>1. Len(a) \in Nat /\ Len(b) \in Nat
  BY LenProperties
<1> QED
  BY <1>1, ConcatProperties

\* Two pieces of a file, one behind the other.
LEMMA HoldsBoth ==
    ASSUME NEW p \in Nat, NEW a \in Seq(Nat), NEW b \in Seq(Nat), file \in Seq(Nat)
    PROVE  Holds(p, a \o b) => Holds(p, a) /\ Holds(p + Len(a), b)
<1>1. Len(a) \in Nat /\ Len(b) \in Nat /\ Len(file) \in Nat
  BY LenProperties
<1>2. /\ Len(a \o b) = Len(a) + Len(b)
      /\ \A i \in 1 .. Len(a) : (a \o b)[i] = a[i]
      /\ \A i \in 1 .. Len(b) : (a \o b)[Len(a) + i] = b[i]
  BY Joined
<1> DEFINE c == a \o b
<1> HIDE DEF c
<1>3. SUFFICES ASSUME Holds(p, c) PROVE Holds(p, a) /\ Holds(p + Len(a), b)
  BY DEF c
<1>4. /\ p + Len(a) + Len(b) <= Len(file)
      /\ \A i \in 1 .. (Len(a) + Len(b)) : file[p + i] = c[i]
  BY <1>1, <1>2, <1>3 DEF Holds, c
<1>5. ASSUME NEW i \in 1 .. Len(a) PROVE file[p + i] = a[i]
  <2>1. i \in 1 .. (Len(a) + Len(b))
    BY <1>1
  <2> QED
    BY <1>2, <1>4, <2>1 DEF c
<1>6. ASSUME NEW i \in 1 .. Len(b) PROVE file[p + Len(a) + i] = b[i]
  <2>1. Len(a) + i \in 1 .. (Len(a) + Len(b)) /\ p + (Len(a) + i) = p + Len(a) + i
    BY <1>1
  <2> QED
    BY <1>2, <1>4, <2>1 DEF c
<1> QED
  BY <1>1, <1>4, <1>5, <1>6 DEF Holds

\* A file that lacks nothing but its trailer.
LEMMA CutFile ==
    ASSUME NEW a \in Seq(Nat), NEW k \in 0 .. 2,
           file = SubSeq(a \o Trailer, 1, Len(a \o Trailer) - k)
    PROVE  file \in Seq(Nat) /\ Holds(0, a) /\ Over(Len(a))
<1> DEFINE w == a \o Trailer
           n == Len(a)
           m == Len(w) - k
<1>1. Trailer \in Seq(Nat) /\ Len(Trailer) = 2 /\ Trailer[1] = RDB_EOF
  BY DEF Trailer, RDB_EOF
<1>2. n \in Nat
  BY LenProperties
<1>3. /\ w \in Seq(Nat) /\ Len(w) = n + 2 /\ \A i \in 1 .. n : w[i] = a[i]
      /\ w[n + 1] = RDB_EOF
  <2> HIDE DEF n
  <2>1. /\ w \in Seq(Nat) /\ Len(w) = Len(a) + Len(Trailer)
        /\ \A i \in 1 .. Len(a) : w[i] = a[i]
        /\ \A i \in 1 .. Len(Trailer) : w[Len(a) + i] = Trailer[i]
    <3>1. ASSUME NEW b \in Seq(Nat)
          PROVE  /\ a \o b \in Seq(Nat) /\ Len(a \o b) = Len(a) + Len(b)
                 /\ \A i \in 1 .. Len(a) : (a \o b)[i] = a[i]
                 /\ \A i \in 1 .. Len(b) : (a \o b)[Len(a) + i] = b[i]
      BY Joined
    <3> QED
      BY <1>1, <3>1
  <2>2. 1 \in 1 .. Len(Trailer)
    BY <1>1
  <2>3. w[Len(a) + 1] = RDB_EOF
    BY <1>1, <2>1, <2>2
  <2> HIDE DEF w
  <2> QED
    BY <1>1, <2>1, <2>3 DEF n
<1>4. m \in Nat /\ n <= m /\ m <= Len(w) /\ (k = 2 <=> m = n) /\ (k # 2 => n < m)
  BY <1>2, <1>3
<1> HIDE DEF w, m
<1>5. file = SubSeq(w, 1, m)
  BY DEF w, m
<1>6. file \in Seq(Nat) /\ Len(file) = m /\ \A i \in 1 .. m : file[i] = w[i]
  <2>1. \A i \in 1 .. m : w[i] \in Nat
    BY <1>3, <1>4, ElementOfSeq
  <2>2. /\ SubSeq(w, 1, m) \in Seq(Nat)
        /\ Len(SubSeq(w, 1, m)) = IF 1 <= m THEN m - 1 + 1 ELSE 0
        /\ \A i \in 1 .. (m - 1 + 1) : SubSeq(w, 1, m)[i] = w[1 + i - 1]
    BY <1>4, <2>1, SubSeqProperties
  <2>3. m - 1 + 1 = m /\ (~(1 <= m) => m = 0) /\ \A i \in 1 .. m : 1 + i - 1 = i
    BY <1>4
  <2> QED
    BY <1>5, <2>2, <2>3
<1> HIDE DEF n
<1>7. Holds(0, a)
  <2>1. ASSUME NEW i \in 1 .. n PROVE file[0 + i] = a[i]
    <3>1. i \in 1 .. m /\ 0 + i = i
      BY <1>2, <1>4
    <3> QED
      BY <1>3, <1>6, <3>1
  <2> QED
    BY <1>2, <1>4, <1>6, <2>1 DEF Holds, n
<1>8. Over(n)
  <2>1. CASE k = 2
    BY <1>4, <1>6, <2>1 DEF Over
  <2>2. CASE k # 2
    <3>1. n < m /\ n + 1 \in 1 .. m
      BY <1>2, <1>4, <2>2
    <3>2. file[n + 1] = RDB_EOF
      BY <1>3, <1>6, <3>1
    <3> QED
      BY <1>6, <3>1, <3>2 DEF Over
  <2> QED
    BY <2>1, <2>2
<1> QED
  BY <1>6, <1>7, <1>8 DEF n

\* The entries of a plain file, and the first of those that are ahead.
LEMMA PlainEntry ==
    ASSUME FileOK, Plain(content), NEW j \in 1 .. Count
    PROVE  /\ Nth(j) \in Entry /\ ~Nth(j).coded
           /\ Len(Nth(j).key) \in 1 .. 63 /\ Len(Nth(j).value) \in 1 .. 63
           /\ \/ Nth(j).unit = "none"
              \/ /\ Nth(j).unit = "ms" /\ Nth(j).at > 0
                 /\ Quotients(Nth(j).at, LongBytes)[LongBytes] = 0
<1>1. content.entries \in Seq(Entry)
  BY ContentsAssumption DEF FileOK, Content
<1>2. Nth(j) \in Entry /\ DOMAIN content.entries = 1 .. Count
  BY <1>1, ElementOfSeq, LenProperties DEF Nth, Count
<1>3. Len(Nth(j).key) \in Nat /\ Len(Nth(j).key) # 0
  <2>1. Nth(j).key \in Seq(Byte) /\ Nth(j).key # <<>>
    BY <1>2, EntryType
  <2> QED
    BY <2>1, EmptySeq, LenProperties
<1>4. /\ ~Nth(j).coded /\ Len(Nth(j).key) < 64 /\ Len(Nth(j).value) \in 1 .. 63
      /\ \/ Nth(j).unit = "none"
         \/ /\ Nth(j).unit = "ms" /\ Nth(j).at > 0
            /\ Quotients(Nth(j).at, LongBytes)[LongBytes] = 0
  BY <1>2 DEF Plain, Nth
<1>5. Len(Nth(j).key) \in 1 .. 63
  <2>1. \A n \in Nat : n # 0 /\ n < 64 => n \in 1 .. 63
    OBVIOUS
  <2> QED
    BY <1>3, <1>4, <2>1, Zenon
<1> QED
  BY <1>2, <1>4, <1>5, Zenon

LEMMA FirstAhead ==
    ASSUME FileOK, Plain(content), file \in Seq(Nat), NEW j \in 1 .. Count, NEW p \in Nat,
           Ahead(p, j)
    PROVE  /\ Holds(p, Prefix(Nth(j))) /\ Holds(p + Len(Prefix(Nth(j))), <<RDB_TYPE_STRING>>)
           /\ BeforeKey(p + Len(Prefix(Nth(j))) + 1, j)
<1> DEFINE e == Nth(j)
           l == LastEntries(content.entries)
           x == Prefix(e)
           t == <<RDB_TYPE_STRING>>
           k == StringBytes(e.key)
           v == StringBytes(e.value)
           r == l[Count - j]
<1>1. content.entries \in Seq(Entry) /\ Count \in Nat
  BY ContentsAssumption, LenProperties DEF FileOK, Content, Count
<1>2. Count + 1 - j \in 1 .. Count /\ Count - (Count + 1 - j) + 1 = j
      /\ (Count + 1 - j) - 1 = Count - j /\ Count - j \in 0 .. Count
  BY <1>1
<1>3. l[Count + 1 - j] = EntryBytes(e) \o r /\ r \in Seq(Nat)
  <2>1. l[Count + 1 - j] = EntryBytes(Nth(Count - (Count + 1 - j) + 1)) \o l[(Count + 1 - j) - 1]
    BY <1>1, <1>2, LastEntriesDefined DEF Count, Nth
  <2>2. r \in Seq(Nat)
    BY <1>1, <1>2, LastEntriesDefined DEF Count
  <2> QED
    BY <1>2, <2>1, <2>2
<1>4. e \in Entry /\ ~e.coded
  BY PlainEntry
<1>5. /\ x \in Seq(Nat) /\ k \in Seq(Nat) /\ v \in Seq(Nat) /\ t \in Seq(Nat) /\ Len(t) = 1
      /\ Len(k) = Len(e.key) + 1 /\ Len(v) = Len(e.value) + 1
      /\ Len(e.key) \in Nat /\ Len(e.value) \in Nat
  <2>1. e.key \in Seq(Byte) /\ e.value \in Seq(Byte) /\ x \in Seq(Nat)
    BY <1>4, EntryType
  <2>2. k \in Seq(Nat) /\ Len(k) = Len(e.key) + 1 /\ Len(e.key) \in Nat
    BY <2>1, StringType
  <2>3. v \in Seq(Nat) /\ Len(v) = Len(e.value) + 1 /\ Len(e.value) \in Nat
    BY <2>1, StringType
  <2>4. t \in Seq(Nat) /\ Len(t) = 1
    BY DEF RDB_TYPE_STRING
  <2> QED
    BY <2>1, <2>2, <2>3, <2>4, Zenon
<1>6. EntryBytes(e) = x \o t \o k \o v
  BY <1>4 DEF EntryBytes, Prefix
<1> HIDE DEF x, k, v, r, t, l
<1>7. Len(x) \in Nat /\ Len(k) \in Nat /\ Len(v) \in Nat /\ Len(r) \in Nat
  BY <1>3, <1>5, LenProperties
<1>8. /\ x \o t \in Seq(Nat) /\ Len(x \o t) = Len(x) + 1
      /\ x \o t \o k \in Seq(Nat) /\ Len(x \o t \o k) = Len(x) + 1 + Len(k)
      /\ x \o t \o k \o v \in Seq(Nat) /\ Len(x \o t \o k \o v) = Len(x) + 1 + Len(k) + Len(v)
  <2>0. x \o t \in Seq(Nat) /\ Len(x \o t) = Len(x) + Len(t)
    BY <1>5, Joined
  <2>1. x \o t \in Seq(Nat) /\ Len(x \o t) = Len(x) + 1
    BY <1>5, <2>0
  <2>2. x \o t \o k \in Seq(Nat) /\ Len(x \o t \o k) = Len(x \o t) + Len(k)
    BY <1>5, <2>1, Joined
  <2>3. x \o t \o k \o v \in Seq(Nat) /\ Len(x \o t \o k \o v) = Len(x \o t \o k) + Len(v)
    BY <1>5, <2>2, Joined
  <2> QED
    BY <2>1, <2>2, <2>3
<1>9. Len(EntryBytes(e) \o r) = Len(x) + 1 + Len(k) + Len(v) + Len(r)
  <2>1. Len(EntryBytes(e) \o r) = Len(EntryBytes(e)) + Len(r)
    BY <1>3, <1>6, <1>8, Joined
  <2> QED
    BY <1>6, <1>8, <2>1
<1>10. Holds(p, EntryBytes(e) \o r) /\ Over(p + Len(EntryBytes(e) \o r))
  BY <1>3 DEF Ahead, l
<1>11. Holds(p, x \o t \o k \o v) /\ Holds(p + (Len(x) + 1 + Len(k) + Len(v)), r)
  BY <1>3, <1>6, <1>8, <1>10, HoldsBoth
<1>12. Holds(p, x \o t \o k) /\ Holds(p + (Len(x) + 1 + Len(k)), v)
  BY <1>5, <1>8, <1>11, HoldsBoth
<1>13. Holds(p, x \o t) /\ Holds(p + (Len(x) + 1), k)
  BY <1>5, <1>8, <1>12, HoldsBoth
<1>14. Holds(p, x) /\ Holds(p + Len(x), t)
  BY <1>5, <1>13, HoldsBoth
<1> DEFINE q == p + Len(x) + 1
<1>15. /\ p + (Len(x) + 1) = q /\ q \in Nat
       /\ p + (Len(x) + 1 + Len(k)) = q + 1 + Len(e.key)
       /\ p + (Len(x) + 1 + Len(k) + Len(v)) = q + 1 + Len(e.key) + 1 + Len(e.value)
       /\ p + (Len(x) + 1 + Len(k) + Len(v) + Len(r))
            = q + 1 + Len(e.key) + 1 + Len(e.value) + Len(r)
  <2>1. ASSUME NEW lx \in Nat, NEW lk \in Nat, NEW lv \in Nat, NEW lr \in Nat
        PROVE  /\ p + (lx + 1) = p + lx + 1 /\ p + lx + 1 \in Nat
               /\ p + (lx + 1 + (lk + 1)) = p + lx + 1 + 1 + lk
               /\ p + (lx + 1 + (lk + 1) + (lv + 1)) = p + lx + 1 + 1 + lk + 1 + lv
               /\ p + (lx + 1 + (lk + 1) + (lv + 1) + lr) = p + lx + 1 + 1 + lk + 1 + lv + lr
    OBVIOUS
  <2> DEFINE lx == Len(x)
             lk == Len(e.key)
             lv == Len(e.value)
             lr == Len(r)
  <2>2. /\ lx \in Nat /\ lk \in Nat /\ lv \in Nat /\ lr \in Nat
        /\ Len(k) = lk + 1 /\ Len(v) = lv + 1
    BY <1>5, <1>7
  <2> HIDE DEF lx, lk, lv, lr
  <2>3. /\ p + (lx + 1) = p + lx + 1 /\ p + lx + 1 \in Nat
        /\ p + (lx + 1 + Len(k)) = p + lx + 1 + 1 + lk
        /\ p + (lx + 1 + Len(k) + Len(v)) = p + lx + 1 + 1 + lk + 1 + lv
        /\ p + (lx + 1 + Len(k) + Len(v) + lr) = p + lx + 1 + 1 + lk + 1 + lv + lr
    BY <2>1, <2>2
  <2> QED
    BY <2>3 DEF lx, lk, lv, lr
<1>16. Ahead(q + 1 + Len(e.key) + 1 + Len(e.value), j + 1)
  <2>1. Count + 1 - (j + 1) = Count - j
    BY <1>1
  <2> HIDE DEF q
  <2> QED
    BY <1>9, <1>10, <1>11, <1>15, <2>1 DEF Ahead, r, l
<1>17. BeforeKey(q, j)
  <2> HIDE DEF q
  <2> QED
    BY <1>12, <1>13, <1>15, <1>16 DEF BeforeKey, BeforeValue, k, v
<1> QED
  BY <1>14, <1>17 DEF x, t

LEMMA PlainLayout == ASSUME FileOK, Plain(content) PROVE file \in Seq(Nat) /\ Layout
<1> DEFINE c == content
           h == <<RDB_MAGIC, RDB_VERSION>>
           d == <<RDB_DATABASE_START, 0>>
           z == <<RDB_HASHTABLE_SIZE, Count, 0>>
           l == LastEntries(c.entries)[Count]
           sec == IF c.entries = <<>> THEN <<>> ELSE (d \o z) \o l
           a == h \o c.aux \o sec
<1>1. /\ c.entries \in Seq(Entry) /\ c.aux \in Seq(Byte) /\ c.lost \in 0 .. 2
      /\ c.version = RDB_VERSION /\ c.sizes
  BY ContentsAssumption DEF FileOK, Content, Plain, Trailer
<1>2. Count \in Nat /\ (c.entries = <<>> <=> Count = 0)
  BY <1>1, LenProperties, EmptySeq DEF Count
<1>3. c.aux \in Seq(Nat) /\ Len(c.aux) \in Nat
  BY <1>1, StringType
<1>4. l \in Seq(Nat)
  <2>1. Count \in 0 .. Len(c.entries)
    BY <1>2 DEF Count
  <2> QED
    BY <1>1, <2>1, LastEntriesDefined
<1>5. /\ h \in Seq(Nat) /\ Len(h) = 2
      /\ d \in Seq(Nat) /\ Len(d) = 2 /\ z \in Seq(Nat) /\ Len(z) = 3
  <2>1. h \in Seq(Nat) /\ Len(h) = 2
    BY DEF RDB_MAGIC, RDB_VERSION
  <2>2. d \in Seq(Nat) /\ Len(d) = 2
    BY DEF RDB_DATABASE_START
  <2>3. z \in Seq(Nat) /\ Len(z) = 3
    <3>1. \A n \in Nat : <<RDB_HASHTABLE_SIZE, n, 0>> \in Seq(Nat) /\ Len(<<RDB_HASHTABLE_SIZE, n, 0>>) = 3
      BY DEF RDB_HASHTABLE_SIZE
    <3> QED
      BY <1>2, <3>1, Zenon
  <2> QED
    BY <2>1, <2>2, <2>3, Zenon
<1>5a. d \o z = <<RDB_DATABASE_START, 0, RDB_HASHTABLE_SIZE, Count, 0>>
  <2> DEFINE r == <<RDB_DATABASE_START, 0, RDB_HASHTABLE_SIZE, Count, 0>>
  <2>1. /\ d \o z \in Seq(Nat) /\ Len(d \o z) = Len(d) + Len(z)
        /\ \A i \in 1 .. Len(d) : (d \o z)[i] = d[i]
        /\ \A i \in 1 .. Len(z) : (d \o z)[Len(d) + i] = z[i]
    BY <1>5, Joined
  <2>2. /\ (d \o z)[1] = RDB_DATABASE_START /\ (d \o z)[2] = 0
        /\ (d \o z)[3] = RDB_HASHTABLE_SIZE /\ (d \o z)[4] = Count /\ (d \o z)[5] = 0
    BY <2>1
  <2>3. /\ r \in Seq(Nat) /\ Len(r) = 5 /\ r[1] = RDB_DATABASE_START /\ r[2] = 0
        /\ r[3] = RDB_HASHTABLE_SIZE /\ r[4] = Count /\ r[5] = 0
    BY <1>2 DEF RDB_DATABASE_START, RDB_HASHTABLE_SIZE
  <2> DEFINE y == d \o z
  <2> HIDE DEF d, z, r, y
  <2>4. Len(y) = 5 /\ y \in Seq(Nat)
    BY <1>5, <2>1 DEF y
  <2>5. ASSUME NEW i \in 1 .. 5 PROVE y[i] = r[i]
    <3>1. i = 1 \/ i = 2 \/ i = 3 \/ i = 4 \/ i = 5
      OBVIOUS
    <3> QED
      BY <2>2, <2>3, <3>1 DEF y
  <2>6. y = r
    BY <2>3, <2>4, <2>5, SeqEqual
  <2> QED
    BY <2>6 DEF y, r
<1>6. file = SubSeq(a \o Trailer, 1, Len(a \o Trailer) - c.lost)
  BY <1>1 DEF FileOK, FileBytes, Count
<1> HIDE DEF c, h, d, z, l
<1>7. d \o z \in Seq(Nat) /\ Len(d \o z) = 5 /\ (d \o z) \o l \in Seq(Nat)
  <2>1. d \o z \in Seq(Nat) /\ Len(d \o z) = Len(d) + Len(z)
    BY <1>5, Joined
  <2>2. (d \o z) \o l \in Seq(Nat)
    BY <1>4, <2>1, Joined
  <2> QED
    BY <1>5, <2>1, <2>2
<1>8. sec \in Seq(Nat)
  BY <1>7
<1>9. h \o c.aux \in Seq(Nat) /\ Len(h \o c.aux) = Section
  <2>1. h \o c.aux \in Seq(Nat) /\ Len(h \o c.aux) = Len(h) + Len(c.aux)
    BY <1>3, <1>5, Joined
  <2> QED
    BY <1>5, <2>1 DEF Section, c
<1> HIDE DEF sec
<1>10. a \in Seq(Nat) /\ Len(a) = Section + Len(sec)
  <2>1. a \in Seq(Nat) /\ Len(a) = Len(h \o c.aux) + Len(sec)
    BY <1>8, <1>9, Joined
  <2> QED
    BY <1>9, <2>1
<1>11. file \in Seq(Nat) /\ Holds(0, a) /\ Over(Len(a))
  <2> HIDE DEF a
  <2> QED
    BY <1>1, <1>6, <1>10, CutFile
<1>12. Holds(0, h \o c.aux) /\ Holds(0 + Section, sec)
  BY <1>8, <1>9, <1>11, HoldsBoth
<1>13. Holds(0, h) /\ Holds(0 + Len(h), c.aux)
  BY <1>3, <1>5, <1>11, <1>12, HoldsBoth
<1>14. Section \in Nat /\ 0 + Section = Section /\ 0 + Len(h) = 2
  BY <1>3, <1>5 DEF Section, c
<1>15. ASSUME Count = 0 PROVE Over(Section)
  <2>1. sec = <<>> /\ Len(sec) = 0
    BY <1>2, <1>15 DEF sec
  <2>2. Len(a) = Section
    BY <1>10, <1>14, <2>1
  <2> QED
    BY <1>11, <2>2
<1>16. ASSUME Count # 0 PROVE Holds(Section, d \o z) /\ Ahead(Section + 5, 1)
  <2>1. sec = (d \o z) \o l
    BY <1>2, <1>16 DEF sec
  <2>2. Holds(Section, d \o z) /\ Holds(Section + 5, l)
    <3>1. Holds(Section, (d \o z) \o l)
      BY <1>12, <1>14, <2>1
    <3>2. Holds(Section, d \o z) /\ Holds(Section + Len(d \o z), l)
      BY <1>4, <1>7, <1>11, <1>14, <3>1, HoldsBoth
    <3> QED
      BY <1>7, <3>2
  <2>3. Len(sec) = 5 + Len(l) /\ Len(l) \in Nat
    <3>1. Len((d \o z) \o l) = Len(d \o z) + Len(l)
      BY <1>4, <1>7, Joined
    <3> QED
      BY <1>4, <1>7, <2>1, <3>1, LenProperties
  <2>4. Len(a) = Section + 5 + Len(l)
    BY <1>10, <1>14, <2>3
  <2>5. Count + 1 - 1 = Count
    BY <1>2
  <2> QED
    BY <1>11, <2>2, <2>4, <2>5 DEF Ahead, l, c
<1> QED
  BY <1>5a, <1>11, <1>13, <1>14, <1>15, <1>16 DEF Layout, h, c

\* Reading what a file holds.
LEMMA ByteRead ==
    ASSUME NEW p \in Nat, file \in Seq(Nat), p < Len(file)
    PROVE  readByte(p).v = file[p + 1] /\ readByte(p).p = p + 1 /\ file[p + 1] \in Nat
<1>1. p + 1 \in 1 .. Len(file)
  BY LenProperties
<1>2. file[p + 1] \in Nat
  BY <1>1, ElementOfSeq
<1> QED
  BY <1>2 DEF readByte

LEMMA LengthRead ==
    ASSUME NEW p \in Nat, file \in Seq(Nat), p < Len(file), file[p + 1] \in 0 .. 63
    PROVE  readLength(p).v = file[p + 1] /\ readLength(p).p = p + 1
<1> DEFINE byte == readByte(p)
<1>1. byte = [v |-> file[p + 1], p |-> p + 1]
  BY DEF readByte
<1>2. file[p + 1] \div 64 = 0 /\ file[p + 1] % 64 = file[p + 1]
  <2>1. \A x \in 0 .. 63 : x \div 64 = 0 /\ x % 64 = x
    OBVIOUS
  <2> QED
    BY <2>1
<1>3. readLength(p) = [byte EXCEPT !.v = byte.v % 64]
  BY <1>1, <1>2 DEF readLength
<1> QED
  BY <1>1, <1>2, <1>3

LEMMA FreadHeld ==
    ASSUME NEW p \in Nat, file \in Seq(Nat), NEW b \in Seq(Nat), Len(b) # 0, Holds(p, b)
    PROVE  fread(p, Len(b)).v = b /\ fread(p, Len(b)).p = p + Len(b)
<1> DEFINE n == Len(b)
           u == SubSeq(file, p + 1, p + n)
<1>1. n \in Nat /\ n # 0 /\ Len(file) \in Nat
  BY LenProperties
<1>2. p + n <= Len(file) /\ \A i \in 1 .. n : file[p + i] = b[i]
  BY DEF Holds
<1> HIDE DEF n
<1>3. fread(p, n).v = u /\ fread(p, n).p = p + n
  BY <1>2 DEF fread
<1>4. ASSUME NEW i \in (p + 1) .. (p + n) PROVE file[i] \in Nat
  <2>1. i \in 1 .. Len(file)
    BY <1>1, <1>2
  <2> QED
    BY <2>1, ElementOfSeq
<1>5. p + 1 \in Int /\ p + n \in Int /\ p + 1 <= p + n /\ (p + n) - (p + 1) + 1 = n
  BY <1>1
<1>6. u \in Seq(Nat) /\ Len(u) = n /\ \A i \in 1 .. n : u[i] = file[(p + 1) + i - 1]
  <2>1. /\ u \in Seq(Nat)
        /\ Len(u) = IF p + 1 <= p + n THEN (p + n) - (p + 1) + 1 ELSE 0
        /\ \A i \in 1 .. ((p + n) - (p + 1) + 1) : u[i] = file[(p + 1) + i - 1]
    <3> DEFINE lo == p + 1
               hi == p + n
    <3>1. lo \in Int /\ hi \in Int /\ \A i \in lo .. hi : file[i] \in Nat
      BY <1>4, <1>5
    <3> HIDE DEF lo, hi
    <3>2. /\ SubSeq(file, lo, hi) \in Seq(Nat)
          /\ Len(SubSeq(file, lo, hi)) = IF lo <= hi THEN hi - lo + 1 ELSE 0
          /\ \A i \in 1 .. (hi - lo + 1) : SubSeq(file, lo, hi)[i] = file[lo + i - 1]
      BY <3>1, SubSeqProperties
    <3> QED
      BY <3>2, Zenon DEF lo, hi
  <2> HIDE DEF u
  <2> QED
    BY <1>5, <2>1
<1>7. ASSUME NEW i \in 1 .. n PROVE u[i] = b[i]
  <2>1. (p + 1) + i - 1 = p + i
    OBVIOUS
  <2> HIDE DEF u
  <2> QED
    BY <1>2, <1>6, <2>1
<1> HIDE DEF u
<1>8. u = b
  BY <1>6, <1>7, SeqEqual DEF n
<1> QED
  BY <1>3, <1>8 DEF n

LEMMA StringRead ==
    ASSUME NEW p \in Nat, file \in Seq(Nat), NEW s \in Seq(Byte), Len(s) \in 1 .. 63,
           Holds(p, StringBytes(s))
    PROVE  readString(p).v = s /\ readString(p).p = p + 1 + Len(s)
<1> DEFINE n == Len(s)
<1>1. s \in Seq(Nat) /\ <<n>> \in Seq(Nat) /\ Len(<<n>>) = 1 /\ n \in Nat /\ n # 0
  BY StringType
<1>2. Holds(p, <<n>>) /\ Holds(p + 1, s)
  <2>1. Holds(p, <<n>>) /\ Holds(p + Len(<<n>>), s)
    BY <1>1, HoldsBoth DEF StringBytes
  <2> QED
    BY <1>1, <2>1
<1>3. p < Len(file) /\ file[p + 1] = n
  <2>1. p + 1 <= Len(file) /\ Len(file) \in Nat
    BY <1>1, <1>2, LenProperties DEF Holds
  <2>2. 1 \in 1 .. Len(<<n>>) /\ <<n>>[1] = n
    OBVIOUS
  <2> QED
    BY <1>2, <2>1, <2>2 DEF Holds
<1>4. file[p + 1] \in 0 .. 63
  <2>1. \A x \in 1 .. 63 : x \in 0 .. 63
    OBVIOUS
  <2> QED
    BY <1>3, <2>1, Zenon
<1> HIDE DEF n
<1>5. readLength(p).v = n /\ readLength(p).p = p + 1
  BY <1>3, <1>4, LengthRead
<1>6. fread(p + 1, n).v = s /\ fread(p + 1, n).p = p + 1 + n
  BY <1>1, <1>2, FreadHeld DEF n
<1> QED
  BY <1>5, <1>6 DEF readString, n

LEMMA Uint64Read ==
    ASSUME NEW p \in Nat, file \in Seq(Nat), NEW n \in Nat, Quotients(n, LongBytes)[LongBytes] = 0,
           Holds(p, LittleEndian(n, LongBytes))
    PROVE  readUint64(p).v = n /\ readUint64(p).p = p + LongBytes
<1> DEFINE b == LittleEndian(n, LongBytes)
<1>1. LongBytes \in Nat /\ LongBytes # 0
  BY WidthAssumption
<1>2. b \in Seq(Nat) /\ Len(b) = LongBytes
  BY <1>1, BytesOfNumber
<1>3. Number(b) = n
  BY <1>1, RoundTrip
<1> HIDE DEF b
<1>4. fread(p, LongBytes).v = b /\ fread(p, LongBytes).p = p + LongBytes
  <2>1. fread(p, Len(b)).v = b /\ fread(p, Len(b)).p = p + Len(b)
    BY <1>1, <1>2, FreadHeld DEF b
  <2> QED
    BY <1>2, <2>1
<1>5. fread(p, LongBytes) = [v |-> fread(p, LongBytes).v, p |-> fread(p, LongBytes).p]
  BY DEF fread
<1> QED
  BY <1>3, <1>4, <1>5 DEF readUint64

\* At the end of the file there is a byte 0 for ever, and no string.
LEMMA EndRead ==
    ASSUME NEW p \in Nat, file \in Seq(Nat), p = Len(file)
    PROVE  readByte(p).v = 0 /\ readByte(p).p = p /\ readString(p).v = <<>>
<1>1. readByte(p) = [v |-> 0, p |-> p]
  BY DEF readByte
<1>2. readLength(p) = [v |-> 0, p |-> p]
  BY <1>1 DEF readLength
<1>3. fread(p, 0).v = <<>>
  BY DEF fread
<1> QED
  BY <1>1, <1>2, <1>3 DEF readString

LEMMA HeaderRead == ASSUME file \in Seq(Nat), Layout PROVE ValidHeader
<1> DEFINE h == <<RDB_MAGIC, RDB_VERSION>>
<1>1. /\ Len(file) \in Nat /\ 2 <= Len(file) /\ file[1] = RDB_MAGIC /\ file[2] = RDB_VERSION
  BY LenProperties DEF Layout, Holds
<1>2. h \in Seq(Nat) /\ Len(h) = 2 /\ SubSeq(h, 1, 2) = h /\ Holds(0, h)
  <2>1. h \in Seq(Nat) /\ Len(h) = 2
    BY DEF RDB_MAGIC, RDB_VERSION
  <2>2. Holds(0, h)
    BY Zenon DEF Layout
  <2>3. SubSeq(h, 1, Len(h)) = h
    <3> HIDE DEF h
    <3> QED
      BY <2>1, SubSeqFull
  <2> HIDE DEF h
  <2> QED
    BY <2>1, <2>2, <2>3
<1>3. SubSeq(file, 1, 2) = h
  <2>1. fread(0, 2).v = h
    <3> HIDE DEF h
    <3>0. 0 \in Nat /\ Len(h) # 0
      BY <1>2
    <3>1. fread(0, Len(h)).v = h
      BY <1>2, <3>0, FreadHeld, Zenon
    <3> QED
      BY <1>2, <3>1
  <2> QED
    BY <1>1, <2>1 DEF fread
<1> QED
  BY <1>1, <1>2, <1>3 DEF ValidHeader, IsPrefix

-----------------------------------------------------------------------------
(* The reader in a plain file, step by step *)

PlainState == ShapeOK /\ FileOK /\ Plain(content) /\ file \in Seq(Nat) /\ Layout /\ PlainOK

\* What the file is made from and what is where do not change.
LEMMA SameFile ==
    ASSUME UNCHANGED <<content, file, target>>
    PROVE  /\ Count' = Count /\ Section' = Section /\ \A j : KeysBefore(j)' = KeysBefore(j)
           /\ (FileOK' <=> FileOK) /\ (Plain(content)' <=> Plain(content)) /\ (Layout' <=> Layout)
<1>1. FileOK' <=> FileOK
  BY DEF FileOK
<1>2. Plain(content)' <=> Plain(content)
  BY Zenon DEF Plain
<1>3. Count' = Count /\ Section' = Section
  BY DEF Count, Section
<1>4. \A j : KeysBefore(j)' = KeysBefore(j)
  BY DEF KeysBefore, Nth
<1>5. Layout' <=> Layout
  BY Zenon DEF Layout, Holds, Over, Ahead, Count, Section
<1> QED
  BY <1>1, <1>2, <1>3, <1>4, <1>5, Zenon

LEMMA ReadingNext ==
    ASSUME UNCHANGED <<content, file, target>>, NEW j \in 1 .. (Count + 1),
           pc' = "entry" => Ahead(pos', j),
           pc' = "key" => \/ /\ j <= Count /\ type' = RDB_TYPE_STRING
                             /\ expiry' = IF Nth(j).unit = "ms" THEN Nth(j).at ELSE 0
                             /\ BeforeKey(pos', j)
                          \/ j = Count + 1 /\ pos' = Len(file),
           pc' = "value" => /\ j <= Count /\ type' = RDB_TYPE_STRING
                            /\ expiry' = IF Nth(j).unit = "ms" THEN Nth(j).at ELSE 0
                            /\ BeforeValue(pos', j) /\ key' = Nth(j).key,
           op' = "GET" => target \notin KeysBefore(j),
           op' = "KEYS" => Range(keys') = KeysBefore(j)
    PROVE  Reading'
<1>1. Count' = Count /\ KeysBefore(j)' = KeysBefore(j) /\ Nth(j)' = Nth(j)
  BY DEF Count, KeysBefore, Nth
<1>2. Ahead(pos, j)' <=> Ahead(pos', j)
  BY Zenon DEF Ahead, Holds, Over, Count
<1>3. BeforeKey(pos, j)' <=> BeforeKey(pos', j)
  BY Zenon DEF BeforeKey, BeforeValue, Ahead, Holds, Over, Count, Nth
<1>4. BeforeValue(pos, j)' <=> BeforeValue(pos', j)
  BY Zenon DEF BeforeValue, Ahead, Holds, Over, Count, Nth
<1>5. Range(keys)' = Range(keys')
  BY DEF Range
<1>6. At(j)'
  BY <1>1, <1>2, <1>3, <1>4 DEF At, Begun
<1> QED
  BY <1>1, <1>5, <1>6 DEF Reading

\* The keys of the entries before the first, and before the one after the j-th.
LEMMA KeysBeforeNext ==
    /\ KeysBefore(1) = {}
    /\ \A j \in Nat \ {0} : KeysBefore(j + 1) = KeysBefore(j) \cup {Nth(j).key}
<1>1. KeysBefore(1) = {}
  BY DEF KeysBefore
<1>2. ASSUME NEW j \in Nat \ {0} PROVE KeysBefore(j + 1) = KeysBefore(j) \cup {Nth(j).key}
  <2>1. 1 .. ((j + 1) - 1) = (1 .. (j - 1)) \cup {j}
    OBVIOUS
  <2> QED
    BY <2>1 DEF KeysBefore
<1> QED
  BY <1>1, <1>2

LEMMA EntriesRange ==
    ASSUME FileOK
    PROVE  Range(content.entries) = {Nth(k) : k \in 1 .. Count} /\ Count \in Nat
<1>1. content.entries \in Seq(Entry)
  BY ContentsAssumption DEF FileOK, Content
<1>2. DOMAIN content.entries = 1 .. Count /\ Count \in Nat
  BY <1>1, LenProperties DEF Count
<1> QED
  BY <1>2 DEF Range, Nth

\* The end of a command that has come to the end of the entries.
LEMMA ReturnAtEnd ==
    ASSUME PlainState, Return, UNCHANGED <<content, file, target, value, keys>>,
           op \in {"GET", "KEYS"},
           op = "GET" => target \notin KeysBefore(Count + 1),
           op = "KEYS" => Range(keys) = KeysBefore(Count + 1)
    PROVE  PlainOK'
<1>1. pc' = "open" /\ pos' = 0 /\ op' = (IF op = "GET" THEN "KEYS" ELSE "none")
  BY DEF Return
<1>2. Count' = Count /\ KeysBefore(Count + 1)' = KeysBefore(Count + 1)
  BY DEF Count, KeysBefore, Nth
<1>3. GetRight' <=> GetRight
  BY DEF GetRight, Live, Range
<1>4. Range(keys)' = Range(keys)
  BY DEF Range
<1>5. CASE op = "GET"
  <2>1. value = <<>> /\ (keys = <<>>)
    BY <1>5 DEF PlainState, PlainOK
  <2>2. ASSUME NEW f \in Range(content.entries) PROVE f.key # target
    <3>1. Count \in Nat /\ Range(content.entries) = {Nth(k) : k \in 1 .. Count}
      BY EntriesRange DEF PlainState
    <3>2. PICK k \in 1 .. Count : f = Nth(k)
      BY <3>1
    <3>3. (Count + 1) - 1 = Count
      BY <3>1
    <3> QED
      BY <1>5, <3>2, <3>3 DEF KeysBefore
  <2>3. {f \in Range(content.entries) : f.key = target /\ Live(f)} = {}
    BY <2>2, Zenon
  <2>4. GetRight
    BY <2>1, <2>3, Zenon DEF GetRight
  <2> QED
    BY <1>1, <1>3, <1>5, <2>1, <2>4 DEF PlainOK
<1>6. CASE op = "KEYS"
  <2>1. GetRight
    BY <1>6 DEF PlainState, PlainOK
  <2> QED
    BY <1>1, <1>2, <1>3, <1>4, <1>6, <2>1 DEF PlainOK
<1> QED
  BY <1>5, <1>6

\* The byte at q is the i-th of the bytes from p on.
LEMMA HeldByte ==
    ASSUME NEW p \in Nat, file \in Seq(Nat), NEW b \in Seq(Nat), Holds(p, b),
           NEW i \in 1 .. Len(b), NEW q \in Nat, q + 1 = p + i
    PROVE  /\ q < Len(file) /\ file[q + 1] = b[i]
           /\ readByte(q).v = b[i] /\ readByte(q).p = q + 1
<1>1. Len(b) \in Nat /\ Len(file) \in Nat
  BY LenProperties
<1>2. p + Len(b) <= Len(file) /\ file[p + i] = b[i]
  BY DEF Holds
<1>3. q < Len(file)
  BY <1>1, <1>2
<1>4. readByte(q).v = file[q + 1] /\ readByte(q).p = q + 1
  BY <1>3, ByteRead
<1> QED
  BY <1>2, <1>3, <1>4

LEMMA PlainHeader ==
    ASSUME PlainState, validateHeader
    PROVE  PlainOK'
<1>1. ValidHeader
  BY HeaderRead DEF PlainState
<1>2. /\ op # "none" /\ pc = "open" /\ pc' = "scan" /\ pos' = 2 /\ op' = op
      /\ UNCHANGED <<content, file, target, value, keys>>
  BY <1>1 DEF validateHeader, entryVars
<1>3. GetRight' <=> GetRight
  BY <1>2 DEF GetRight, Live, Range
<1>4. Section' = Section /\ Section \in Nat /\ 2 <= Section
  <2>1. Len(content.aux) \in Nat
    BY ContentsAssumption, LenProperties DEF PlainState, FileOK, Content
  <2> QED
    BY <1>2, <2>1 DEF Section
<1> QED
  BY <1>2, <1>3, <1>4 DEF PlainState, PlainOK

LEMMA PlainScan ==
    ASSUME PlainState, findDatabaseSection
    PROVE  PlainOK'
<1> DEFINE byte == readByte(pos)
<1>1. /\ op # "none" /\ pc = "scan" /\ UNCHANGED <<content, file, target, value, keys>>
      /\ \/ byte.v = RDB_EOF /\ Return
         \/ /\ byte.v = RDB_DATABASE_START
            /\ pc' = "sizes" /\ pos' = readLength(byte.p).p
            /\ UNCHANGED op
         \/ /\ byte.v \notin {RDB_EOF, RDB_DATABASE_START}
            /\ pos' = byte.p
            /\ UNCHANGED <<op, pc>>
  BY DEF findDatabaseSection, entryVars
<1>2. pos \in 2 .. Section /\ pos \in Nat /\ (keys = <<>>)
  BY <1>1 DEF PlainState, PlainOK
<1>3. content.aux \in Seq(Nat) /\ Len(content.aux) \in Nat /\ Section = 2 + Len(content.aux)
      /\ Count \in Nat
  <2>1. content.aux \in Seq(Byte)
    BY ContentsAssumption DEF PlainState, FileOK, Content
  <2> QED
    BY <2>1, StringType, EntriesRange DEF Section, PlainState
<1>4. file \in Seq(Nat) /\ Layout /\ Plain(content) /\ FileOK
  BY DEF PlainState
<1>5. GetRight' <=> GetRight
  BY <1>1 DEF GetRight, Live, Range
<1>6. Section' = Section /\ Count' = Count
  BY <1>1 DEF Section, Count
<1> HIDE DEF byte
<1>7. CASE pos < Section
  <2> DEFINE i == pos - 1
  <2>1. i \in 1 .. Len(content.aux) /\ pos + 1 = 2 + i
    BY <1>2, <1>3, <1>7
  <2>2. byte.v = content.aux[i] /\ byte.p = pos + 1
    <3> DEFINE a == content.aux
               start == 2
    <3>1. Holds(start, a) /\ start \in Nat /\ a \in Seq(Nat) /\ pos + 1 = start + i
      BY <1>3, <1>4, <2>1 DEF Layout
    <3> HIDE DEF i, a, start
    <3>2. ASSUME NEW k \in 1 .. Len(a), NEW q \in Nat, q + 1 = start + k
          PROVE  readByte(q).v = a[k] /\ readByte(q).p = q + 1
      BY <1>4, <3>1, <3>2, HeldByte, ZenonT(60)
    <3> QED
      BY <1>2, <2>1, <3>1, <3>2, Zenon DEF byte, a
  <2>3. byte.v \notin {RDB_EOF, RDB_DATABASE_START}
    <3>1. i \in DOMAIN content.aux
      BY <1>3, <2>1, LenProperties
    <3>2. content.aux[i] \in Range(content.aux)
      BY <3>1 DEF Range
    <3> QED
      BY <1>4, <2>2, <3>2 DEF Plain
  <2>4. pos' = pos + 1 /\ op' = op /\ pc' = pc
    BY <1>1, <2>2, <2>3
  <2>5. pos' \in 2 .. Section' /\ pos' \in Nat
    BY <1>2, <1>3, <1>6, <1>7, <2>4
  <2> QED
    BY <1>1, <1>2, <1>5, <2>4, <2>5 DEF PlainState, PlainOK
<1>8. CASE pos = Section /\ Count = 0
  <2>1. Over(pos)
    BY <1>4, <1>8 DEF Layout
  <2>2. CASE pos = Len(file)
    <3>1. byte.v = 0 /\ byte.p = pos
      BY <1>2, <1>4, <2>2, EndRead DEF byte
    <3>2. pos' = pos /\ op' = op /\ pc' = pc
      BY <1>1, <3>1 DEF RDB_EOF, RDB_DATABASE_START
    <3> QED
      BY <1>1, <1>2, <1>5, <1>6, <3>2 DEF PlainState, PlainOK
  <2>3. CASE pos < Len(file) /\ file[pos + 1] = RDB_EOF
    <3>1. byte.v = RDB_EOF
      BY <1>2, <1>4, <2>3, ByteRead DEF byte
    <3>2. Return
      BY <1>1, <3>1 DEF RDB_EOF, RDB_DATABASE_START
    <3>3. KeysBefore(Count + 1) = {} /\ Range(keys) = {}
      <4>1. Range(keys) = {}
        BY <1>2 DEF Range
      <4>2. Count + 1 = 1
        BY <1>8
      <4> QED
        BY <4>1, <4>2, KeysBeforeNext
    <3>4. op \in {"GET", "KEYS"}
      BY <1>1 DEF PlainState, ShapeOK
    <3> QED
      BY <1>1, <3>2, <3>3, <3>4, ReturnAtEnd
  <2> QED
    BY <2>1, <2>2, <2>3 DEF Over
<1>9. CASE pos = Section /\ Count # 0
  <2> DEFINE b == <<RDB_DATABASE_START, 0, RDB_HASHTABLE_SIZE, Count, 0>>
  <2>1. b \in Seq(Nat) /\ Len(b) = 5 /\ b[1] = RDB_DATABASE_START /\ b[2] = 0
    BY <1>3 DEF RDB_DATABASE_START, RDB_HASHTABLE_SIZE
  <2>2. Holds(pos, b)
    BY <1>4, <1>9, Zenon DEF Layout
  <2> HIDE DEF b
  <2>3. byte.v = RDB_DATABASE_START /\ byte.p = pos + 1
    <3>1. 1 \in 1 .. Len(b)
      BY <2>1
    <3> QED
      BY <1>2, <1>4, <2>1, <2>2, <3>1, HeldByte DEF byte
  <2>4. pos + 1 < Len(file) /\ file[(pos + 1) + 1] = 0
    <3>1. 2 \in 1 .. Len(b) /\ pos + 1 \in Nat /\ (pos + 1) + 1 = pos + 2
      BY <1>2, <2>1
    <3> QED
      BY <1>2, <1>4, <2>1, <2>2, <3>1, HeldByte
  <2>5. readLength(byte.p).p = pos + 2
    <3>1. pos + 1 \in Nat /\ 0 \in 0 .. 63 /\ (pos + 1) + 1 = pos + 2
      BY <1>2
    <3> QED
      BY <1>4, <2>3, <2>4, <3>1, LengthRead
  <2>6. pc' = "sizes" /\ pos' = Section + 2 /\ op' = op
    BY <1>1, <1>9, <2>3, <2>5 DEF RDB_EOF, RDB_DATABASE_START
  <2>7. pos' \in Nat
    BY <1>3, <2>6
  <2> QED
    BY <1>1, <1>2, <1>5, <1>6, <1>9, <2>6, <2>7 DEF PlainState, PlainOK
<1> QED
  BY <1>2, <1>3, <1>7, <1>8, <1>9

LEMMA PlainSizes ==
    ASSUME PlainState, skipSizes
    PROVE  PlainOK'
<1> DEFINE byte == readByte(pos)
           b == <<RDB_DATABASE_START, 0, RDB_HASHTABLE_SIZE, Count, 0>>
<1>1. /\ pc = "sizes" /\ UNCHANGED <<content, file, target, op, value, keys>> /\ pc' = "entry"
      /\ pos' = IF byte.v = RDB_HASHTABLE_SIZE
                THEN readLength(readLength(byte.p).p).p ELSE byte.p
  BY DEF skipSizes, entryVars
<1>2. pos = Section + 2 /\ pos \in Nat /\ Count # 0 /\ (keys = <<>> \/ op = "none")
  BY <1>1 DEF PlainState, PlainOK
<1>3. file \in Seq(Nat) /\ Layout /\ Plain(content) /\ FileOK /\ op # "none"
  BY <1>1 DEF PlainState, ShapeOK
<1>4. Count \in Nat /\ Count < 64 /\ Section \in Nat
  <2>1. content.aux \in Seq(Byte)
    BY <1>3, ContentsAssumption DEF FileOK, Content
  <2>2. Len(content.aux) \in Nat
    BY <2>1, LenProperties
  <2> QED
    BY <1>3, <2>2, EntriesRange DEF Section, Plain, Count
<1>5. /\ b \in Seq(Nat) /\ Len(b) = 5 /\ b[3] = RDB_HASHTABLE_SIZE /\ b[4] = Count /\ b[5] = 0
  BY <1>4 DEF RDB_DATABASE_START, RDB_HASHTABLE_SIZE
<1>6. Holds(Section, b) /\ Ahead(Section + 5, 1)
  BY <1>2, <1>3, Zenon DEF Layout
<1> HIDE DEF b, byte
<1>6a. \A i \in 1 .. Len(b) : \A q \in Nat : q + 1 = Section + i =>
          /\ q < Len(file) /\ file[q + 1] = b[i]
          /\ readByte(q).v = b[i] /\ readByte(q).p = q + 1
  BY <1>3, <1>4, <1>5, <1>6, HeldByte, Zenon
<1>7. byte.v = RDB_HASHTABLE_SIZE /\ byte.p = Section + 3
  <2>1. 3 \in 1 .. Len(b) /\ pos + 1 = Section + 3
    BY <1>2, <1>4, <1>5
  <2> QED
    BY <1>2, <1>5, <1>6a, <2>1 DEF byte
<1>8. Section + 3 < Len(file) /\ file[(Section + 3) + 1] = Count
  <2> DEFINE q == Section + 3
  <2>1. 4 \in 1 .. Len(b) /\ q + 1 = Section + 4 /\ q \in Nat
    BY <1>4, <1>5
  <2> HIDE DEF q
  <2>2. q < Len(file) /\ file[q + 1] = b[4]
    BY <1>6a, <2>1
  <2> QED
    BY <1>5, <2>2 DEF q
<1>9. Section + 4 < Len(file) /\ file[(Section + 4) + 1] = 0
  <2> DEFINE q == Section + 4
  <2>1. 5 \in 1 .. Len(b) /\ q + 1 = Section + 5 /\ q \in Nat
    BY <1>4, <1>5
  <2> HIDE DEF q
  <2>2. q < Len(file) /\ file[q + 1] = b[5]
    BY <1>6a, <2>1
  <2> QED
    BY <1>5, <2>2 DEF q
<1>10. readLength(Section + 3).p = Section + 4
  <2>1. Section + 3 \in Nat /\ Count \in 0 .. 63 /\ (Section + 3) + 1 = Section + 4
    BY <1>4
  <2> QED
    BY <1>3, <1>8, <2>1, LengthRead
<1>11. readLength(Section + 4).p = Section + 5
  <2>1. Section + 4 \in Nat /\ 0 \in 0 .. 63 /\ (Section + 4) + 1 = Section + 5
    BY <1>4
  <2> QED
    BY <1>3, <1>9, <2>1, LengthRead
<1>12. pos' = Section + 5 /\ pos' \in Nat
  BY <1>1, <1>4, <1>7, <1>10, <1>11
<1>13. Reading'
  <2>1. 1 \in 1 .. (Count + 1)
    BY <1>4
  <2>2. Ahead(pos', 1)
    BY <1>6, <1>12
  <2>3. op' = "KEYS" => Range(keys') = {}
    BY <1>1, <1>2 DEF Range
  <2> QED
    BY <1>1, <2>1, <2>2, <2>3, KeysBeforeNext, ReadingNext
<1>14. GetRight' <=> GetRight
  BY <1>1 DEF GetRight, Live, Range
<1> QED
  BY <1>1, <1>3, <1>12, <1>13, <1>14 DEF PlainState, PlainOK

\* What is left to show of a step that goes on with the entries.
LEMMA EntryStep ==
    ASSUME PlainState, UNCHANGED <<content, file, target, op, value>>, Reading', pos' \in Nat,
           pc' \in {"entry", "key", "value"}, op \in {"GET", "KEYS"}, op = "GET" => keys' = keys
    PROVE  PlainOK'
<1>1. GetRight' <=> GetRight
  BY DEF GetRight, Live, Range
<1> QED
  BY <1>1 DEF PlainState, PlainOK

\* The expiry of an entry, the type, and where the key is.
LEMMA PlainPrefix ==
    ASSUME FileOK, Plain(content), file \in Seq(Nat), NEW j \in 1 .. Count, NEW p \in Nat,
           Ahead(p, j)
    PROVE  \/ /\ Nth(j).unit = "none" /\ readByte(p).v = RDB_TYPE_STRING
              /\ BeforeKey(readByte(p).p, j) /\ readByte(p).p \in Nat
           \/ /\ Nth(j).unit = "ms" /\ readByte(p).v = RDB_EXPIRE_MS
              /\ readUint64(readByte(p).p).v = Nth(j).at
              /\ LET after == readByte(readUint64(readByte(p).p).p)
                 IN  after.v = RDB_TYPE_STRING /\ BeforeKey(after.p, j) /\ after.p \in Nat
<1> DEFINE e == Nth(j)
           x == Prefix(e)
           t == <<RDB_TYPE_STRING>>
<1>1. Holds(p, x) /\ Holds(p + Len(x), t) /\ BeforeKey(p + Len(x) + 1, j)
  BY FirstAhead
<1>2. e \in Entry
  BY PlainEntry
<1>3. x \in Seq(Nat) /\ e.at \in Nat
  BY <1>2, EntryType
<1>4. Len(x) \in Nat
  BY <1>3, LenProperties
<1>5. t \in Seq(Nat) /\ 1 \in 1 .. Len(t) /\ t[1] = RDB_TYPE_STRING
  BY DEF RDB_TYPE_STRING
<1> HIDE DEF e, t
<1>6. p + Len(x) \in Nat /\ p + Len(x) + 1 \in Nat
  BY <1>4
<1>7. readByte(p + Len(x)).v = RDB_TYPE_STRING /\ readByte(p + Len(x)).p = p + Len(x) + 1
  <2> DEFINE q == p + Len(x)
  <2>1. q \in Nat /\ Holds(q, t)
    BY <1>1, <1>6
  <2> HIDE DEF q
  <2>2. readByte(q).v = RDB_TYPE_STRING /\ readByte(q).p = q + 1
    BY <1>5, <2>1, HeldByte
  <2> QED
    BY <2>2 DEF q
<1>8. CASE e.unit = "none"
  <2>1. x = <<>> /\ Len(x) = 0
    BY <1>8 DEF Prefix
  <2>2. p + Len(x) = p
    BY <2>1
  <2> QED
    BY <1>1, <1>6, <1>7, <1>8, <2>2 DEF e
<1>9. CASE e.unit = "ms" /\ Quotients(e.at, LongBytes)[LongBytes] = 0
  <2> DEFINE m == <<RDB_EXPIRE_MS>>
             l == LittleEndian(e.at, LongBytes)
  <2>1. x = m \o l
    BY <1>9 DEF Prefix
  <2>2. m \in Seq(Nat) /\ Len(m) = 1 /\ m[1] = RDB_EXPIRE_MS
    BY DEF RDB_EXPIRE_MS
  <2>3. l \in Seq(Nat) /\ Len(l) = LongBytes /\ LongBytes \in Nat
    BY <1>3, WidthAssumption, BytesOfNumber
  <2> HIDE DEF m, l, x
  <2>4. Holds(p, m) /\ Holds(p + 1, l)
    <3>1. Holds(p, m) /\ Holds(p + Len(m), l)
      BY <1>1, <2>1, <2>2, <2>3, HoldsBoth
    <3> QED
      BY <2>2, <3>1
  <2>5. Len(x) = 1 + LongBytes
    <3>1. Len(x) = Len(m) + Len(l)
      BY <2>1, <2>2, <2>3, Joined
    <3> QED
      BY <2>2, <2>3, <3>1
  <2>6. readByte(p).v = RDB_EXPIRE_MS /\ readByte(p).p = p + 1
    <3>1. 1 \in 1 .. Len(m)
      BY <2>2
    <3> QED
      BY <2>2, <2>4, <3>1, HeldByte
  <2>7. readUint64(p + 1).v = e.at /\ readUint64(p + 1).p = p + 1 + LongBytes
    <3>1. p + 1 \in Nat
      OBVIOUS
    <3> QED
      BY <1>3, <1>9, <2>4, <3>1, Uint64Read DEF l
  <2>8. p + 1 + LongBytes = p + Len(x)
    BY <2>3, <2>5
  <2> QED
    BY <1>1, <1>6, <1>7, <1>9, <2>6, <2>7, <2>8 DEF e
<1> QED
  BY <1>8, <1>9, PlainEntry DEF e

LEMMA PlainType ==
    ASSUME PlainState, readType
    PROVE  PlainOK'
<1> DEFINE byte == readByte(pos)
<1>1. /\ pc = "entry" /\ UNCHANGED <<content, file, target, value, keys>>
      /\ \/ byte.v = RDB_EOF /\ Return
         \/ /\ byte.v \in {RDB_EXPIRE_MS, RDB_EXPIRE_SEC}
            /\ expiry' = Expiry(byte.v, byte.p).v
            /\ type' = readByte(Expiry(byte.v, byte.p).p).v
            /\ pos' = readByte(Expiry(byte.v, byte.p).p).p
            /\ pc' = "key" /\ UNCHANGED op
         \/ /\ byte.v \notin {RDB_EOF, RDB_EXPIRE_MS, RDB_EXPIRE_SEC}
            /\ expiry' = 0 /\ type' = byte.v /\ pos' = byte.p
            /\ pc' = "key" /\ UNCHANGED op
  BY Zenon DEF readType
<1>2. /\ FileOK /\ Plain(content) /\ file \in Seq(Nat) /\ pos \in Nat /\ Reading
      /\ op \in {"GET", "KEYS"} /\ Count \in Nat
  BY <1>1, EntriesRange DEF PlainState, PlainOK, ShapeOK
<1>3. PICK j \in 1 .. (Count + 1) :
          /\ At(j)
          /\ op = "GET" => target \notin KeysBefore(j)
          /\ op = "KEYS" => Range(keys) = KeysBefore(j)
  BY <1>2 DEF Reading
<1>4. Ahead(pos, j)
  BY <1>1, <1>3 DEF At
<1> HIDE DEF byte
<1>5. CASE j = Count + 1
  <2>1. Over(pos)
    <3> DEFINE b == LastEntries(content.entries)[Count + 1 - j]
    <3>1. content.entries \in Seq(Entry)
      BY <1>2, ContentsAssumption DEF FileOK, Content
    <3>2. Count + 1 - j = 0
      BY <1>2, <1>5
    <3>3. b = <<>>
      BY <3>1, <3>2, LastEntriesDefined
    <3>4. pos + Len(b) = pos
      BY <1>2, <3>3
    <3> QED
      BY <1>4, <3>4 DEF Ahead
  <2>2. CASE pos = Len(file)
    <3>1. byte.v = 0 /\ byte.p = pos
      BY <1>2, <2>2, EndRead DEF byte
    <3>2. pos' = pos /\ op' = op /\ pc' = "key"
      BY <1>1, <3>1 DEF RDB_EOF, RDB_EXPIRE_MS, RDB_EXPIRE_SEC
    <3>3. Reading'
      BY <1>1, <1>3, <1>5, <2>2, <3>2, ReadingNext
    <3> QED
      BY <1>1, <1>2, <3>2, <3>3, EntryStep
  <2>3. CASE pos < Len(file) /\ file[pos + 1] = RDB_EOF
    <3>1. byte.v = RDB_EOF
      BY <1>2, <2>3, ByteRead DEF byte
    <3>2. Return
      BY <1>1, <3>1 DEF RDB_EOF, RDB_EXPIRE_MS, RDB_EXPIRE_SEC
    <3> QED
      BY <1>1, <1>2, <1>3, <1>5, <3>2, ReturnAtEnd
  <2> QED
    BY <2>1, <2>2, <2>3 DEF Over
<1>6. CASE j # Count + 1
  <2>1. j \in 1 .. Count /\ j <= Count
    BY <1>2, <1>6
  <2>2. CASE /\ Nth(j).unit = "none" /\ byte.v = RDB_TYPE_STRING
             /\ BeforeKey(byte.p, j) /\ byte.p \in Nat
    <3>1. /\ pos' = byte.p /\ op' = op /\ pc' = "key" /\ expiry' = 0 /\ type' = RDB_TYPE_STRING
      BY <1>1, <2>2 DEF RDB_EOF, RDB_EXPIRE_MS, RDB_EXPIRE_SEC, RDB_TYPE_STRING
    <3>2. Reading'
      BY <1>1, <1>3, <2>1, <2>2, <3>1, ReadingNext
    <3> QED
      BY <1>1, <1>2, <2>2, <3>1, <3>2, EntryStep
  <2>3. CASE /\ Nth(j).unit = "ms" /\ byte.v = RDB_EXPIRE_MS
             /\ readUint64(byte.p).v = Nth(j).at
             /\ LET after == readByte(readUint64(byte.p).p)
                IN  after.v = RDB_TYPE_STRING /\ BeforeKey(after.p, j) /\ after.p \in Nat
    <3> DEFINE after == readByte(readUint64(byte.p).p)
    <3>1. Expiry(byte.v, byte.p) = readUint64(byte.p)
      BY <2>3 DEF Expiry
    <3>2. /\ pos' = after.p /\ op' = op /\ pc' = "key" /\ expiry' = Nth(j).at
          /\ type' = RDB_TYPE_STRING
      BY <1>1, <2>3, <3>1 DEF RDB_EOF, RDB_EXPIRE_MS, RDB_EXPIRE_SEC
    <3>3. BeforeKey(after.p, j) /\ after.p \in Nat
      BY <2>3
    <3> HIDE DEF after
    <3>4. Reading'
      BY <1>1, <1>3, <2>1, <2>3, <3>2, <3>3, ReadingNext
    <3> QED
      BY <1>1, <1>2, <3>2, <3>3, <3>4, EntryStep
  <2> QED
    BY <1>2, <1>4, <2>1, <2>2, <2>3, PlainPrefix, Zenon DEF byte
<1> QED
  BY <1>5, <1>6

LEMMA PlainKey ==
    ASSUME PlainState, readKey
    PROVE  PlainOK'
<1> DEFINE s == readString(pos)
<1>1. /\ pc = "key" /\ UNCHANGED <<content, file, target, type, expiry, value, keys>>
      /\ \/ s.v = <<>> /\ Return
         \/ s.v # <<>> /\ key' = s.v /\ pos' = s.p /\ pc' = "value" /\ UNCHANGED op
  BY Zenon DEF readKey
<1>2. /\ FileOK /\ Plain(content) /\ file \in Seq(Nat) /\ pos \in Nat /\ Reading
      /\ op \in {"GET", "KEYS"} /\ Count \in Nat
  BY <1>1, EntriesRange DEF PlainState, PlainOK, ShapeOK
<1>3. PICK j \in 1 .. (Count + 1) :
          /\ At(j)
          /\ op = "GET" => target \notin KeysBefore(j)
          /\ op = "KEYS" => Range(keys) = KeysBefore(j)
  BY <1>2 DEF Reading
<1> HIDE DEF s
<1>4. CASE j = Count + 1 /\ pos = Len(file)
  <2>1. s.v = <<>>
    BY <1>2, <1>4, EndRead DEF s
  <2>2. Return
    BY <1>1, <2>1
  <2> QED
    BY <1>1, <1>2, <1>3, <1>4, <2>2, ReturnAtEnd
<1>5. CASE Begun(j) /\ BeforeKey(pos, j)
  <2>1. j \in 1 .. Count /\ j <= Count
    BY <1>2, <1>5 DEF Begun
  <2>2. Nth(j) \in Entry /\ Len(Nth(j).key) \in 1 .. 63
    BY <1>2, <2>1, PlainEntry
  <2>3. Nth(j).key \in Seq(Byte) /\ Nth(j).key # <<>>
    BY <2>2, EntryType
  <2>4. s.v = Nth(j).key /\ s.p = pos + 1 + Len(Nth(j).key)
    BY <1>2, <1>5, <2>2, <2>3, StringRead DEF BeforeKey, s
  <2>5. key' = Nth(j).key /\ pos' = s.p /\ pc' = "value" /\ op' = op
    BY <1>1, <2>3, <2>4
  <2>6. BeforeValue(pos', j)
    BY <1>5, <2>4, <2>5 DEF BeforeKey
  <2>7. pos' \in Nat
    <3>1. \A n \in 1 .. 63 : pos + 1 + n \in Nat
      BY <1>2
    <3> QED
      BY <2>2, <2>4, <2>5, <3>1
  <2>8. Reading'
    BY <1>1, <1>3, <1>5, <2>1, <2>5, <2>6, ReadingNext DEF Begun
  <2> QED
    BY <1>1, <1>2, <2>5, <2>7, <2>8, EntryStep
<1> QED
  BY <1>1, <1>3, <1>4, <1>5 DEF At

\* The value of an entry is read or skipped; the next entry is ahead then.
LEMMA PlainValue ==
    ASSUME FileOK, Plain(content), file \in Seq(Nat), NEW j \in 1 .. Count, NEW p \in Nat,
           BeforeValue(p, j)
    PROVE  /\ readString(p).v = Nth(j).value /\ Nth(j).value # <<>>
           /\ Ahead(readString(p).p, j + 1) /\ readString(p).p \in Nat
<1> DEFINE v == Nth(j).value
<1>1. Nth(j) \in Entry /\ Len(v) \in 1 .. 63
  BY PlainEntry
<1>2. v \in Seq(Byte) /\ v # <<>>
  <2>1. v \in Seq(Byte)
    BY <1>1, EntryType
  <2>2. Len(v) # 0
    <3>1. 0 \notin 1 .. 63
      OBVIOUS
    <3> QED
      BY <1>1, <3>1, Zenon
  <2> QED
    BY <2>1, <2>2, EmptySeq
<1>3. Holds(p, StringBytes(v)) /\ Ahead(p + 1 + Len(v), j + 1)
  BY DEF BeforeValue
<1> HIDE DEF v
<1>4. readString(p).v = v /\ readString(p).p = p + 1 + Len(v)
  BY <1>1, <1>2, <1>3, StringRead
<1>5. \A n \in 1 .. 63 : p + 1 + n \in Nat
  OBVIOUS
<1> QED
  BY <1>1, <1>2, <1>3, <1>4, <1>5 DEF v

\* The answer to GET when it has come to its key: the j-th entry alone has it.
LEMMA PlainAnswer ==
    ASSUME FileOK, Plain(content), NEW j \in 1 .. Count, Nth(j).key = target
    PROVE  {e.value : e \in {f \in Range(content.entries) : f.key = target /\ Live(f)}}
             = IF Live(Nth(j)) THEN {Nth(j).value} ELSE {}
<1>1. Range(content.entries) = {Nth(k) : k \in 1 .. Count}
  BY EntriesRange
<1>2. ASSUME NEW f \in Range(content.entries), f.key = target PROVE f = Nth(j)
  <2>1. PICK k \in 1 .. Count : f = Nth(k)
    BY <1>1
  <2>2. DOMAIN content.entries = 1 .. Count
    BY ContentsAssumption, LenProperties DEF FileOK, Content, Count
  <2>3. Nth(k).key = Nth(j).key
    BY <1>2, <2>1
  <2>4. k = j
    BY <2>2, <2>3 DEF Plain, Nth
  <2> QED
    BY <2>1, <2>4
<1>3. Nth(j) \in Range(content.entries)
  BY <1>1
<1>4. {f \in Range(content.entries) : f.key = target /\ Live(f)}
        = IF Live(Nth(j)) THEN {Nth(j)} ELSE {}
  <2> DEFINE R == Range(content.entries)
             E == Nth(j)
  <2>1. E \in R /\ E.key = target /\ \A f \in R : f.key = target => f = E
    BY <1>2, <1>3
  <2> HIDE DEF R, E
  <2>2. {f \in R : f.key = target /\ Live(f)} = IF Live(E) THEN {E} ELSE {}
    BY <2>1, Zenon
  <2> QED
    BY <2>2, Zenon DEF R, E
<1> QED
  BY <1>4

LEMMA PlainGet ==
    ASSUME PlainState, getRdbValue
    PROVE  PlainOK'
<1>1. /\ op = "GET" /\ pc = "value" /\ UNCHANGED <<content, file, target, keys>>
      /\ \/ /\ type = RDB_TYPE_STRING /\ key = target
            /\ value' = IF expiry > 0 /\ Now >= expiry THEN <<>> ELSE readString(pos).v
            /\ Return
         \/ /\ ~(type = RDB_TYPE_STRING /\ key = target)
            /\ pos' = IF type = RDB_TYPE_STRING THEN readString(pos).p ELSE pos
            /\ pc' = "entry"
            /\ UNCHANGED <<op, value>>
  BY Zenon DEF getRdbValue
<1>2. /\ FileOK /\ Plain(content) /\ file \in Seq(Nat) /\ pos \in Nat /\ Reading
      /\ Count \in Nat /\ keys = <<>>
  BY <1>1, EntriesRange DEF PlainState, PlainOK, ShapeOK
<1>3. PICK j \in 1 .. (Count + 1) : At(j) /\ target \notin KeysBefore(j)
  BY <1>1, <1>2 DEF Reading
<1>4. Begun(j) /\ BeforeValue(pos, j) /\ key = Nth(j).key
  BY <1>1, <1>3 DEF At
<1>5. j \in 1 .. Count /\ j + 1 \in 1 .. (Count + 1) /\ j \in Nat \ {0}
  BY <1>2, <1>4 DEF Begun
<1>6. /\ readString(pos).v = Nth(j).value /\ Nth(j).value # <<>>
      /\ Ahead(readString(pos).p, j + 1) /\ readString(pos).p \in Nat
  BY <1>2, <1>4, <1>5, PlainValue
<1>7. CASE key = target
  <2>1. /\ value' = IF expiry > 0 /\ Now >= expiry THEN <<>> ELSE Nth(j).value
        /\ op' = "KEYS" /\ pc' = "open" /\ pos' = 0
    BY <1>1, <1>4, <1>6, <1>7 DEF Begun, Return
  <2>2. Live(Nth(j)) <=> ~(expiry > 0 /\ Now >= expiry)
    <3>1. /\ expiry = IF Nth(j).unit = "ms" THEN Nth(j).at ELSE 0
          /\ Nth(j).at \in Nat /\ Now \in Nat
          /\ Nth(j).unit = "none" \/ (Nth(j).unit = "ms" /\ Nth(j).at > 0)
      BY <1>2, <1>4, <1>5, PlainEntry, EntryType, TimeAssumption DEF Begun
    <3>2. CASE Nth(j).unit = "none"
      BY <3>1, <3>2 DEF Live
    <3>3. CASE Nth(j).unit = "ms" /\ Nth(j).at > 0
      BY <3>1, <3>3 DEF Live
    <3> QED
      BY <3>1, <3>2, <3>3
  <2>3. {value'} \ {<<>>} = IF Live(Nth(j)) THEN {Nth(j).value} ELSE {}
    BY <1>6, <2>1, <2>2
  <2>4. {value'} \ {<<>>}
          = {e.value : e \in {f \in Range(content.entries) : f.key = target /\ Live(f)}}
    BY <1>2, <1>4, <1>5, <1>7, <2>3, PlainAnswer, ZenonT(60)
  <2>5. GetRight'
    BY <1>1, <2>4 DEF GetRight, Live, Range
  <2> QED
    BY <1>1, <1>2, <2>1, <2>5 DEF PlainOK
<1>8. CASE key # target
  <2>1. pos' = readString(pos).p /\ pc' = "entry" /\ op' = op /\ value' = value
    BY <1>1, <1>4, <1>8 DEF Begun
  <2>2. target \notin KeysBefore(j + 1)
    BY <1>3, <1>4, <1>5, <1>8, KeysBeforeNext
  <2>3. Reading'
    BY <1>1, <1>5, <1>6, <2>1, <2>2, ReadingNext
  <2> QED
    BY <1>1, <1>6, <2>1, <2>3, EntryStep
<1> QED
  BY <1>7, <1>8

LEMMA PlainKeys ==
    ASSUME PlainState, getRdbKeys
    PROVE  PlainOK'
<1>1. /\ op = "KEYS" /\ pc = "value" /\ pc' = "entry"
      /\ UNCHANGED <<content, file, target, op, value>>
      /\ pos' = IF type = RDB_TYPE_STRING THEN readString(pos).p ELSE pos
      /\ keys' = Append(keys, key)
  BY Zenon DEF getRdbKeys, skipRdbValue
<1>2. /\ FileOK /\ Plain(content) /\ file \in Seq(Nat) /\ pos \in Nat /\ Reading
      /\ Count \in Nat /\ keys \in Seq(Range(keys))
  BY <1>1, EntriesRange DEF PlainState, PlainOK, ShapeOK
<1>3. PICK j \in 1 .. (Count + 1) : At(j) /\ Range(keys) = KeysBefore(j)
  BY <1>1, <1>2 DEF Reading
<1>4. Begun(j) /\ BeforeValue(pos, j) /\ key = Nth(j).key
  BY <1>1, <1>3 DEF At
<1>5. j \in 1 .. Count /\ j + 1 \in 1 .. (Count + 1) /\ j \in Nat \ {0}
  BY <1>2, <1>4 DEF Begun
<1>6. Ahead(readString(pos).p, j + 1) /\ readString(pos).p \in Nat
  BY <1>2, <1>4, <1>5, PlainValue
<1>7. pos' = readString(pos).p
  BY <1>1, <1>4 DEF Begun
<1>8. Range(keys') = KeysBefore(j + 1)
  <2>1. Range(keys') = Range(keys) \cup {key}
    BY <1>1, <1>2, Longer
  <2> QED
    BY <1>3, <1>4, <1>5, <2>1, KeysBeforeNext
<1>9. Reading'
  BY <1>1, <1>5, <1>6, <1>7, <1>8, ReadingNext
<1> QED
  BY <1>1, <1>6, <1>7, <1>9, EntryStep

-----------------------------------------------------------------------------
(* The answers from a plain file *)

LEMMA InitPlain == Init => PInv
<1> SUFFICES ASSUME Init PROVE PInv
  OBVIOUS
<1>1. IInv
  BY InitOK
<1>2. FileOK
  BY DEF Init, FileOK
<1>3. ASSUME Plain(content) PROVE Layout /\ PlainOK
  <2>1. Layout
    BY <1>2, <1>3, PlainLayout
  <2> QED
    BY <2>1 DEF Init, PlainOK
<1> QED
  BY <1>1, <1>2, <1>3 DEF PInv

LEMMA NextPlain == PInv /\ [Next]_vars => PInv'
<1> SUFFICES ASSUME PInv, [Next]_vars PROVE PInv'
  OBVIOUS
<1>1. IInv'
  BY NextOK DEF PInv
<1>2. UNCHANGED <<content, file, target>>
  BY DEF Next, vars, validateHeader, findDatabaseSection, skipSizes, readType, readKey,
         getRdbValue, getRdbKeys
<1>3. FileOK'
  BY <1>2, SameFile DEF PInv
<1>4. ASSUME Plain(content)' PROVE Layout' /\ PlainOK'
  <2>1. Plain(content)
    BY <1>2, <1>4, SameFile
  <2>2. PlainState
    BY <2>1, PlainLayout DEF PInv, PlainState, IInv
  <2>3. Layout'
    BY <1>2, <2>2, SameFile DEF PlainState
  <2>4. CASE UNCHANGED vars
    <3>1. UNCHANGED <<op, pc, pos, type, expiry, key, value, keys>>
      BY <2>4 DEF vars, entryVars
    <3>2. PlainOK' <=> PlainOK
      BY <1>2, <3>1 DEF PlainOK, GetRight, Live, Range, KeysBefore, Nth, Count, Section,
                        Reading, At, Begun, BeforeKey, BeforeValue, Ahead, Holds, Over
    <3> QED
      BY <2>2, <2>3, <3>2 DEF PlainState
  <2>5. CASE validateHeader \/ findDatabaseSection \/ skipSizes
    BY <2>2, <2>3, <2>5, PlainHeader, PlainScan, PlainSizes, Zenon
  <2>6. CASE readType \/ readKey \/ getRdbValue \/ getRdbKeys
    BY <2>2, <2>3, <2>6, PlainType, PlainKey, PlainGet, PlainKeys, Zenon
  <2>7. Next \/ UNCHANGED vars
    OBVIOUS
  <2> QED
    BY <2>3, <2>4, <2>5, <2>6, <2>7, Zenon DEF Next
<1> QED
  BY <1>1, <1>3, <1>4 DEF PInv

\* From a plain file, of any bytes and any length, with integers of any width,
\* GET answers the value of a key that has not expired and KEYS answers all keys:
\* rdb.c reads what Redis writes as long as there is nothing in it that it does
\* not know.
THEOREM PlainFilesAreRead == Spec => []AnswersPlain
<1>1. PInv => AnswersPlain
  <2>1. SUFFICES ASSUME PInv, Answered, Plain(content)
                 PROVE  /\ Range(keys) = {e.key : e \in Range(content.entries)}
                        /\ GetRight
    BY DEF AnswersPlain, GetRight
  <2>2. GetRight /\ Range(keys) = KeysBefore(Count + 1)
    BY <2>1 DEF PInv, PlainOK, Answered
  <2>3. Range(content.entries) = {Nth(k) : k \in 1 .. Count} /\ Count \in Nat
    BY <2>1, EntriesRange DEF PInv
  <2>4. (Count + 1) - 1 = Count
    BY <2>3
  <2>5. KeysBefore(Count + 1) = {e.key : e \in Range(content.entries)}
    BY <2>3, <2>4 DEF KeysBefore
  <2> QED
    BY <2>2, <2>5
<1> QED
  BY <1>1, InitPlain, NextPlain, PTL DEF Spec

=============================================================================
