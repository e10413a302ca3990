-------------------------------- MODULE Rdb ---------------------------------
(***************************************************************************)
(* The reader of RDB files, app/rdb.c, as two commands use it: GET of a    *)
(* key that is not in memory, then KEYS.  Each opens the file anew, and    *)
(* each goes through it byte by byte with no notion of where a string or a *)
(* section ends other than what it has just read.                          *)
(*                                                                         *)
(* Files are sequences of bytes.  The magic and the version are one byte   *)
(* each, and integers have fewer bytes than in the code, so that a value   *)
(* read at the wrong place is still a small one.  A position is the number *)
(* of bytes read.  readEncodedString is called by nobody and left out.     *)
(***************************************************************************)
EXTENDS Integers, Sequences, SequencesExt

CONSTANTS Contents,    \* what the files to read were made from
          Targets,     \* the keys to look for
          IntBytes,    \* sizeof(uint32_t)
          LongBytes,   \* sizeof(uint64_t)
          SecToMs,     \* milliseconds of a second
          Now          \* the time, in milliseconds

Byte == 0 .. 255

Entry == [key : Seq(Byte) \ {<<>>}, coded : BOOLEAN, value : Seq(Byte),
          unit : {"none", "ms", "sec"}, at : Nat]
Content == [version : Byte, aux : Seq(Byte), sizes : BOOLEAN, entries : Seq(Entry), lost : Nat]

ASSUME ContentsAssumption == Contents \subseteq Content
ASSUME TargetsAssumption == Targets \subseteq Seq(Byte) \ {<<>>}
ASSUME WidthAssumption == IntBytes \in Nat \ {0} /\ LongBytes \in Nat \ {0}
ASSUME TimeAssumption == SecToMs \in Nat /\ Now \in Nat

VARIABLES content, file, target,
          op,          \* the command: "GET", then "KEYS", then "none"
          pc,          \* where its reader is
          pos,         \* its position
          type, expiry, key,  \* what it has read of an entry
          value,       \* the answer to GET, <<>> for nil
          keys         \* the answer to KEYS

entryVars == <<type, expiry, key>>
vars == <<content, file, target, op, pc, pos, entryVars, value, keys>>

RDB_MAGIC == 82
RDB_VERSION == 11
RDB_HASHTABLE_SIZE == 251
RDB_EXPIRE_MS == 252
RDB_EXPIRE_SEC == 253
RDB_DATABASE_START == 254
RDB_EOF == 255
RDB_TYPE_STRING == 0
RDB_ENC_INT8 == 192

-----------------------------------------------------------------------------
(* The files, as Redis writes them: a database section if there are keys,   *)
(* with or without the sizes of its tables, and a checksum at the end.  An  *)
(* integer may be stored in a special encoding.  The end may be lost.       *)

\* What is left of a number without its lowest i bytes.
Quotients(n, width) ==
    LET left[i \in 0 .. width] == IF i = 0 THEN n ELSE left[i - 1] \div 256
    IN  left

LittleEndian(n, width) == [i \in 1 .. width |-> Quotients(n, width)[i - 1] % 256]

StringBytes(s) == <<Len(s)>> \o s

EntryBytes(e) ==
    (CASE e.unit = "ms" -> <<RDB_EXPIRE_MS>> \o LittleEndian(e.at, LongBytes)
       [] e.unit = "sec" -> <<RDB_EXPIRE_SEC>> \o LittleEndian(e.at, IntBytes)
       [] OTHER -> <<>>)
      \o <<RDB_TYPE_STRING>> \o StringBytes(e.key)
      \o (IF e.coded THEN <<RDB_ENC_INT8>> \o e.value ELSE StringBytes(e.value))

\* The bytes of the last i entries.
LastEntries(entries) ==
    LET last[i \in 0 .. Len(entries)] ==
            IF i = 0 THEN <<>> ELSE EntryBytes(entries[Len(entries) - i + 1]) \o last[i - 1]
    IN  last

Trailer == <<RDB_EOF, 7>>

FileBytes(c) ==
    LET section == <<RDB_DATABASE_START, 0>>
                     \o (IF c.sizes THEN <<RDB_HASHTABLE_SIZE, Len(c.entries), 0>> ELSE <<>>)
                     \o LastEntries(c.entries)[Len(c.entries)]
        whole == <<RDB_MAGIC, c.version>> \o c.aux
                   \o (IF c.entries = <<>> THEN <<>> ELSE section) \o Trailer
    IN  SubSeq(whole, 1, Len(whole) - c.lost)

Init ==
    /\ content \in Contents /\ file = FileBytes(content) /\ target \in Targets
    /\ op = "GET" /\ pc = "open" /\ pos = 0
    /\ type = 0 /\ expiry = 0 /\ key = <<>>
    /\ value = <<>> /\ keys = <<>>

-----------------------------------------------------------------------------
(* Reading: the result and the position after it.  At the end of the file   *)
(* every integer is 0, and fread has taken what was left.                   *)

readByte(p) ==
    IF p < Len(file) THEN [v |-> file[p + 1], p |-> p + 1] ELSE [v |-> 0, p |-> p]

\* The number of the last i bytes, the lowest first, and that of all.
Numbers(bytes) ==
    LET last[i \in 0 .. Len(bytes)] ==
            IF i = 0 THEN 0 ELSE bytes[Len(bytes) - i + 1] + 256 * last[i - 1]
    IN  last

Number(bytes) == Numbers(bytes)[Len(bytes)]

\* n bytes, or none of them if there are fewer.
fread(p, n) ==
    IF p + n <= Len(file) THEN [v |-> SubSeq(file, p + 1, p + n), p |-> p + n]
    ELSE [v |-> <<>>, p |-> Len(file)]

\* ntohl turns the bytes round, the host's order being the little-endian one.
readUint32(p) == [fread(p, IntBytes) EXCEPT !.v = Number(Reverse(@))]

\* Mutant: these are turned round, too.
readUint64_Swapped(p) == [fread(p, LongBytes) EXCEPT !.v = Number(Reverse(@))]

readUint64(p) == [fread(p, LongBytes) EXCEPT !.v = Number(@)]

\* A special encoding is a length of 0, and what belongs to it is not read.
readLength(p) ==
    LET byte == readByte(p)
        low == byte.v % 64
    IN  CASE byte.v \div 64 = 0 -> [byte EXCEPT !.v = low]
          [] byte.v \div 64 = 1 -> [readByte(byte.p) EXCEPT !.v = low * 256 + @]
          [] byte.v \div 64 = 2 -> readUint32(byte.p)
          [] OTHER -> [byte EXCEPT !.v = 0]

\* NULL, for a length of 0 or more bytes than there are, is <<>>.
readString(p) == LET length == readLength(p) IN fread(length.p, length.v)

\* Mutant: no value is skipped.
skipRdbValue_Nothing(p) == p

skipRdbValue(p) == readString(p).p

-----------------------------------------------------------------------------
(* The steps of a command *)

\* The command is answered; GET is followed by KEYS.
Return ==
    /\ op' = IF op = "GET" THEN "KEYS" ELSE "none"
    /\ pc' = "open" /\ pos' = 0

ValidHeader == IsPrefix(<<RDB_MAGIC, RDB_VERSION>>, file)

validateHeader ==
    /\ op # "none" /\ pc = "open"
    /\ \/ /\ ValidHeader
          /\ pc' = "scan" /\ pos' = 2
          /\ UNCHANGED op
       \/ /\ ~ValidHeader
          /\ Return
    /\ UNCHANGED <<content, file, target, entryVars, value, keys>>

\* Mutant: the end marker is passed over.
findDatabaseSection_NoEof ==
    /\ op # "none" /\ pc = "scan"
    /\ LET byte == readByte(pos)
       IN  \/ byte.v = RDB_DATABASE_START /\ pc' = "sizes" /\ pos' = readLength(byte.p).p
           \/ byte.v # RDB_DATABASE_START /\ pos' = byte.p /\ UNCHANGED pc
    /\ UNCHANGED <<content, file, target, op, entryVars, value, keys>>

\* One turn of the loop that looks for the database section, in whatever comes
\* before it.  It does not notice the end of the file.
findDatabaseSection ==
    /\ op # "none" /\ pc = "scan"
    /\ LET byte == readByte(pos)
       IN  \/ byte.v = RDB_EOF /\ Return
           \/ /\ byte.v = RDB_DATABASE_START
              /\ pc' = "sizes" /\ pos' = readLength(byte.p).p
              /\ UNCHANGED op
           \/ /\ byte.v \notin {RDB_EOF, RDB_DATABASE_START}
              /\ pos' = byte.p
              /\ UNCHANGED <<op, pc>>
    /\ UNCHANGED <<content, file, target, entryVars, value, keys>>

\* The sizes of the tables; the byte is read whatever it is.
skipSizes ==
    /\ pc = "sizes"
    /\ LET byte == readByte(pos)
       IN  pos' = IF byte.v = RDB_HASHTABLE_SIZE
                  THEN readLength(readLength(byte.p).p).p ELSE byte.p
    /\ pc' = "entry"
    /\ UNCHANGED <<content, file, target, op, entryVars, value, keys>>

\* An expiry of unit seconds becomes milliseconds in 32 bits.
Expiry(unit, p) ==
    IF unit = RDB_EXPIRE_MS THEN readUint64(p)
    ELSE [readUint32(p) EXCEPT !.v = (@ * SecToMs) % 256 ^ IntBytes]

\* Both loops begin with the type, after an expiry if there is one, ...
readType ==
    /\ pc = "entry"
    /\ LET byte == readByte(pos)
       IN  \/ byte.v = RDB_EOF /\ Return /\ UNCHANGED <<type, expiry>>
           \/ /\ byte.v \in {RDB_EXPIRE_MS, RDB_EXPIRE_SEC}
              /\ expiry' = Expiry(byte.v, byte.p).v
              /\ type' = readByte(Expiry(byte.v, byte.p).p).v
              /\ pos' = readByte(Expiry(byte.v, byte.p).p).p
              /\ pc' = "key" /\ UNCHANGED op
           \/ /\ byte.v \notin {RDB_EOF, RDB_EXPIRE_MS, RDB_EXPIRE_SEC}
              /\ expiry' = 0 /\ type' = byte.v /\ pos' = byte.p
              /\ pc' = "key" /\ UNCHANGED op
    /\ UNCHANGED <<content, file, target, key, value, keys>>

\* ... and the key; they are over if it cannot be read.
readKey ==
    /\ pc = "key"
    /\ LET s == readString(pos)
       IN  \/ s.v = <<>> /\ Return /\ UNCHANGED key
           \/ s.v # <<>> /\ key' = s.v /\ pos' = s.p /\ pc' = "value" /\ UNCHANGED op
    /\ UNCHANGED <<content, file, target, type, expiry, value, keys>>

\* The rest of a turn of getRdbValue's loop.
getRdbValue ==
    /\ op = "GET" /\ pc = "value"
    /\ \/ /\ type = RDB_TYPE_STRING /\ key = target
          /\ value' = IF expiry > 0 /\ Now >= expiry THEN <<>> ELSE readString(pos).v
          /\ Return
       \/ /\ ~(type = RDB_TYPE_STRING /\ key = target)
          /\ pos' = IF type = RDB_TYPE_STRING THEN readString(pos).p ELSE pos
          /\ pc' = "entry"
          /\ UNCHANGED <<op, value>>
    /\ UNCHANGED <<content, file, target, entryVars, keys>>

\* The rest of a turn of getRdbKeys's loop.
getRdbKeys ==
    /\ op = "KEYS" /\ pc = "value"
    /\ pos' = IF type = RDB_TYPE_STRING THEN skipRdbValue(pos) ELSE pos
    /\ keys' = Append(keys, key)
    /\ pc' = "entry"
    /\ UNCHANGED <<content, file, target, op, entryVars, value>>

Next ==
    \/ validateHeader \/ findDatabaseSection \/ skipSizes
    \/ readType \/ readKey \/ getRdbValue \/ getRdbKeys

Spec == Init /\ [][Next]_vars

\* The worker that reads runs on.
FairSpec == Spec /\ WF_vars(Next)

-----------------------------------------------------------------------------
(* Properties *)

Answered == op = "none"

\* A file that has nothing the reader does not know: sizes in the database
\* section, plain strings, neither empty nor too long for a length of one byte,
\* a key once, expiries in milliseconds that fit their bytes, no marker among
\* the auxiliary fields, and at most the trailer lost.
Plain(c) ==
    /\ c.version = RDB_VERSION /\ c.sizes /\ c.lost <= Len(Trailer)
    /\ Range(c.aux) \cap {RDB_DATABASE_START, RDB_EOF} = {}
    /\ Len(c.entries) < 64
    /\ \A i, j \in DOMAIN c.entries : c.entries[i].key = c.entries[j].key => i = j
    /\ \A i \in DOMAIN c.entries :
          LET e == c.entries[i]
          IN  /\ ~e.coded /\ Len(e.key) < 64 /\ Len(e.value) \in 1 .. 63
              /\ \/ e.unit = "none"
                 \/ e.unit = "ms" /\ e.at > 0 /\ Quotients(e.at, LongBytes)[LongBytes] = 0

Live(e) == e.unit = "ms" => Now < e.at

\* From a plain file, GET and KEYS answer what the file holds: GET the value of
\* a key that has not expired, KEYS all keys.
AnswersPlain ==
    Answered /\ Plain(content) =>
        /\ Range(keys) = {e.key : e \in Range(content.entries)}
        /\ {value} \ {<<>>} = {e.value : e \in {f \in Range(content.entries) :
                                                f.key = target /\ Live(f)}}

\* Whatever the file, a key that GET finds is one that KEYS lists: the two
\* loops never come to read it from different places.
GetImpliesKeys == Answered /\ value # <<>> => target \in Range(keys)

\* The reader comes to an end of every file that has a section or an end marker
\* anywhere after its header, cut off or misread as it may be.  (It reads one
\* without for ever.)
CommandsReturn ==
    (\/ ~ValidHeader
     \/ \E i \in 3 .. Len(file) : file[i] \in {RDB_DATABASE_START, RDB_EOF}) ~> Answered

=============================================================================
