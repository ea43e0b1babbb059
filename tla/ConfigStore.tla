---------------------------- MODULE ConfigStore ----------------------------
(***************************************************************************)
(* The configuration records (iot_foundation/config.c, product_config_     *)
(* store.c) on the two stores of pal_storage.c, with power cuts: the       *)
(* EEPROM of the TM4C, written word by word, and the NV items of the       *)
(* CC35x1, each deleted and written again from a shadow in RAM.            *)
(*                                                                         *)
(* One word stands for a field.  The broker record is saved whole, a name  *)
(* in place, the output record may still have the layout of an older       *)
(* firmware ("v1", without shutter names).  A CRC that matches by accident *)
(* is left out: the CRC of some fields is a word that says which.          *)
(***************************************************************************)
EXTENDS Integers, Sequences

CONSTANTS
  Values,  \* what a field can be set to, besides its default
  MaxOps,  \* saves and resets
  MaxCuts  \* power cuts

VARIABLES
  board,  \* "tm4c" or "cc35x1"
  nv,     \* the words that survive power loss
  shadow, \* g_pui8Shadow, of the CC35x1
  gone,   \* a chunk has been deleted and not yet written again
  ram,    \* the live copies of the records
  todo,   \* the writes that are still to be made, the one under way first
  job,    \* what those writes are for: the records written, those at risk, what all are to
          \* hold then, and what was ever meant to be held
  kept,   \* what a power cycle should bring back of each record
  phase,  \* "off", "run" or "bare": started without its store
  ops, cuts

vars == <<board, nv, shadow, gone, ram, todo, job, kept, phase, ops, cuts>>

Records == {"mqtt", "names", "out"}
Addr == 0 .. 11
Base == [mqtt |-> 0, names |-> 3, out |-> 7]
Size == [mqtt |-> 1, names |-> 2, out |-> 3]     \* fields, between magic and CRC
CrcAt(r) == Base[r] + Size[r] + 1
Region(r) == Base[r] .. CrcAt(r)
Chunks == {0 .. 4, 5 .. 11}                      \* the names lie in both

\* A field or a magic word, and ConfigCRC32 of some fields.
Word(v) == [is |-> v, of |-> {}]
Crc(f) == [is |-> 0, of |-> {f}]

Zero == Word(0)
Magic == Word(9)
NoPair == 3    \* SHUTTER_NONE
SamePair == 0  \* a slot whose up and down relay are the same
Default == [mqtt |-> <<Zero>>, names |-> <<Zero, Zero>>, out |-> <<Zero, Word(NoPair), Zero>>]

\* What the fields of a record may be.
Setting == {Word(v) : v \in Values \cup {0}}
Contents ==
  [mqtt |-> {<<v>> : v \in Setting},
   names |-> {<<v, w>> : v, w \in Setting},
   out |-> {<<m, p, Zero>> : m \in {Zero, Word(1)},
                             p \in {Word(v) : v \in Values \cup {SamePair, NoPair}}}]

\* A store of words whose CRCs are of fields their record may have.
Sealed(mem) ==
  /\ DOMAIN mem = Addr
  /\ \A r \in Records : mem[CrcAt(r)].of \subseteq Contents[r]

TypeOK ==
  /\ board \in {"tm4c", "cc35x1"} /\ gone \in BOOLEAN
  /\ Sealed(nv) /\ Sealed(shadow)
  /\ DOMAIN ram = Records /\ DOMAIN kept = Records
  /\ \A r \in Records : ram[r] \in Contents[r] /\ kept[r] \in Contents[r]
  /\ job.recs \subseteq Records /\ job.risk \subseteq Records
  /\ phase \in {"off", "run", "bare"}
  /\ ops \in 0 .. MaxOps /\ cuts \in 0 .. MaxCuts

-----------------------------------------------------------------------------
(* pal_storage.c.  A write is a function from addresses to words.          *)

One(a, v) == [x \in {a} |-> v]
Over(w, mem) == [a \in Addr |-> IF a \in DOMAIN w THEN w[a] ELSE mem[a]]

\* What a write may leave undefined when it is cut: on the CC35x1 the chunks it touches.
Reach(w) ==
  IF board = "tm4c" THEN DOMAIN w ELSE UNION {c \in Chunks : c \cap DOMAIN w # {}}

\* The writes that are left when that under way has come past the addresses A.
Past(A) ==
  IF DOMAIN Head(todo) \subseteq A THEN Tail(todo)
  ELSE <<[a \in DOMAIN Head(todo) \ A |-> Head(todo)[a]]>> \o Tail(todo)

\* The last step makes the job durable.
Advance(A) ==
  /\ todo' = Past(A)
  /\ kept' = IF Past(A) = <<>> THEN job.new ELSE kept
  /\ UNCHANGED <<board, ram, job, phase, ops, cuts>>

Writing(b) == phase = "run" /\ todo # <<>> /\ board = b

\* The TM4C programs word after word.
ProgramWord ==
  /\ Writing("tm4c")
  /\ \E a \in DOMAIN Head(todo) :
       /\ \A b \in DOMAIN Head(todo) : a <= b
       /\ nv' = [nv EXCEPT ![a] = Head(todo)[a]]
       /\ Advance({a})
  /\ UNCHANGED <<shadow, gone>>

\* The CC35x1 puts a write into its shadow, and deletes every chunk that is touched and
\* writes it again from there.
First(c) ==
  /\ c \cap DOMAIN Head(todo) # {}
  /\ \A a \in c, b \in DOMAIN Head(todo) \ c : a < b

DeleteChunk ==
  /\ Writing("cc35x1") /\ ~gone /\ gone' = TRUE
  /\ shadow' = Over(Head(todo), shadow)
  /\ \E c \in Chunks : First(c) /\ nv' = [a \in Addr |-> IF a \in c THEN Zero ELSE nv[a]]
  /\ UNCHANGED <<board, ram, todo, job, kept, phase, ops, cuts>>

WriteChunk ==
  /\ Writing("cc35x1") /\ gone /\ gone' = FALSE
  /\ \E c \in Chunks :
       First(c) /\ nv' = [a \in Addr |-> IF a \in c THEN shadow[a] ELSE nv[a]] /\ Advance(c)
  /\ UNCHANGED shadow

-----------------------------------------------------------------------------
(* The records.                                                            *)

Whole(r, f) ==
  [a \in Region(r) |->
     IF a = Base[r] THEN Magic ELSE IF a = CrcAt(r) THEN Crc(f) ELSE f[a - Base[r]]]

Fields(mem, r) == [i \in 1 .. Size[r] |-> mem[Base[r] + i]]
Valid(mem, r) == mem[Base[r]] = Magic /\ mem[CrcAt(r)] = Crc(Fields(mem, r))

\* ConfigOutputMigrateV1: the older layout has its CRC where the names are now.
V1(mem) == <<mem[Base.out + 1], mem[Base.out + 2]>>
ValidV1(mem) == mem[Base.out] = Magic /\ mem[Base.out + 3] = Crc(V1(mem))
Migrated(f) == <<f[1], f[2], Zero>>

\* What ConfigInit and product_config_load find.
Found(mem) ==
  [r \in Records |->
     IF Valid(mem, r) THEN Fields(mem, r)
     ELSE IF r = "out" /\ ValidV1(mem) THEN Migrated(V1(mem)) ELSE Default[r]]
Loaded == Found(nv)

\* The records that may lose their content when the writes are cut.
AtRisk(ws) == {r \in Records : \E i \in DOMAIN ws : Reach(ws[i]) \cap Region(r) # {}}

\* A save runs to its end, or is cut, before anything else happens.
Start(recs, ws, new) ==
  /\ todo' = ws
  /\ job' = [recs |-> recs, risk |-> AtRisk(ws), new |-> new,
              ever |-> [r \in Records |-> job.ever[r] \cup {new[r]}]]

\* Bug: blank names are not written back.
BugHealedNotNames == {r \in {"out"} : ~Valid(nv, r)}

\* The records that are written back at once when they are not valid, the names first.
Healed == {r \in {"names", "out"} : ~Valid(nv, r)}
Heal(r) == IF r \in Healed THEN <<Whole(r, Loaded[r])>> ELSE <<>>

Boot ==
  /\ phase = "off" /\ phase' = "run"
  /\ ram' = Loaded /\ kept' = Loaded
  /\ shadow' = IF board = "cc35x1" THEN nv ELSE shadow
  /\ gone' = FALSE
  /\ Start(Healed, Heal("names") \o Heal("out"), Loaded)
  /\ UNCHANGED <<board, nv, ops, cuts>>

\* The store does not come up: ConfigInit returns early, with the product records as
\* they are in zeroed memory.
BootBare ==
  /\ phase = "off" /\ phase' = "bare"
  /\ ram' = [mqtt |-> Default.mqtt, names |-> <<Zero, Zero>>, out |-> <<Zero, Word(SamePair), Zero>>]
  /\ UNCHANGED <<board, nv, shadow, gone, todo, job, kept, ops, cuts>>

Ready == phase = "run" /\ todo = <<>> /\ ops > 0
Called == ops' = ops - 1 /\ UNCHANGED <<board, nv, shadow, gone, kept, phase, cuts>>

\* ConfigSave, ConfigOutputSave after its setters, and the like.
Save(r, f) ==
  /\ ram' = [ram EXCEPT ![r] = f]
  /\ Start({r}, <<Whole(r, f)>>, [kept EXCEPT ![r] = f])
  /\ Called

ConfigSave == Ready /\ \E v \in Values : Save("mqtt", <<Word(v)>>)

\* ConfigSetOutMode and ConfigShutterSet replace what they do not accept.
Mode(m) == IF m > 1 THEN 0 ELSE m
Pair(p) == IF p = SamePair THEN NoPair ELSE p

ConfigOutputSave ==
  Ready /\ \E m \in {1, 2}, p \in Values \cup {SamePair} :
             Save("out", <<Word(Mode(m)), Word(Pair(p)), ram.out[3]>>)

\* ConfigNameSet: the magic, the name and the CRC, the CRC last.
ConfigNameSet ==
  Ready /\ \E i \in 1 .. 2, v \in Values :
    LET f == [ram.names EXCEPT ![i] = Word(v)]
    IN /\ ram' = [ram EXCEPT !.names = f]
       /\ Start({"names"}, <<One(Base.names, Magic), One(Base.names + i, Word(v)),
                             One(CrcAt("names"), Crc(f))>>, [kept EXCEPT !.names = f])
       /\ Called

\* ConfigFactoryReset zeroes the magic words; the copies in RAM stay as they are.
FactoryReset ==
  /\ Ready
  /\ Start(Records, <<One(Base.mqtt, Zero), One(Base.names, Zero), One(Base.out, Zero)>>, Default)
  /\ Called /\ UNCHANGED ram

\* The power goes off, in the middle of a save or not; or the board resets.
Cut ==
  /\ phase # "off" /\ phase' = "off" /\ cuts > 0 /\ cuts' = cuts - 1
  /\ UNCHANGED <<board, nv, shadow, gone, ram, todo, job, kept, ops>>

\* A store that was never written (the TM4C's reads as ones), one of an older firmware,
\* or one whose fields are stale.
Older(p) == \* the store of an older firmware with the pair p
  Over(Whole("mqtt", Default.mqtt), Over(Whole("names", Default.names),
    [a \in Addr |-> CASE a = Base.out -> Magic
                      [] a = Base.out + 1 -> Word(1)
                      [] a = Base.out + 2 -> Word(p)
                      [] a = Base.out + 3 -> Crc(<<Word(1), Word(p)>>)
                      [] OTHER -> Zero]))

Init ==
  /\ board \in {"tm4c", "cc35x1"}
  /\ \/ nv = [a \in Addr |-> IF board = "tm4c" THEN Word(3) ELSE Zero] /\ kept = Default
     \/ \E p \in Values : nv = Older(p) /\ kept = [Default EXCEPT !.out = <<Word(1), Word(p), Zero>>]
  /\ shadow = [a \in Addr |-> Zero] /\ gone = FALSE
  /\ ram = Default /\ todo = <<>> /\ job = [recs |-> {}, risk |-> {}, new |-> Default,
                                        ever |-> [r \in Records |-> {Default[r], kept[r]}]]
  /\ phase = "off" /\ ops = MaxOps /\ cuts = MaxCuts

Next ==
  \/ Boot \/ BootBare \/ ConfigSave \/ ConfigOutputSave \/ ConfigNameSet \/ FactoryReset
  \/ ProgramWord \/ DeleteChunk \/ WriteChunk \/ Cut

Spec == Init /\ [][Next]_vars

-----------------------------------------------------------------------------
(* Properties.                                                             *)

Boots == phase = "off" /\ phase' = "run"
Unfinished == todo # <<>>

\* A boot finds every record as it was last saved or, when a save of it or of a record
\* that shares its chunk was cut, at its defaults or as one save or other meant it to be:
\* never a mixture.
Durable ==
  [][Boots => \A r \in Records :
       \/ ram'[r] = kept[r]
       \/ Unfinished /\ r \in job.risk /\ ram'[r] \in job.ever[r]]_vars

\* config.c:345-347: what a factory reset has erased is at its defaults from then on.
\* A save that is cut after it does not bring back what was there before.
Erases ==
  [][Boots => \A r \in Records : ram'[r] \in {kept[r], job.new[r], Default[r]}]_vars

\* pal_storage.c:30-32: a chunk that carries other records "is rewritten with those
\* bytes intact".  A save that is cut loses no record but its own.
Neighbours ==
  [][Boots => \A r \in Records : ram'[r] = kept[r] \/ (Unfinished /\ r \in job.recs)]_vars

\* product_config_store.c:162-164: an older output record is upgraded "so modes +
\* shutters survive a firmware update".
Survives ==
  [][Boots /\ ops = MaxOps =>
       \A f \in job.ever["out"] : f # Default["out"] => ram'.out = f]_vars

\* config.c:154: without its store the board uses the "default config", and no slot of
\* the shutter table has one relay for both directions.
Sane == ram.out[2] # Word(SamePair)
=============================================================================
