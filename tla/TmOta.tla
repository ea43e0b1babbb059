------------------------------- MODULE TmOta -------------------------------
(***************************************************************************)
(* Firmware update of the TM4C1294: the chunk handler that stages an image *)
(* in flash (enet_io.c), and the boot that copies it over the running one  *)
(* (ota.c), with power lost at any flash operation of either.              *)
(*                                                                         *)
(* Several browsers upload at once.  Each sends its chunks in order and    *)
(* sends one again until it is answered; an earlier request may still      *)
(* arrive late.  A byte of an image is its name and its place, a flash     *)
(* word a sequence of bytes; equal checksums mean equal contents.          *)
(***************************************************************************)
EXTENDS Integers, Sequences

CONSTANTS
  Uploaders,  \* browsers, each with an image of its own
  Bytes,      \* length of each image
  ChunkLen,   \* bytes of a chunk
  WordLen,    \* bytes of a flash word
  PageWords,  \* words of a flash page
  StagePages, \* pages of the staging region (OTA_IMAGE_MAX_SIZE)
  AppPages,   \* pages of the application slot
  BootPages,  \* pages that hold the code up to OtaCheckAndApply
  MaxCuts     \* power failures

VARIABLES
  ram,     \* the upload: g_ui32OTAWriteAddr, g_ui32OTASize, the alignment buffer, ...
  stage,   \* the header page and the staging region
  pending, \* the flag in EEPROM
  app,     \* pages of the application slot
  mode,    \* "up" serving, "boot", "erase" and "program" in OtaApply, "dead"
  page,    \* the page OtaApply has come to
  sent,    \* the chunk each browser sends
  cuts,    \* power failures left
  cutAt    \* the page whose erasure or programming the last one interrupted

vars == <<ram, stage, pending, app, mode, page, sent, cuts, cutAt>>

Stage == 0 .. StagePages * PageWords - 1
App == 0 .. AppPages - 1
LastChunk(u) == (Bytes[u] - 1) \div ChunkLen

\* Bytes i + 1 .. j of an image.
Part(u, i, j) == [k \in 1 .. j - i |-> <<u, i + k>>]
Chunk(u, s) == Part(u, s * ChunkLen, IF s = LastChunk(u) THEN Bytes[u] ELSE (s + 1) * ChunkLen)

Erased == <<>>
Dirty == <<<<"dirty", 0>>>>
Pad == <<"ff", 0>>
Programmed(old, w) == IF old = Erased THEN w ELSE Dirty

NoHeader == "none"
Fresh == [addr |-> 0, size |-> 0, buf |-> <<>>, erased |-> 0, abort |-> FALSE, next |-> 0]

\* The first n bytes of the staging region.
Staged(st, n) == [k \in 1 .. n |->
  LET w == st[(k - 1) \div WordLen] i == ((k - 1) % WordLen) + 1
  IN IF i <= Len(w) THEN w[i] ELSE Pad]

TypeOK ==
  /\ ram.addr \in Nat /\ ram.size \in Nat /\ ram.next \in Nat /\ Len(ram.buf) < WordLen
  /\ ram.erased \in 0 .. StagePages - 1 /\ ram.abort \in BOOLEAN
  /\ \A i \in Stage : Len(stage.words[i]) <= WordLen
  /\ pending \in BOOLEAN
  /\ app \in [App -> Uploaders \cup {"old", "erased", "torn"}]
  /\ mode \in {"up", "reset", "boot", "erase", "program", "dead"}
  /\ page \in App
  /\ cuts \in 0 .. MaxCuts

Init ==
  /\ ram = Fresh
  /\ stage = [header |-> NoHeader, words |-> [i \in Stage |-> Erased]]
  /\ pending = FALSE
  /\ app = [p \in App |-> "old"]
  /\ mode = "up" /\ page = 0
  /\ sent = [u \in Uploaders |-> 0]
  /\ cuts = MaxCuts /\ cutAt = -1

-----------------------------------------------------------------------------
(* The chunk handler.                                                      *)

\* FlashErase of page p of the staging region.
EraseStage(words, p) ==
  [i \in Stage |-> IF i \div PageWords = p THEN Erased ELSE words[i]]

\* seq = 0: a new upload, the header and the first page erased.
Begun(seq) == IF seq = 0 THEN Fresh ELSE ram
BugBegunStageKeepsHeader(seq) ==
  IF seq = 0 THEN [stage EXCEPT !.words = EraseStage(stage.words, 0)] ELSE stage
BegunStage(seq) ==
  IF seq = 0 THEN [header |-> NoHeader, words |-> EraseStage(stage.words, 0)] ELSE stage

\* Whole words of the decoded bytes bs go to flash, a page erased when first
\* entered; the rest stays in the alignment buffer.
Pages(r, n) == {p \in 0 .. StagePages - 1 :
                  p > r.erased /\ \E i \in r.addr .. r.addr + n - 1 : i \div PageWords = p}
WordsOf(bs) == Len(bs) \div WordLen
Word(bs, i) == SubSeq(bs, i * WordLen + 1, (i + 1) * WordLen)

Room(r) == IF r.addr < StagePages * PageWords THEN StagePages * PageWords - r.addr ELSE 0
Fits(r, n) == IF n > Room(r) THEN Room(r) ELSE n

Decoded(r, b) ==
  LET bs == r.buf \o b
      n  == Fits(r, WordsOf(bs))
      over == n < WordsOf(bs)
      new == Pages(r, n)
  IN [r EXCEPT !.addr = r.addr + n, !.size = r.size + Len(b), !.abort = over,
               !.buf = IF over THEN <<>> ELSE SubSeq(bs, WordsOf(bs) * WordLen + 1, Len(bs)),
               !.erased = IF new = {} THEN r.erased ELSE CHOOSE p \in new : \A q \in new : q <= p,
               !.next = IF over THEN r.next ELSE r.next + 1]

DecodedWords(r, words, b) ==
  LET bs == r.buf \o b
      n  == Fits(r, WordsOf(bs))
      clean == [i \in Stage |-> IF i \div PageWords \in Pages(r, n) THEN Erased ELSE words[i]]
  IN [i \in Stage |-> IF i \in r.addr .. r.addr + n - 1
                      THEN Programmed(clean[i], Word(bs, i - r.addr)) ELSE clean[i]]

\* last = 1: the rest of the buffer is padded to a word.  Nothing checks that it
\* fits the region or erases the page it may be the first of.
Padded(r) == [k \in 1 .. WordLen |-> IF k <= Len(r.buf) THEN r.buf[k] ELSE Pad]
Flushed(r) == IF r.buf = <<>> THEN r ELSE [r EXCEPT !.addr = r.addr + 1, !.buf = <<>>]
FlushedWords(r, words) ==
  [i \in Stage |-> IF r.buf # <<>> /\ i = r.addr THEN Programmed(words[i], Padded(r)) ELSE words[i]]

\* The image is the one its sender declares.
Verified(u, r, words) ==
  /\ r.size = Bytes[u]
  /\ Staged(words, r.size) = Part(u, 0, Bytes[u])

\* Chunk s of browser u: whether it is the one expected, what the upload and the
\* flash are after its bytes, and whether it completes an image that verifies.
Applies(s) == ~Begun(s).abort /\ s = Begun(s).next
After(u, s) == Decoded(Begun(s), Chunk(u, s))
AfterWords(u, s) == DecodedWords(Begun(s), BegunStage(s).words, Chunk(u, s))
Final(u, s) == Applies(s) /\ s = LastChunk(u) /\ ~After(u, s).abort
FinalWords(u, s) == FlushedWords(After(u, s), AfterWords(u, s))
Completes(u, s) == Final(u, s) /\ Verified(u, Flushed(After(u, s)), FinalWords(u, s))
Committed(u, s) == [header |-> u, words |-> FinalWords(u, s)]

Handle(u, s) ==
  \/ /\ Applies(s) /\ ~Final(u, s)
     /\ ram' = After(u, s)
     /\ stage' = [BegunStage(s) EXCEPT !.words = AfterWords(u, s)]
     /\ UNCHANGED <<pending, mode>>
  \/ /\ Final(u, s) /\ ~Completes(u, s)                   \* rejected
     /\ ram' = Flushed(After(u, s))
     /\ stage' = [BegunStage(s) EXCEPT !.words = FinalWords(u, s)]
     /\ UNCHANGED <<pending, mode>>
  \/ /\ Completes(u, s)
     /\ ram' = Flushed(After(u, s))
     /\ stage' = Committed(u, s)
     /\ pending' = TRUE /\ mode' = "reset"
  \/ /\ ~ram.abort /\ s > ram.next                       \* a chunk was missed
     /\ ram' = [ram EXCEPT !.abort = TRUE]
     /\ UNCHANGED <<stage, pending, mode>>
  \/ /\ s # 0 /\ (ram.abort \/ s < ram.next)             \* ignored, or a duplicate
     /\ UNCHANGED <<ram, stage, pending, mode>>

Serving == mode \in {"up", "reset"}

\* Any chunk sent so far arrives; when the answer to the latest does, the browser
\* goes on.
Request(u, s) ==
  /\ Serving /\ s \in 0 .. sent[u]
  /\ Handle(u, s)
  /\ \/ UNCHANGED sent
     \/ s = sent[u] /\ s < LastChunk(u) /\ sent' = [sent EXCEPT ![u] = s + 1]
  /\ UNCHANGED <<app, page, cuts, cutAt>>

\* The user starts over.
Again(u) ==
  /\ sent[u] > 0 /\ sent' = [sent EXCEPT ![u] = 0]
  /\ UNCHANGED <<ram, stage, pending, app, mode, page, cuts, cutAt>>

-----------------------------------------------------------------------------
(* Boot and OtaApply.                                                      *)

\* The main loop takes the reset request.
Reset ==
  /\ mode = "reset" /\ mode' = "boot" /\ ram' = Fresh
  /\ UNCHANGED <<stage, pending, app, page, sent, cuts, cutAt>>

Holds(pages, img) == \A p \in pages : app[p] = img
Boots == \E img \in Uploaders \cup {"old"} : Holds(BootPages, img)

StagedOk ==
  /\ stage.header \in Uploaders
  /\ Staged(stage.words, Bytes[stage.header]) = Part(stage.header, 0, Bytes[stage.header])

BugAppMatchesNever == FALSE
AppMatches == Holds(App, stage.header)

BugBootClearsFlag ==
  /\ mode = "boot"
  /\ \/ ~Boots /\ mode' = "dead" /\ UNCHANGED page
     \/ Boots /\ ~(pending /\ StagedOk /\ ~AppMatches) /\ mode' = "up" /\ UNCHANGED page
     \/ Boots /\ pending /\ StagedOk /\ ~AppMatches /\ mode' = "erase" /\ page' = 0
  /\ pending' = FALSE
  /\ UNCHANGED <<ram, stage, app, sent, cuts, cutAt>>

\* OtaCheckAndApply; the flag stays set while the image is copied.
Boot ==
  /\ mode = "boot"
  /\ \/ ~Boots /\ mode' = "dead" /\ UNCHANGED <<pending, page>>
     \/ Boots /\ ~pending /\ mode' = "up" /\ UNCHANGED <<pending, page>>
     \/ /\ Boots /\ pending /\ (~StagedOk \/ AppMatches)
        /\ pending' = FALSE /\ mode' = "up" /\ UNCHANGED page
     \/ /\ Boots /\ pending /\ StagedOk /\ ~AppMatches
        /\ mode' = "erase" /\ page' = 0 /\ UNCHANGED pending
  /\ UNCHANGED <<ram, stage, app, sent, cuts, cutAt>>

BugTurnPastTheEnd(m) ==
  IF page < AppPages THEN page' = page + 1 /\ mode' = mode ELSE page' = 0 /\ mode' = m

\* The next page, or the next phase.
Turn(m) == IF page + 1 < AppPages THEN page' = page + 1 /\ mode' = mode ELSE page' = 0 /\ mode' = m

OtaErase ==
  /\ mode = "erase" /\ app' = [app EXCEPT ![page] = "erased"] /\ Turn("program")
  /\ UNCHANGED <<ram, stage, pending, sent, cuts, cutAt>>

OtaProgram ==
  /\ mode = "program" /\ app' = [app EXCEPT ![page] = stage.header] /\ Turn("boot")
  /\ UNCHANGED <<ram, stage, pending, sent, cuts, cutAt>>

-----------------------------------------------------------------------------
(* Power failures, at any flash operation.                                 *)

Cut == cuts > 0 /\ cuts' = cuts - 1 /\ mode' = "boot" /\ ram' = Fresh

CutIdle ==
  /\ Serving /\ Cut /\ cutAt' = -1
  /\ UNCHANGED <<stage, pending, app, page, sent>>

\* In the handler: the header goes first and comes last, the flag comes after it.
CutRequest(u, s) ==
  /\ Serving /\ s \in 0 .. sent[u] /\ Cut /\ cutAt' = -1
  /\ \/ s = 0 /\ stage' = [stage EXCEPT !.header = "torn"]
     \/ /\ Applies(s)
        /\ stage' = [BegunStage(s) EXCEPT !.words = [i \in Stage |->
             IF AfterWords(u, s)[i] = BegunStage(s).words[i] THEN AfterWords(u, s)[i] ELSE Dirty]]
     \/ Completes(u, s) /\ stage' = Committed(u, s)
  /\ UNCHANGED <<pending, app, page, sent>>

\* In OtaApply: the page at hand is left neither erased nor programmed.
CutApply ==
  /\ mode \in {"erase", "program"} /\ Cut /\ cutAt' = page
  /\ app' = [app EXCEPT ![page] = "torn"]
  /\ UNCHANGED <<stage, pending, page, sent>>

Next ==
  \/ Reset \/ Boot \/ OtaErase \/ OtaProgram \/ CutIdle \/ CutApply
  \/ \E u \in Uploaders : Again(u) \/ \E s \in 0 .. LastChunk(u) : Request(u, s) \/ CutRequest(u, s)

Spec == Init /\ [][Next]_vars

\* A processor that has power runs.
FairSpec == Spec /\ WF_vars(Reset) /\ WF_vars(Boot) /\ WF_vars(OtaErase) /\ WF_vars(OtaProgram)

-----------------------------------------------------------------------------
(* Properties.                                                             *)

\* A header with its magic number vouches for the staged bytes, whatever chunks of
\* whichever browser arrived since, twice or too late.
HeaderVouches == stage.header \in Uploaders => StagedOk

\* The firmware that serves is one image from the first page to the last: a board
\* that boots half-programmed never goes on without repeating the copy.
AppWhole == Serving => \E img \in Uploaders \cup {"old"} : Holds(App, img)

\* A copy that has begun ends with the staged image in place, over any number of
\* power failures, unless the board can no longer boot.
Applied ==
  \A u \in Uploaders : (mode = "erase" /\ stage.header = u) ~>
    (mode = "dead" \/ (Serving /\ Holds(App, u)))

\* The comment of OtaCheckAndApply: only a power failure while page 0 itself is
\* erased or programmed prevents the next boot (ota.c:127-129).
DiesOnPageZero == mode = "dead" => cutAt = 0
=============================================================================
