----------------------------- MODULE Persistence -----------------------------
(***************************************************************************)
(* What must survive a power failure: the firmware image of the TM4C       *)
(* (TmOta), that of the CC35x1 (CcOta) and the configuration records of    *)
(* both boards (ConfigStore).  They lie in different memories and no       *)
(* handler of one touches the memory of another: the image of the CC35x1   *)
(* is in vendor slots of its own, the records outside either image.  A     *)
(* behaviour follows one part, the part it has chosen at its start.        *)
(***************************************************************************)
EXTENDS Naturals, TLC

CONSTANTS
  Uploaders, Bytes, ChunkLen, WordLen, PageWords, StagePages, AppPages, BootPages,
  ImageCuts,                     \* power failures of TmOta
  Last, LastB, MaxFaults,        \* see CcOta
  Values, MaxOps, MaxCuts        \* see ConfigStore

\* The application slot has pages (OTA_APP_SIZE).
ASSUME SlotAssumption == AppPages \in Nat \ {0}

\* So have the images, the chunks, the words and the staging region; a browser is none of
\* the other things a header or a page may hold.
ASSUME UploadAssumption ==
  /\ \A u \in Uploaders : Bytes[u] \in Nat \ {0}
  /\ ChunkLen \in Nat \ {0} /\ WordLen \in Nat \ {0}
  /\ PageWords \in Nat \ {0} /\ StagePages \in Nat \ {0} /\ ImageCuts \in Nat
  /\ Uploaders \cap {"none", "torn", "old", "erased"} = {}

ASSUME ImageAssumption == Last \in Nat /\ LastB \in Nat /\ MaxFaults \in Nat

ASSUME RecordAssumption == MaxOps \in Nat /\ MaxCuts \in Nat

VARIABLES
  part,                                                               \* what the behaviour follows
  tmRam, stage, pending, app, mode, page, tmSent, tmCuts, cutAt,      \* of TmOta
  up, post, slot, primary, protected, main, sent, told, faults,       \* of CcOta
  board, nv, shadow, gone, ram, todo, job, kept, phase, ops, cuts     \* of ConfigStore

tmVars == <<tmRam, stage, pending, app, mode, page, tmSent, tmCuts, cutAt>>
ccVars == <<up, post, slot, primary, protected, main, sent, told, faults>>
storeVars == <<board, nv, shadow, gone, ram, todo, job, kept, phase, ops, cuts>>
vars == <<part, tmVars, ccVars, storeVars>>

Tm == INSTANCE TmOta WITH ram <- tmRam, sent <- tmSent, cuts <- tmCuts, MaxCuts <- ImageCuts
Cc == INSTANCE CcOta
Store == INSTANCE ConfigStore

Init ==
  /\ part \in {"tm4c", "cc35x1", "records"}
  /\ Tm!Init /\ Cc!Init /\ Store!Init
  /\ part = "cc35x1" \/ ~protected
  /\ part = "records" \/ (board = "tm4c" /\ kept = Store!Default)

OnTm(A) == part = "tm4c" /\ A /\ UNCHANGED <<part, ccVars, storeVars>>
OnCc(A) == part = "cc35x1" /\ A /\ UNCHANGED <<part, tmVars, storeVars>>
OnStore(A) == part = "records" /\ A /\ UNCHANGED <<part, tmVars, ccVars>>

Next == OnTm(Tm!Next) \/ OnCc(Cc!Next) \/ OnStore(Store!Next)

\* The fairness of the parts; the records need none.
Spec ==
  /\ Init /\ [][Next]_vars
  /\ WF_vars(OnTm(Tm!Reset)) /\ WF_vars(OnTm(Tm!Boot))
  /\ WF_vars(OnTm(Tm!OtaErase)) /\ WF_vars(OnTm(Tm!OtaProgram))
  /\ WF_vars(OnCc(Cc!Send)) /\ WF_vars(OnCc(Cc!PostData)) /\ WF_vars(OnCc(Cc!Answer))
  /\ WF_vars(OnCc(Cc!Retry)) /\ WF_vars(OnCc(Cc!Reboot)) /\ SF_vars(OnCc(Cc!PowerCycle))
  /\ WF_vars(OnCc(Cc!TrialAccept)) /\ WF_vars(OnCc(Cc!Calm))

-----------------------------------------------------------------------------
(* The properties of the parts.                                            *)

\* Every variable of the uploads, the slots and the records keeps its range.
TypeOK == Tm!TypeOK /\ Cc!TypeOK /\ Store!TypeOK

\* A header with its magic number vouches for the bytes staged behind it.
HeaderVouches == Tm!HeaderVouches

\* The firmware of the TM4C that serves is one image.
AppWhole == Tm!AppWhole

\* A copy that has begun ends with the staged image in place, or the board cannot boot.
Applied == Tm!Applied

\* An upload to the CC35x1 that is told that it succeeded is staged.
Verdict == Cc!Verdict

\* The browser that keeps trying gets its image to run for good.
Recovers == <>[](part = "cc35x1" => slot[primary].img = "new")

\* A boot finds every record as it was saved, or a cut save's record as one save meant it.
Durable == Store!Durable
=============================================================================
