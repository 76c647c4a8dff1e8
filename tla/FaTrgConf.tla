------------------------------ MODULE FaTrgConf ------------------------------
(***************************************************************************)
(* The configuration of an acquisition: how many shots of how many         *)
(* samples, on which sources.  ZIO caches what users write; the driver     *)
(* copies it, converted, into the core's registers; arming the trigger     *)
(* lays out the device memory from the cache, and the core fills that      *)
(* memory from its registers.  Users may also give the channels another    *)
(* trigger and come back.  The sequence of commands is in FaAcq.           *)
(***************************************************************************)
EXTENDS TrgParams, Sequences

VARIABLES
  own,     (* the channels' trigger is the driver's own, zfat_type          *)
  on,      (* it is enabled                                                 *)
  attr,    (* ZIO's cache of the current trigger's attributes               *)
  reg,     (* the core's registers of the same names                        *)
  blocks,  (* the blocks of the armed acquisition, << >> if there is none   *)
  spoilt   (* history: another trigger's acquisition wrote the post samples *)

confVars == <<own, on, attr, reg, blocks, spoilt>>

(* The number registers: a write of a longer number loses its upper bits.  *)
ToShots(v) == v % FIELD

(* The core takes the sample of the trigger on top of the post samples.    *)
ToPost(v) == v - 1
FromPost(r) == (r + 1) % WORD

Defaults == [shots |-> 1, pre |-> 0, post |-> 1, src |-> {"sw"}]

(* What zfat_destroy() leaves in the registers; and with POST as read.     *)
ResetRegsAsRead == [shots |-> 1, pre |-> 0, post |-> 1, src |-> {}]
ResetRegs == [shots |-> 1, pre |-> 0, post |-> 0, src |-> {}]

(* After the core's reset and __fa_init().                                 *)
ConfInit ==
  /\ own = TRUE /\ on = TRUE /\ attr = Defaults /\ blocks = << >>
  /\ spoilt = FALSE /\ reg = [shots |-> 1, pre |-> 0, post |-> 0, src |-> {"sw"}]

-----------------------------------------------------------------------------
(* zfat_change_status(): no source while disabled.                         *)
Sources(enabled, a) == IF enabled THEN a.src ELSE {}

(* ZIO disables the trigger, and aborts it, while it configures it         *)
(* (fa-zio-trg.c:152).                                                     *)
Configure(a, r) ==
  /\ own /\ attr' = a /\ reg' = [r EXCEPT !.src = Sources(on, a)]
  /\ blocks' = << >> /\ UNCHANGED <<own, on>>

(* zfat_conf_set(): what it refuses leaves cache and registers alone.      *)
SetShots(v) ==
  /\ IF v = 0 THEN Configure(attr, reg)
     ELSE Configure([attr EXCEPT !.shots = v], [reg EXCEPT !.shots = ToShots(v)])
  /\ UNCHANGED spoilt

SetPre(v) ==
  Configure([attr EXCEPT !.pre = v], [reg EXCEPT !.pre = v]) /\ UNCHANGED spoilt

(* The core's minimum; and no minimum.                                     *)
TooFewNever(v) == FALSE
TooFew(v) == v < 2

SetPost(v) ==
  IF TooFew(v) THEN Configure(attr, reg) /\ UNCHANGED spoilt
  ELSE /\ Configure([attr EXCEPT !.post = v], [reg EXCEPT !.post = ToPost(v)])
       /\ spoilt' = FALSE

(* The sources go to the cache only.                                       *)
SetSrc(s) == Configure([attr EXCEPT !.src = s], reg) /\ UNCHANGED spoilt

(* zfat_info_get(): what is read replaces what is cached; the cached       *)
(* sources stand for themselves.                                           *)
Read ==
  /\ own
  /\ attr' \in {[attr EXCEPT !.shots = reg.shots], [attr EXCEPT !.pre = reg.pre],
                [attr EXCEPT !.post = FromPost(reg.post)]}
  /\ UNCHANGED <<own, on, reg, blocks, spoilt>>

Enable(enabled) ==
  /\ own /\ on' = enabled /\ reg' = [reg EXCEPT !.src = Sources(enabled, attr)]
  /\ blocks' = IF enabled THEN blocks ELSE << >>
  /\ UNCHANGED <<own, attr, spoilt>>

-----------------------------------------------------------------------------
(* Another trigger, of v samples, in place of the driver's own; and back:  *)
(* zfat_create() finds the registers as they are.                          *)
Replace(v) ==
  /\ own /\ own' = FALSE /\ reg' = ResetRegs /\ blocks' = << >>
  /\ spoilt' = FALSE
  /\ attr' = [shots |-> 1, pre |-> 0, post |-> v, src |-> {}] /\ UNCHANGED on

Restore ==
  /\ ~own /\ own' = TRUE /\ on' = TRUE /\ attr' = Defaults /\ blocks' = << >>
  /\ UNCHANGED <<reg, spoilt>>

-----------------------------------------------------------------------------
(* zfat_overflow_detection(), in 32 bit numbers but for the last product.  *)
Samples == (attr.pre + attr.post) % WORD

(* The bytes of a shot without the time tag at its end, and with it.       *)
ShotSizeNoTag(n) == (n * 8) % WORD
ShotSize(n) == ((n + 2) * 8) % WORD

(* A check of one shot only, whatever the trigger.                         *)
OverflowsOne(shots, n) == ShotSize(n) > MEMORY \/ (shots > 1 /\ n > DPRAM)
Overflows(shots, n) == \/ ShotSize(n) * shots > MEMORY
                       \/ shots > 1 /\ n > DPRAM

(* ti->nsamples, of all channels together.                                 *)
TiSamples == (Samples * 4) % WORD

Accepts(shots) == shots # 0 /\ TiSamples # 0 /\ ~Overflows(shots, Samples)

(* The size zfat_arm_trigger() computes for itself; and without the tag.   *)
BlockSizeNoTag == (2 * TiSamples) % WORD
BlockSize == (2 * TiSamples + 16) % WORD

Layout(shots) ==
  [k \in 1 .. shots |-> [offset |-> ((k - 1) * BlockSize) % WORD,
                         size |-> BlockSize]]

(* The sources that arming writes; and arming that leaves them.            *)
ArmedSourcesKept(a, r) == r.src
ArmedSources(a, r) == a.src

(* START: the abort of what was armed, then zfat_arm_trigger(), which      *)
(* frees everything again when an allocation or the check fails.           *)
Arm ==
  /\ own /\ on
  /\ \/ /\ Accepts(attr.shots) /\ blocks' = Layout(attr.shots)
        /\ reg' = [reg EXCEPT !.src = ArmedSources(attr, reg)]
     \/ blocks' = << >> /\ UNCHANGED reg
  /\ UNCHANGED <<own, on, attr, spoilt>>

(* zfad_input_cset_software(), on a block that the other trigger took.     *)
SoftInput ==
  /\ ~own /\ Accepts(1)
  /\ reg' = [reg EXCEPT !.post = TiSamples] /\ spoilt' = TRUE
  /\ blocks' = <<[offset |-> 0, size |-> (2 * TiSamples) % WORD]>>
  /\ UNCHANGED <<own, on, attr>>

(* zfad_stop_cset(), of an acquisition of another trigger.                 *)
StopCset == ~own /\ blocks' = << >> /\ UNCHANGED <<own, on, attr, reg, spoilt>>

(* The end of the transfer: zfat_data_done(), and the sources again.       *)
Finish ==
  /\ blocks # << >> /\ own /\ blocks' = << >>
  /\ reg' = [reg EXCEPT !.src = attr.src] /\ UNCHANGED <<own, on, attr, spoilt>>

ConfNext ==
  \/ \E v \in Counts : SetShots(v) \/ SetPre(v) \/ SetPost(v)
  \/ \E s \in SUBSET {"sw", "external"} : SetSrc(s)
  \/ Read
  \/ \E enabled \in BOOLEAN : Enable(enabled)
  \/ \E v \in Counts : Replace(v)
  \/ Restore \/ Arm \/ SoftInput \/ StopCset \/ Finish

ConfSpec == ConfInit /\ [][ConfNext]_confVars

-----------------------------------------------------------------------------
Attributes == [shots : 0 .. WORD - 1, pre : 0 .. WORD - 1, post : 0 .. WORD - 1,
               src : SUBSET {"sw", "external"}]
Registers  == [shots : 0 .. FIELD - 1, pre : 0 .. WORD - 1, post : 0 .. WORD - 1,
               src : SUBSET {"sw", "external"}]
Block      == [offset : 0 .. WORD - 1, size : 0 .. WORD - 1]

(* The variables keep their types: every number its width, that of an      *)
(* unsigned int or of the register's field.                                *)
ConfTypeOK == /\ own \in BOOLEAN /\ on \in BOOLEAN /\ spoilt \in BOOLEAN
              /\ attr \in Attributes /\ reg \in Registers
              /\ blocks \in Seq(Block)

(* What users read back is what the core does, through every sequence of   *)
(* accepted and refused writes, of other triggers and of the defaults that *)
(* a new instance starts with: as many shots as fit the register, and pre  *)
(* and post samples (driver-user.rst:446-451) whose sum is the cached one. *)
(* Only what an acquisition with another trigger wrote comes through.      *)
CoreFollows ==
  own /\ ~spoilt =>
    /\ reg.shots = ToShots(attr.shots)
    /\ reg.pre + reg.post + 1 = attr.pre + attr.post

(* One shot of the core, in bytes: four channels of two bytes, and the tag.*)
CoreShot == 8 * (reg.pre + reg.post + 1) + 16

(* Numbers that the code's 32 and 16 bits cannot compute with.             *)
TooBig == Len(blocks) >= FIELD \/ 8 * (attr.pre + attr.post + 2) >= WORD

(* The blocks of an armed acquisition are the shots that the core will     *)
(* write, one after the other from the start of its memory.                *)
BlocksAreShots ==
  own /\ ~spoilt /\ blocks # << >> /\ ~TooBig =>
    /\ Len(blocks) = reg.shots
    /\ \A k \in 1 .. Len(blocks) : /\ blocks[k].offset = (k - 1) * CoreShot
                                   /\ blocks[k].size = CoreShot

(* zfad_input_cset(), "Check if device memory allows this acquisition":    *)
(* the core of an armed acquisition neither runs over the memory nor, with *)
(* more than one shot, over its buffer.                                    *)
CoreFits ==
  own /\ ~spoilt /\ blocks # << >> /\ ~TooBig =>
    /\ reg.shots * CoreShot <= MEMORY
    /\ reg.shots > 1 => reg.pre + reg.post + 1 <= DPRAM

(* Whatever the numbers, no block lies beyond the memory, nor two in the   *)
(* same place; the block of another trigger, when they are not too big.    *)
BlocksInMemory ==
  own \/ ~TooBig => \A k \in 1 .. Len(blocks) :
    /\ blocks[k].offset + blocks[k].size <= MEMORY
    /\ k > 1 => blocks[k].offset = blocks[k - 1].offset + blocks[k - 1].size

(* An armed acquisition can be triggered by the sources the user chose,    *)
(* although choosing, disabling and other triggers go another way.         *)
ArmedListens == own /\ blocks # << >> => reg.src = attr.src

(* "Check if device memory allows this acquisition" (fa-zio-drv.c:480):    *)
(* the same, whatever the numbers users configure.                         *)
AcceptedFits ==
  own /\ ~spoilt /\ blocks # << >> => reg.shots * CoreShot <= MEMORY
=============================================================================
