# A model of the fmc-adc-100m14b driver

`src/kernel` is a Linux driver for a 4-channel 100 MS/s ADC mezzanine on two
carriers: SPEC (PCIe, its DMA core ends with an interrupt) and SVEC (VME, the
transfer blocks the caller). Users drive it through sysfs attributes of the ZIO
framework and read the acquired blocks from a ZIO buffer. This directory holds
TLA+ modules of the driver, the TLC runs that check them, and TLAPS proofs.

## Inventory

| part | state | operations | what is hard | what makes it correct | here |
|---|---|---|---|---|---|
| acquisition: `zfad_fsm_command`, trigger operations, interrupt handlers, work, transfers (`fa-core.c`, `fa-zio-trg.c`, `fa-irq.c`, `fa-spec-irq.c`, `fa-spec-dma.c`, `fa-svec-dma.c`) | block vector (`priv_d`), `n_shots`, `n_fires`, `enable_auto_start`, `last_irq_core_src`, `zdma`, ZIO's flags ARMED and HW_BUSY, core registers | START, STOP, arm, abort, data_done, ACQ_END, DMA_END, enable and disable of the trigger | two threads of control and one lock that covers only part of the state; asynchronous DMA; every step may fail | blocks neither leaked nor freed twice, only fresh and whole acquisitions delivered, HW_BUSY always lowered, nothing hangs | `FaAcq` |
| calibration, range, offset (`fa-calibration.c`, `fa-core.c`, `fa-zio-drv.c`) | `calib`, `user_offset`, `zero_offset`, range, gain, offset and DAC registers | EEPROM write, range and offset attributes, DAC reset | fixed-width arithmetic, table indices, values kept after a refusal | registers always those of the current range and calibration; DAC value in range and monotonic | `FaCalib` |
| configuration of an acquisition (`zfat_conf_set`, `zfat_info_get`, `zfat_overflow_detection`, `zfat_arm_trigger`'s sizes, other ZIO triggers) | ZIO's cache of the attributes, the registers, the blocks' sizes and places | write, read, enable, replace the trigger and come back, arm | the same sizes computed in four places, `+1/-1` conversions, 16 and 32 bit wraps, sources that go to the cache only | what is read back is what the core does; the blocks are the shots the core writes and lie in its memory | `FaTrgConf` |
| probe, remove, module life cycle (`fa-core.c`, `fa-spec-core.c`, `fa-svec-core.c`, `fa-irq.c`) | which resources are held, the interrupt's and the work's state | load, probe, remove, unload, each in steps | failure of any step; the interrupt, the work, the DMA and users racing the removal | nothing is held without what it is built on, everything is given back once, nothing runs afterwards, a removal ends | `FaLife` |
| one-wire thermometer (`onewire.c`) | `next_t`, `temp`; the thermometer | read the temperature | readers that sleep between reading and using what they share; jiffies that wrap | no value from before the first conversion, no wait beyond the longest one | `FaThermo` |
| SDB search (`fmc-util.c`), SPEC descriptors (`gncore_dma_fill`) | a loop's variables; the pool of descriptors, the core's registers | search a table; fill the descriptors, start, follow them | index counted over subtrees; end of chain, addresses in two halves | the match found is the one of that index; every page is transferred once, in order | `SdbFind`, `GnDma` |
| SPI (`spi.c`), register access (`fa_readl`, `fa_writel`) | the controller; registers | transfer; field read, read-modify-write | timeout; unlocked | | done or failed in `FaCalib`; as meant elsewhere |
| debug dump, register tables, `src/tools` | none | print, constants, command line | nothing | | not modelled |
| ZIO, the FMC bus, the gateware | ARMED, HW_BUSY, buffer, interrupt lines | abort, arm, data_done, ack, store, free | only their use is known: the submodules are empty | | external parts of the modules above |

How they interact: a sysfs write reaches `zfad_conf_set` or `zfat_conf_set`
through ZIO; `fsm-command` calls `zfad_fsm_command`, which calls ZIO's abort and
arm, which call back `zfat_abort` and `zfat_arm_trigger` and from there
`zfad_input_cset`. The core raises ACQ_END; `fa_irq_handler` takes the vector
under the cset lock, raises HW_BUSY and queues `fa_irq_work`, which starts the
transfer, finishes it (SVEC) or leaves it to `fa_spec_irq_handler` (SPEC), and
calls `zio_trigger_data_done`, which calls `zfat_data_done`. Each interrupt is
acknowledged at the end of its chain.

`fa_probe` acquires, in order, the carrier data, the subsystems of `mods[]`, the
interrupts and the carrier's module; from the moment the ZIO device is registered
users reach the attributes, from the moment the handler is in place and ACQ_END is
enabled the chain above runs. `fa_remove` takes all that apart in between. The
SDB search gives the probe the addresses of the cores, `gncore_dma_fill` gives a
SPEC transfer its descriptors, and the thermometer is read by an attribute and by
ZIO itself when it fills a control block.

## Modules

* **`FaAcq`** is the detailed model. One action is one piece of code that no
  other thread can cut: a critical section of the cset lock, or the stretch up to
  the next access to shared state. `pc["user"]` and `pc["irq"]` are the two
  threads; the name of an action and the "map" of `PROJECT.json` say which lines
  it stands for.

  | state | in the code |
  |---|---|
  | `pc`, `cmd`, `job`, `res`, `xi` | where each thread is; its arguments and locals |
  | `nShots`, `nFires`, `autoStart`, `lastIrq`, `carrier`, `sgLive` | `struct fa_dev`: `n_shots`, `n_fires`, `enable_auto_start`, `last_irq_core_src`, `carrier_op`, whether `zdma` may be released |
  | `vec`, `nBlk` | `interleave->priv_d` (who allocated it) and how many of its entries are set |
  | `held`, `stored` | blocks taken from the ZIO buffer; blocks stored for the reader |
  | `mine` | `i` of `zfat_arm_trigger`, in each context: the blocks in the vector it allocated, which it keeps a pointer to |
  | `gone`, `stale` | history: how many of those blocks another context gave away, by way of `priv_d`, and whether it freed the vector |
  | `armed`, `busy`, `disabled` | `ZIO_TI_ARMED`, `ZIO_CSET_HW_BUSY`, the trigger's status |
  | `fsm`, `rem`, `srcOn`, `cfgShots` | registers: state machine, `ZFAT_SHOTS_REM`, `ZFAT_CFG_SRC`, `ZFAT_SHOTS_NB` |
  | `adcMask`, `adcPend`, `dma` | the interrupt controller and the DMA core |
  | `fresh` | history, read by properties only: the core was started for this arming |

  A pointer that is NULL, dangling or unset, when followed, ends its thread in
  the step `"oops"`, where a kernel thread would end too. The exception is the
  vector of a thread that is arming. `zfat_arm_trigger` works with a local
  pointer, so that a thread whose vector another one frees or replaces in `priv_d` goes on
  filling it, and when an allocation or the raw I/O fails, frees its blocks, those
  that were given away already too, and sets `priv_d` to NULL, whoever's it is by then. Memory
  that was freed is taken as not yet reused, and a write past a vector that turned out too
  short goes on; a second `kfree` may or may not end the thread, and a block that goes
  back a second time is counted once. The definitions at the
  head of `FaAcq` named after mistakes are used by nothing: they are the mutants
  of `PROJECT.json`.
* **`AcqSession`** is the promise: at rest, armed with some blocks, acquired; an
  acquisition that is over delivers all its blocks or none.
* **`FaAcqProps`** states the properties, and `Session`, the refinement mapping
  from `FaAcq` to `AcqSession`. **`MCAcq`** is what TLC runs.
* **`FaAcqProofs`** holds the theorems about every use, **`FaAcqCareful`** those about a
  careful one and the refinement.
* **`FaCalib`** is the numeric path from the EEPROM, the attributes `chN-offset`,
  `chN-offset-zero`, `chN-vref`, `rst-ch-offset` and `calibration_data` to the
  range field (`code`), the correction registers (`gain`, `offset`) and the DAC
  (`dac`); `calib`, `user` and `zero` are `fa->calib`, `fa->user_offset` and
  `fa->zero_offset`. An attribute write, which ZIO serialises, is one step; a write of
  `calibration_data` is not serialised with them and is one step for the copy
  and two for each channel (`todo`, `again`): `fa_apply_calib` calls `zfad_set_range`, which
  returns before it reaches the DAC when the index is refused, and then `zfad_apply_offset`
  itself (`fa-calibration.c:120`), which does reach it. In between the DAC is still that of the
  old calibration, and the channel is `behind`. Finer cuts, inside the copy and inside one of
  the two calls, are not modelled, nor two simultaneous
  writers of `calibration_data`. Values refused before anything is written
  (an unknown range, a file of the wrong size) change nothing and have no action.
  A transfer that fails may or may not have reached the DAC. `Beyond` is
  what the code may find past the end of `zfad_hw_range[]`; `adc[3]`, which the
  check in `zfad_set_range` lets through, is the structure's next field, `dac[0]`.
* **`MCCalib`** gives TLC a small converter; **`FaCalibProofs`** (types and plausible
  values) and **`FaCalibTracks`** (what the registers follow) hold the theorems for every one.
* **`FaTrgConf`** (parameters in **`TrgParams`**) relates three descriptions of one
  acquisition: `attr`, ZIO's cache; `reg`, the registers `ZFAT_SHOTS_NB`, `PRE`, `POST`
  and `CFG_SRC`; and `blocks`, what `zfat_arm_trigger` laid out from the cache and the
  core fills from the registers. `own` and `on` say whether the channels' trigger is the
  driver's own and enabled. `spoilt` is history: an acquisition with another trigger
  wrote the register of the post samples (`zfad_input_cset_software`), which
  coming back does not repair. One action is one attribute access or one
  command, as ZIO serialises them. **`FaTrgConfProofs`** holds the theorems.
* **`FaLife`** (parameters in **`LifeParams`**) has one action per step of `fa_init`,
  `fa_probe`, `fa_remove`, `fa_exit` and their error paths; `stage` is the step, `i`
  the loop index, `inMods` whether the pointer `m` of the error path was set, `held` what
  is acquired, `leaked` what a device that is gone still owns. `mask`, `run`,
  `auto`, `busy`, `chain` and `dma` are what is left of `FaAcq` when only its use of
  the card's resources matters. `fault` records a second release, a call
  through an unset pointer, a handler that runs before its work or after its
  device. **`FaLifeProofs`** holds the theorems, about every user and about an orderly one.
* **`FaThermo`**: readers interleave where one sleeps. `scratch`, `left` and `bits` are
  the thermometer: its result, the conversion under way, its resolution.
  **`FaThermoProofs`** holds the theorems.
* **`SdbFind`** is the loop of `fmc_find_sdb_device_ext`: `rec` is its `i` (counted from 1), `looks` the
  half of the body it is in (the subtree of the record, then the record itself), `ci` its `ci`,
  `found` its `res` and in the end what it returns. What the search of a subtree by the FMC bus
  returns is part of the table. `Rank` counts the matches before a record.
* **`GnDma`** fills one descriptor per step (`gncore_dma_fill`, the first one into the
  core's registers `regs` too), starts the core, and then lets it transfer the page of its
  registers and fetch the next descriptor from the address it finds there. `moved` is
  history: what was transferred. An address is split at `HALFADDR`, 2^32 in the code.
  **`SearchProofs`** holds the theorems of both.
* **`MCParts`** explores the parts that share no state, side by side: `part` says which
  one moves in this behaviour. It extends `FaCalib` (through `MCCalib`), `FaLife`,
  `FaTrgConf`, `FaThermo`, `SdbFind` and `GnDma`, so that a theorem and a run speak of the same
  definition; this is why the specifications of the latter five have names with a prefix
  (`LifeSpec`, `ConfSpec`, `ThermoSpec`, `SdbSpec`, `DmaSpec`). The calibration is there twice: the part
  `faults` has lost transfers and new data, on fewer values.

### What is assumed of the code outside `src/`

* ZIO's `zio_trigger_abort_disable` aborts an armed trigger under the cset lock
  when HW_BUSY is low. The comment at `fa-irq.c:335-340` only says that HW_BUSY
  protects "against any concurrent abort": `BusyAbort` is `"wait"` (the caller
  waits for the flag) or `"skip"` (the call does nothing). The other runs use
  `"wait"`, `racing` `"skip"`, which is the weaker protection.
* `zio_arm_trigger` takes ARMED before it calls `zfat_arm_trigger`, refuses an
  armed or disabled trigger, and drops ARMED when the arming fails for another
  reason than -EAGAIN. `zio_trigger_data_done` calls `zfat_data_done` and
  drops ARMED in one critical section. ZIO aborts an armed trigger before it
  changes one of its attributes; the buffer refuses a block when full.
* The carrier passes one interrupt and then none until `fmc_irq_ack`: handler,
  work and acknowledge are one thread. The interrupt controller forgets a latched
  interrupt when it is masked. Triggers, the end of an acquisition and the end
  of a DMA are the actions `HwFire`, `HwAcqEnd`, `HwDmaEnd`.
* ZIO disables a trigger, which aborts it, while one of its attributes is
  written, and restores its status then (comment at `fa-zio-trg.c:152`); a value
  that `info_get` returns replaces the cached one; `ti->nsamples` is the number of
  samples of all channels, `4 * (pre + post)`.
* Unregistering the ZIO device aborts its trigger, which waits for HW_BUSY.
* The thermometer ignores an order to convert while it converts. Two sequences on
  the one-wire bus do not mix and the controller answers: the code's loops have
  no timeout. Nobody lets half of the range of jiffies pass between two reads of
  the temperature, or the next would sleep for the other half.

### `Careful`

The violation runs show that some commands at some moments break the driver (see
Findings). Those are excluded when `Careful` is TRUE: the user sends START only
to a machine at rest (not armed, not transferring, core idle, no interrupt on its
way), and STOP or a disable only when no automatic start can be under way.
Everything else stays free: STOP and a disable at any point of an acquisition,
of its interrupt and of its transfer, changes of the number of shots, readers
that never come, and failures. With `Careful` FALSE nothing is excluded.

### Orderly users

In `FaLife` users are free, and two history variables remember what is known to break
the driver. `early`: an attribute was used before the card's probe had ended or after
its removal had begun; such a user meets a handler without a work. `abrupt`: a card
was removed with the automatic start on, or on a SPEC while it was working, or
after a probe that failed and returned 0 (`fa-core.c:560`). `fa_remove` frees the DMA interrupt
that alone ends a SPEC transfer and lowers HW_BUSY, and it masks the interrupts before
it waits for a work that may start the machine again (`remove_auto`). `Orderly` is
neither. On a SVEC an orderly removal comes at any moment of an acquisition, its
interrupt and its work. `ChainAlive`, `SilentWhenGone`, `NoFault` and `RemoveEnds` speak of
orderly users, the others of all.

`FaCalib` does the same for channels: `recal` holds those that a new calibration was
applied to since their range was chosen (`calib_write`), `behind` those whose DAC did not get
the last sum of their offsets with the calibration of now, because it was refused
(`calib_refused`), lost, or is still to be written. `AdcTracks` and `DacTracks` speak of the other channels.

## Runs

| run | what is explored | asks | distinct states |
|---|---|---|---|
| `careful` | `FaAcq` with every command and every failure but that of a DMA, on a SPEC (`NotOnSpec`) without automatic start and refused transfers | all of the careful safety and liveness, refinement | 23 204 |
| `racing` | `FaAcq`, a user who starts, stops and toggles the automatic start whenever he likes; allocation, transfer and DMA fail | types, ownership of HW_BUSY | 5 201 672 |
| `parts` | all other modules, each by itself | below | 184 365 |
| `spec_auto`, `spec_error`, `svec_restart`, `svec_stop`, `svec_leak`, `calib_write`, `calib_refused`, `remove_auto`, `conf_wrap` | one user, one carrier each | the findings below | |

The properties of `careful`:

* `NoFault`: no handler follows a bad pointer. `BlocksAccounted`: every block
  taken is in the vector until stored or freed, so that none leaks; and a thread
  that is filling a vector is the only one to touch it, so that none is freed twice.
* `BusyHasOwner`: HW_BUSY is never raised with nobody, or only a dead thread, to lower it.
* `TransferWhole`: all through a transfer, `n_shots`, the vector, `n_fires` and
  ARMED agree, although commands reset and free them without the lock the
  transfer's loops would need. `TransferFresh`: what is transferred was acquired
  for these blocks, and the core can be triggered by nothing meanwhile.
* `DisabledIsSilent`: a disabled trigger has no source, although arming and the
  end of a transfer write the sources.
* `NoWarn`, `ScatterlistOnce`: on a SPEC the interrupts alternate and the
  scatterlist is released once.
* `HandlerNeverWaits`: the handler and the work, which alone lower HW_BUSY, never wait for it
  in an abort. It is the safety side of `CallReturns`: what a deadlock would begin with.
* `Implements`: `FaAcq` refines `AcqSession`. `BusyEnds`, `ArmedEnds`,
  `CallReturns`: HW_BUSY is lowered, an armed acquisition ends, every command
  returns, those that wait for HW_BUSY too.

Those of `racing` hold for every use: `TypeOK`, and `OnlyDeathStrands`: HW_BUSY is left
raised with nobody to lower it only where the interrupt's thread has died of a memory
fault. Racing users do bring that about, and they also make one context
free blocks that another has given away (`stale` is not empty in states of this run): what
holds of blocks holds of careful users only. Both properties are also proved.

Those of `parts`:

* calibration. `AdcTracks`: a channel's gain and offset are those of the range its
  register selects, whichever of the special and calibrating ranges it is.
  `DacTracks`: the DAC is the calibrated sum of the two offsets, against an exact
  reference and up to the code's two roundings. `DacMonotonic`: a greater offset
  never lowers it. `CalibSane`, `GainSane`: no
  number beyond the margins of `fa_verify_calib` is ever in use, with the
  differences cut to 16 bits, the tables indexed past their end, and a
  recalibration half done; and `Acknowledged`: no new offset other than 0 is
  remembered that the DAC did not get.
* configuration. `CoreFollows`: what users read back is what the core does.
  `BlocksAreShots`: the blocks are, to the byte, the shots the core will write.
  `CoreFits`: the core stays in the memory and in its buffer. `BlocksInMemory`: no
  block lies beyond the memory or over another. `ArmedListens`: the sources of an
  armed acquisition are those chosen. The second and third except numbers whose
  products need more than the code's 32 or 16 bits (`TooBig`), of which `conf_wrap` is
  the example; the fourth, for the driver's own trigger, does not.
* life cycle. `Supported`: at every step nothing is held without what it is built on.
  `NothingElseLeaks`: a failed probe leaves behind at most the carrier data, and on a
  SPEC the ADC's interrupt. `ChainAlive`: work and transfer never outlive
  what they use. `SilentWhenGone`: without a driver no interrupt is
  enabled. `NoFault`: nothing is released twice, no handler comes too early
  or too late, and no exit is called through a wild pointer but for a card named in
  `busid=`. `LifeTypeOK`: the types, and that no loop's index leaves `mods[]`. `RemoveEnds`: the flush and the abort of a removal are answered.
* thermometer. `Measured`: nobody is told a value from before the first conversion,
  except the 0 of a first read that cannot sleep; thousandths are rounded right above
  zero. `ShortWait`: nobody sleeps for longer than the longest conversion.
* searches. `FindsIndexed`, `FailsWithout`: the index-th match, or none, as long as no subtree has
  one that could be left over (`fmc-util.c:55`). `WholeChain`: the core transfers every page
  once, in order, finds a descriptor wherever it looks for one, and stops after the last.

**Bounds of `FaAcq`.** 1 or 2 shots: 1 takes the branch of the single shot, 2 the loops, and
all loops are over the same counter. The buffer holds 3 blocks (an armed
acquisition of 2 meets 1 unread block, so both the full and the sufficient buffer
occur) and 2 in `racing`, which has no other bound. `UINT` is 8 where the
code has 2^32: the difference that may wrap is of numbers up to 2. Nothing else
is cut: commands, acquisitions and reads are unlimited.

**Bounds of the parts.** The converter of `MCCalib` has 7
bits in place of 16 and its full scale is 100 in place of 5 000 000: offsets
beyond, at and just within both ends, and a sum that leaves the bounds, all occur,
and so do saturation at both ends and calibrations refused for the input, for
the DAC and for a temperature whose difference wraps. One
channel, as no step reads another channel's state; `calib_write` and
`calib_refused` have two. With faults, one offset other than 0 and two ranges, and a
DAC that the probe's reset did not reach holds the lowest or the highest value. Test
data of the ADC (`TestAdc`) are off, as they
make every range use the 1V calibration on purpose. The configuration has words of 11
bits, a shots register of 2, a memory of 128 bytes and a buffer of 3 samples: the
numbers users write (`Counts`) include those that are refused, fit exactly, are one
too many, wrap a sum and wrap a product. The life cycle is cut by nothing:
both carriers, every failure at every step, any number of cards one after the other,
found by `busid=` or not. Jiffies count to 20, more than
twice the longest conversion of 8. Tables have no record or 3, each the device, another, a
subtree with a match or a subtree without; lists have 1 or 3 pages, addresses below and above the
half of an address.

**Fairness.** In `FaAcq`, weak fairness of each driver thread (a kernel thread that can run
does; the work queue runs what is queued), of the triggers, of the end of an
acquisition, of the end of a DMA. None for the user, who may stop issuing commands and reading. `ArmedEnds` needs
the triggers to come: the code has no timeout and would rightly wait. In `FaLife`,
of the thread that loads, probes, removes or unloads, and of the chain of work and
transfer. Under `Spec` alone, used by the violation runs, nothing is assumed.

Deadlock is checked in `careful`. It is off in `racing` and in the violation runs
of `FaAcq`, where a thread may end in `"oops"`, and in `parts`, whose searches and
transfers end.

## Findings

* `spec_auto`: on a SPEC, auto-start restarts the machine while the previous
  samples are still being transferred. If ZIO's abort waits for HW_BUSY, the
  work waits for an interrupt that cannot come before it acknowledges its own; if
  it skips the abort, the counters of the running transfer are lost and its
  blocks never stored. `careful` therefore leaves auto-start out on a SPEC.
* `spec_error`: a SPEC transfer that cannot start ends in the release of a
  scatterlist that does not exist. `careful` leaves that failure out on a SPEC.
* `svec_restart`: a START that overtakes the ACQ_END of the acquisition it
  aborts: stale samples are delivered as those of the new acquisition.
* `svec_stop`: the automatic START runs after a STOP that has returned.
* `svec_leak`: two STARTs that interleave leak the blocks of one.
* `calib_write`: a write of `calibration_data` passes the range register's value
  where the number of a range is expected. The range register gets whatever lies
  past a table, and the new input corrections are not loaded. A detached
  channel (0) is connected, to the 10V range.
* `calib_refused`: an offset refused with -EINVAL is remembered, and from then on a
  change of range silently leaves the DAC as it was for the old one.
* `remove_auto`: a card removed with `fsm-auto-start` set: the work that `fa_remove`
  waits for after it has disabled the interrupts enables them again. The driver is gone,
  the machine runs and its interrupt is enabled.
* `conf_wrap`: with some 2^29 samples the size of an acquisition wraps in 32 bits. It
  passes the check of the device memory, and so small are the blocks.

Three more places where the documentation and the code differ have no run, as each is a unit or a
list of values: `doc/driver-user.rst:223-225` gives `chN-offset` in millivolts within
[-5000, 5000]; the code takes microvolts within [-5 000 000, 5 000 000] (`fa-core.c:116`, `:151`), and so
does the model. `doc/driver-user.rst:237-241` names the values 35, 17, 69 and 0 of `chN-vref` and says that
any other is refused; the code also takes the codes of the three calibrating ranges, 64, 66 and 68
(`fa-core.c:24-32`, `fa-zio-drv.c:158-161`). The comment at `fa-core.c:209` says that an open
input and test data need no correction; the code gives them that of 1V (`fa-core.c:220-221`).

Further hazards are recorded without a run, with the reason. One depends on ZIO: a failed DMA
(`fa-spec-irq.c:99`) sends STOP from the handler that alone lowers HW_BUSY. If
ZIO's abort waits, the handler waits for itself (`HandlerNeverWaits` would not hold); `racing`
explores it with an abort that is skipped, and `careful` leaves it out.

## Proofs

`FaAcqProofs` proves, for both carriers, any set of user commands and failures,
careful or not, and any number of shots, blocks and unsigned modulus (from
`ParamAssumption` alone):

* `TypeOKHolds`, `Spec => []TypeOK`;
* `OnlyDeathStrandsHolds`, `Spec => []OnlyDeathStrands`.

`TypeOK` is not inductive alone: that `held` stays a natural number needs to know what
each context that fills a vector still owns of it (`Left`, `FillingInv`), that the blocks
of different vectors are different ones (`OwnedInv`), and that the buffer is
never overfilled (`WithinBuffer`, which `ImplementsHolds` uses too). `BlockInv` joins
these with the types; the other parts of `TypeOK` are inductive by themselves. One lemma per part
has a step per action. `OnlyDeathStrands` needs `JobMatches`: a step of an
acquisition's work runs only for the job `"acq"`, so that its command returns to
the acknowledge with HW_BUSY already lowered or in the care of a DMA.

`FaCalibProofs` proves, for any number of channels, width of the converter, margins
below half its scale (`ScaleAssumption`), values, files and contents of memory past
the table (`InputAssumption`):

* `TypeCorrect`, `Spec => []TypeOK`: in particular the DAC and the corrections get
  numbers of their width;
* `CalibrationSane`, `Spec => []CalibSane`: needs that the temperature margin is not
  above the identity's temperature, or a difference could wrap into it;
* `InputGainSane`, `Spec => []GainSane`: not inductive without `CalibOk(calib)`,
  which says where the next gain comes from.

`FaTrgConfProofs` proves, for any width of words and of the shots register, any
memory, buffer and numbers users write (`TrgAssumption`):

* `TypeCorrect`, `ConfSpec => []ConfTypeOK`: every number of the cache, the registers and the
  blocks keeps its width. Where the code cuts (`ToShots`, `Samples`, `BlockSize`, `Layout`) the
  range of a remainder says so; where it does not, as in `ToPost`, what it refuses does;
* `CoreFollowsHolds`: `Follow` says it register by register, and of the registers
  that another trigger finds, which is what makes it inductive with the types;
* `BlocksInMemoryHolds`: `LayoutExact` shows that between blocks whose number and
  size pass `Overflows` no offset wraps, although the size itself may have
  wrapped before; `InMemory` remembers this for the driver's own trigger, and for
  another that its one block passed the check;
* `BlocksAreShotsHolds` and `CoreFitsHolds`: `Armed` ties the blocks to the register of
  the shots and to the cached samples, `Follow` ties those to the other registers.
  `Armed` is inductive because every write of an attribute disarms, and needs `Follow`
  because a read, which does not, may replace what is cached;
* `ArmedListensHolds`.

The lemmas on remainders at its head stand for the rules of unsigned
arithmetic: a sum or product of remainders, and a remainder of a remainder.

`FaLifeProofs` proves, for any carriers, any steps that fail, any place of the
card and any user:

* `TypeCorrect`, `LifeSpec => []LifeTypeOK`: that the index stays in `mods[]` follows from what is
  held at each stage, so this needs `IInv` too;
* `SupportedHolds` and `NothingElseLeaksHolds`. What is held depends on where a thread
  is: `IInv` adds to the types `ModuleHeld` (the module's things, by the number
  of steps of `fa_init` done), `CardHeld` (the card's, by the stages that may hold
  each) and `Counted` (the loops over `mods[]` undo exactly what was done, and the
  error path undoes nothing when it was entered before the loop). One lemma
  for each has a step per action.

### A careful user

`FaAcqCareful` proves what `careful` checks of safety, for both carriers and any number of
shots, blocks and unsigned modulus: `NoFaultHolds`, `BusyHasOwnerHolds`, `BlocksAccountedHolds`, `TransferWholeHolds`,
`TransferFreshHolds`, `DisabledIsSilentHolds`, `NoWarnHolds`, `ScatterlistOnceHolds`, `HandlerNeverWaitsHolds`,
and `ImplementsHolds`, that every step of `FaAcq` is one of `AcqSession` or changes nothing there.

Each has the hypothesis `CarefulUse`: `Careful` is TRUE; ZIO's abort waits for HW_BUSY; a number of
shots is at least 1 and below the modulus of an unsigned. What the user writes, and what fails, is
free on both carriers: the theorems cover what `careful` leaves out on a SPEC, the automatic start
(`spec_auto`) and failed DMAs. Those end in a wait for HW_BUSY that may never be over, which is why
`careful`, that asks for liveness, cannot have them; until then, and in the wait, nothing is
lost, delivered twice or overwritten. Two theorems need more:

* `NoFaultHolds` assumes `SpecStarts`, that the start of a transfer on a SPEC does not fail: if it
  does, a scatterlist that is not there is released (`spec_error`). The other theorems do not:
  the context that follows the bad pointer does nothing more.
* `HandlerNeverWaitsHolds` assumes `SpecRests`, that a SPEC has no automatic start and no DMA that
  fails (`fa-spec-irq.c:99`). Its invariant `SpecNoCommand` says that the
  interrupt's context then issues no command on a SPEC; on a SVEC `FlagInv` says that the flag is
  down whenever it does.

`svec_restart`, `svec_stop` and `svec_leak` show uses that are not careful.

The argument is who may touch an acquisition when. `CarefulInv` has five parts:
`ControlInv` (a START of the user has the machine for itself, a STOP or disable meets no
automatic start, a failed transfer leads to a STOP), `CarrierInv` (what each carrier takes
part in, and on a SPEC that the scatterlist lives exactly as long as the DMA and that a command
of the interrupt's context stays in its abort), `CoreInv` (the
core rests while an acquisition is handled, all shots are then counted, and nothing can
trigger it), `VectorInv` (the vector, step by step of arming and abort), and `FlagInv`
(HW_BUSY is raised exactly while an acquisition is handled, an acquisition that is handled is
armed, a disabled trigger has none). No part is inductive without the others: the
abort spares a vector in use because of `FlagInv`, which needs `ControlInv` to know that no
START is under way, which needs `CoreInv` to know that no interrupt can come.
`CarefulStep` has a step per action. The properties follow in one step each; the
refinement needs, for each action, which of `Session`'s steps it is, by the number of
blocks that are armed before and after.

### An orderly user

`FaLifeProofs` also proves `ChainAliveHolds`, `SilentWhenGoneHolds` and `NoFaultHolds` of every
specification `LifeSpec`, without further hypotheses: orderliness is in the
properties. `OrderlyInv` adds the converse of what `IInv` says: `CardComplete`, the stages at
which a thing is held for certain, so that giving it back is not a second release; and
`ChainPlaced`, the stages at which an interrupt, a work, a transfer or the enabled mask
can be met. `StepsOrderly` shows that as long as users remain orderly every step was one of
an orderly user. `OnlyBusid` is what remains: the wild pointer of the error path is
reached through an index from `busid=` only.

### What the registers follow

`FaCalibTracks` proves `AdcTracksHolds`, `DacTracksHolds`, `DacMonotonicHolds` and
`AcknowledgedHolds` under `RealSamples` (the module's parameter for test data is off: with it every
range is calibrated as that of 1V on purpose), with failures and new calibrations. `TrackInv`
remembers that the DAC of a channel not behind is `ToDac` of the sum and the calibration
of its range. A new calibration puts every connected channel behind, the refused `zfad_set_range`
leaves it there, and only `zfad_apply_offset` brings it back (`ApplyOffsetTracks`); each action but the reset of the offsets writes one channel and no other. That `ToDac` is
near the exact value and monotonic is arithmetic with products of variables, done one
operation at a time (`DivBounds`, `TruncateBounds`, `ClipMonotone`, `ToDacMonotone`,
`ToDacExact`).

### The thermometer

`FaThermoProofs` proves `MeasuredHolds` and `ShortWaitHolds` for any number of readers, any of them
with a lock, any modulus of jiffies from twice the longest conversion, and temperatures
that fit the thermometer and do not overflow (`ThermoAssumption`). `WaitsLong` is the
reason: as long as nothing was measured a conversion is under way whenever the mark is
set or somebody waits, and it ends before the mark and before any of the waits;
therefore who finds the mark behind, or wakes, finds a result. `NearMark` says that the mark is
never further ahead than one conversion nor half of the jiffies behind, which is
what makes `time_before` right across the wrap (`BeforeNear`).

### The searches

`SearchProofs` proves `FindsIndexedHolds`, `FailsWithoutHolds` (for any table with subtrees on bridges
only, any base and index: `SdbAssumption`) and `WholeChainHolds` (any list of pages, any place and
size of the descriptors, any width of a register, whatever was in the pool: `DmaAssumption`). Both are
loops written as steps, so that what a recursion would compute is what an invariant keeps.
`SdbInv`: before each record `ci` is its rank and has not passed the index; what is returned has the
index for its rank. That it is the only one is `HigherRank`: ranks grow over a match. `DmaInv`:
the descriptors filled so far say what their pages need (`Describes`), the registers hold the one of
the next page, what was moved is the beginning of the list. `JoinSplit` puts a split address together
again, and `SamePlace` shows that an address leads to one descriptor only.

### Only model-checked

All liveness (`BusyEnds`, `ArmedEnds`, `CallReturns`, `RemoveEnds`): fairness is out of the
prover's reach. Every other property of a passing run is a theorem as well. That the subtrees' own
search, a function of the FMC bus, finds what it should is assumed. What the violation runs show is
not claimed.

## Plan

1. Done: the modules above; every invariant and action property that a passing run checks, and the
   refinement, is a theorem.
2. How much of `Careful` each theorem needs: the three uses that `svec_restart`, `svec_stop` and
   `svec_leak` show break different ones.
3. `FaAcq` with other triggers: the timing of `zfad_input_cset_software` and
   `zfad_stop_cset` against the interrupt.

## Not modelled

Sample data, time stamps and control blocks: no property reads them. Attributes
that are only copied to a register of their own (saturation, termination,
undersampling, thresholds, delays, time) and the test pattern: there is no second
place they could disagree with. `fa-debug.c`, the register tables and `src/tools`
keep no state that others share. The SPI controller and the one-wire bus below
the level of a transfer and of a sequence: what they do when two
users or a timeout interrupt them is hardware that is not in the repository. The
order of the bytes that the SVEC delivers. An acquisition with another trigger is
modelled for its blocks and registers only. Fields of one register
written by a read and a write: at run time each such register but that of a
channel has one writer, and whether ZIO keeps a channel's termination from being written
while new calibration data change its range is not in the repository.
