# A verification development for the BL70x bootloader

This directory holds TLA+ models of the bootloader in `src/build_essentials/examples/boot2_custom`
(its partition tables, its boot flow, its image check, its loader over Bluetooth and over the serial
line), of the host script `src/upgrade_firmware.py` that talks to it, and of what lies below it and
carries what it promises: the flash driver, the heap, and the way of a packet from the Bluetooth
controller to the host's stack; the TLC configurations that check them; and TLAPS proofs about all of them. Paths in this text
are relative to `src/`; `boot2/` stands for `build_essentials/examples/boot2_custom/`.

* [1 The system](#1-the-system): components, state, operations, interactions, what is hard
* [2 The modules](#2-the-modules): how each corresponds to the code, and what it leaves out
* [3 The runs](#3-the-runs): what each shows, its bounds and why they are enough, fairness
* [4 The proofs](#4-the-proofs)
* [5 What the models found](#5-what-the-models-found)
* [6 What is not modelled](#6-what-is-not-modelled)
* [7 Plan](#7-plan)

`PROJECT.json` is the index: components, runs, the lines every definition stands for (`map`), the
hazards and the properties against each, a mutated definition that breaks each property, findings and
theorems. To repeat: `tlc -config boot.cfg MCBootFlow`, `tlapm BootFlow_proofs.tla`, and so on.

## 1 The system

A BL70x starts its boot ROM, which starts this program from the head of the flash. It runs under
FreeRTOS with three tasks that matter: `main_task` (`boot2/main.c`), which decides what to boot, the
receive thread of the Bluetooth stack, which calls back ("the BLE task" below), and the task of the Bluetooth
controller, which is a binary and has the highest priority. The UART's interrupt is the fourth actor, the host
the fifth. It waits for a host to open a session for a while; then it reads the partition table, may
copy a firmware that came over the air to its place, checks the image, asks for a session once more,
and jumps. If there is no image to jump to it offers sessions for ever.

```
  upgrade_firmware.py  --GATT writes-->  BLE task: ble_blf_recv --+
        (host)         --serial line-->  UART ISR: uart0_irq_cb --+--> receive buffers
                                                                  v
                   main_task:  window -> read table -> copy -> check -> poll -> jump
                                 |          |           |        |        |
                         bflb_eflash_loader_main   partition.c   |   (session again)
                                 |          |           |     hash device (drv_device.c)
                                 +----------+-----------+--> flash_erase / flash_write

  controller's task: bl_onchiphci_rx_packet_handler --> data_msg, msg_queue, recv_fifo
                                                             |   (pool of receive buffers)
                                                             v
                                       BLE task: recv_thread --> ble_blf_recv, bl_connected, ...
                          pvPortMalloc / vPortFree: main_task, BLE task, controller
```

| Component | State | Operations | Shared with | Hard because |
|---|---|---|---|---|
| Partition tables, `common/partition/partition.c` | two tables in flash; `active_id` and a copy of the table in RAM; `p_iap_param` | read the active table, look up, update or append an entry, IAP parameters | the boot flow and the loader's sessions both rewrite them | power fails between erase and write; handles go stale; ages wrap |
| Boot flow, `boot2/main.c` | requests in HBN_RSV0 and in the mfg partition, `pt_entry`, `g_user_hash_ignored`, slots | find a request, deal with an entry, copy, rewrite, boot, start over | tables, image check | every step can be cut off and is begun again with what the flash holds |
| Image check, `boot2/blsp_media_boot.c`, `blsp_boot_parser.c` | `g_boot_img_cfg`, the hash device | header, key, signature, IV, hash, verdict | hash device with the loader's SHA command | one device is reopened again and again; errors dropped halfway |
| Device registry, `common/device/drv_device.c` | list of devices with names and status | register, unregister, find, open, close | every driver | sequences of legal calls: registered twice, opened while open |
| Loader, `boot2/bflb_eflash_loader_*.c` | `iap_write_addr`, error and timeout counts, interface in use | erase, write, reset command, a session, its polls | main_task runs it, callbacks feed it | retries, a session that nobody closes, wrong addresses of one byte |
| Bluetooth transport, `bflb_eflash_loader_ble.c` | connection, `g_rx_buf_len`, `is_rcv_msg`, buffer index | connected, disconnected, receive callback, read, notify | buffers, interface | callbacks of another task at any moment |
| Serial transport, `bflb_eflash_loader_uart.c`, `hal_uart.c` | FIFO, interrupt enabled or not, two buffers | poll for a handshake, interrupt, read a frame, send | buffers | lost bytes, hosts that stop and start again, a buffer without a bound |
| Upgrade script, `upgrade_firmware.py` | rest of the firmware, retry count, queue of one | scan, connect, erase, write, reset, retry | the two transports | timeouts racing late answers, retries with state already consumed |
| Flash driver, `bl702_sflash.c`, `hal_flash.c` | addresses of the running operation | erase in 64K, 32K and 4K commands, program in pages | everybody who writes | alignment; failing halfway |
| Memory allocator, `freertos/portable/MemMang/heap_5.c` | free blocks in the order of their addresses, used blocks, bytes left | malloc, free | all tasks: the loader's buffers, HCI messages, the stack's pools | blocks split and joined in any order; pointers freed twice; what is left when some is lost |
| Packets from the controller, `bl_hci_wrapper.c`, `buf.c`, `hci_driver.c` | ten message slots and a queue of them, the pool of receive buffers with a reserve, `recv_fifo` | packet handler, queued messages triggered by every release, receive thread | the controller's task interrupts the receive thread in the same code | two actors empty one queue; a slot is free before its memory is; everyone waits for a buffer |
| Platform ports, ring buffer, decompression, soft CRC, other peripherals, third-party components, build tools | | | | see section 6 |

What makes them correct:

* **Tables.** A device that has a valid table never loses it; to a boot, a rewrite happens at once or
  not at all; a rewrite reported as done is the one the next boot chooses.
* **Boot flow.** Preparing a boot never changes the image the table stands for; what is done is not
  done again, and what is cut off is done later; an intact firmware boots; main_task comes to an end.
* **Image check.** The verdict depends on the image, the chip and the request and on nothing that
  happened before; and, which the code does not keep, a chip that checks signatures starts nothing without a valid one.
* **Loader and host.** What the host counts as written is written; commands and answers of different
  transactions do not mix; buffers hold what they receive; host and device let go of each other.
* **Memory.** Blocks never overlap and none is lost; whoever was given memory keeps it until it is freed; what is
  received lands in memory of the loader, unless it is longer than the buffer.
* **Packets.** What was accepted is delivered once and data in order; the reserve is for events; what
  waits for a buffer gets one.
* **Flash driver.** Exactly the sectors touched are erased and exactly the bytes given are
  programmed, or a prefix of them when an operation fails.

The hazards behind these properties, each with its line, are in `PROJECT.json`.

## 2 The modules

```
AtomicTable <----- PartitionTable  <- PartitionTableProps  <- MCPartitionTable, PartitionTable_proofs
  (abstract)       BootFlow        <- BootFlowProps        <- MCBootFlow, BootFlow_proofs
 EflashLoader <--- BleUpgrade      <- BleUpgradeProps      <- MCBleUpgrade, BleUpgrade_proofs
         ^-------- SerialUpgrade   <- SerialUpgradeProps   <- MCSerialUpgrade, SerialUpgrade_proofs
        Heap5 <--- ReceiveBuffers  <- ReceiveBuffersProps  <- MCReceiveBuffers, ReceiveBuffers_proofs
                   HciRx           <- HciRxProps           <- MCHciRx, HciRx_proofs
      Devices <--- ImageCheck      <- ImageCheckProps      <- MCImageCheck, ImageCheck_proofs
                   SFlash          <- SFlashProps          <- MCSFlash, SFlash_proofs
```

An arrow is EXTENDS, except that `PartitionTableProps` instantiates `AtomicTable`; `ImageCheckProps` instantiates
`BootFlow`, which the detailed check is shown to implement a step of. Each component has
a module with its state and actions, one with its properties and one with proofs of them; the `MC` modules hold the
values of the constants that a `.cfg` cannot write. Definitions named `X_Y`, such as `ActiveId_KeepsOlder`, stand
beside `X` and are plausible mistakes in it: each is used to see a property fail, and by nothing else.
Properties that the code does not have (section 5) are defined with the others, at the end.

### PartitionTable and AtomicTable

| TLA+ | Code |
|---|---|
| `flash[0]`, `flash[1]` | the two sectors at 0x3D000 and 0x3E000; `Bad` is whatever `pt_table_valid` refuses |
| `active_id`, `pt_stuff` | what main_task keeps of `pt_table_get_active_partition_need_lock` |
| `para` | `p_iap_param` of an open session |
| `pc`, `target`, `image`, `pages` | a rewrite between its erase, its pages and its return |
| `GetActivePartition`, `UpdateEntry` | `pt_table_get_active_partition_need_lock` and `pt_table_update_entry`, called by main_task |
| `GetIapPara`, `SetIapPara`, `SessionEnds` | `pt_table_get_iap_para` when a session opens, `pt_table_set_iap_para` for its reset command |
| `EraseSector`, `ProgramPage`, `EraseFails`, `ProgramFails` | the flash operations inside a rewrite, and its return |
| `SystemReset`, `PowerFails` | the reset after a flip, and the loss of everything but the flash |

A rewrite is an erase, page programs one by one and a result. The power may fail before and after
each of them, each may fail, and then every variable but `flash` is gone. A torn table is `Bad`: the two
CRCs are assumed to catch it. Entries keep the fields that some property tells apart; the others are `rev`.
`AtomicTable` is the abstract specification: one current table, rewritten at once. The refinement
mapping is `table <- ActiveStuff(flash)`.

### BootFlow

main_task from reading the table to the jump. Variables are those of the code (`user_fw` is HBN_RSV0,
`mfg_flag` the request in the mfg partition, `deal_len` the progress of a copy), `table` and `slots` are the flash. A
slot holds the first chunks of some image; it is intact if it holds all. The table is
atomic here, which is what `PartitionTable` is shown to implement; `Boot` and its `Intact` stand for the
whole of `ImageCheck`, which is shown to implement that step. Power failures
keep the flash and HBN_RSV0 and reset the rest (or lose HBN_RSV0 as well).

### EflashLoader, BleUpgrade, SerialUpgrade

`EflashLoader` is what the two transports share: `slot` by sectors, the addresses, the counts that end a
session, where main_task was when the session opened, the three places it offers one at, and the erase,
write and reset commands with their failures. It has no Next of its own: how a command gets to main_task
is the transport's matter, and each transport combines these operators with its own steps. In the partition file that is
shipped (`partition_cfg_1M_boot2_ble.toml`) both addresses of the firmware's entry are the same, so an upgrade
overwrites the only image; the model has that one slot and the sector behind it.

`BleUpgrade` adds the host's `ble_process`, which scans for the device unless it is given an address (`Scan`; `Init` has
both), with its retries and its queue of one, a connection that may go
down at any moment from either side, and the callbacks of the BLE task, which switch the interface and
write to the buffer while main_task is in a read or executes a command. `SerialUpgrade` adds the host's main part, run
again and again, bytes lost on the line, the FIFO, the interrupt and its two buffers. Per direction the
links keep order, which GATT and a UART do. What the buffer holds is a sequence of parts (`rx`), and `rx_len`, the code's
`g_rx_buf_len`, is what their lengths add up to.

Time is not modelled. What the constants of the code allow to rule out is ruled out by guards, and the
header comment of each module lists them: a read of 8 or 10 s does not time out while something that
takes milliseconds is still to happen.

### Heap5, ReceiveBuffers

`Heap5` is FreeRTOS's heap as operators that return the heap their function leaves: a set of free blocks, a set of
used ones and `xFreeBytesRemaining` (`left`). `Malloc` is first fit with a split of what is worth a block, `Free` joins a
block with its neighbours (`InsertBlock`), `FreeAsserts` is what `vPortFree` asserts. The functions run with the scheduler
suspended, so that each is one step of whoever calls it.

`ReceiveBuffers` composes the two transports over that heap. `BleUpgrade` and `SerialUpgrade` have one link
each and its buffer given; here both are in use at once, what a command does is left to those two, and the state is
the life of the buffers:

| TLA+ | Code |
|---|---|
| `readbuf`, `rx_index`, `rx_len`, `rcv` | `g_eflash_loader_readbuf`, `g_rx_buf_index`, `g_rx_buf_len`, `is_rcv_msg` |
| `Handshake`, `AllocatePair` | `bflb_eflash_loader_uart_handshake_poll`: a pair of buffers if there is none |
| `TestBuffer`, `FreeFirst`, `FreeSecond`, `AllocateBle`, `UseBle` | the statements of `bl_connected`, one by one, as main_task may wake up between them |
| `Disconnected`, `UseUart` | `bl_disconnected`, which frees the buffer only if there is none |
| `ReadUart` .. `Ack` | main_task's turn of a session: read, wait, take, time out, execute, answer |
| `SerialBytes`, `BleReceive` | `uart0_irq_callback` and `ble_blf_recv` writing where the pointers point, with no bound but the code's |
| `Message`, `HandleMessage` | the controller's messages, allocated by its task and freed by the stack |
| `mine`, `wild` | the pointers the loader has got and not freed; whether someone else's memory was written |

The BLE task runs while main_task sleeps (`Asleep`); the interrupt and the controller come at any moment. The sizes are the
real ones: buffers of 4104 and 5128 bytes in a heap of 23544. Neither peer keeps to a protocol here: commands, or first pieces of
commands, come in any number before one is taken, and whether what is in a buffer looks like a command is open. What the
script does send is the matter of the other two modules: `BufferInv` of `BleUpgrade` says that it fits, `BufferInv` of
`SerialUpgrade` that it does in the first run.

### HciRx

The queue between controller and host. A packet takes a receive buffer at once or waits in one of the slots
(`data_msg`, `msg_queue`) until `bl_trigger_queued_msg`, which every release of a buffer calls, finds more
buffers than are reserved. The handler runs in one go in the controller's task: while `draining`, its loop goes turn by turn
(`DrainTurn`) to its end (`DrainEnds`) and nobody else does anything. The receive thread goes through the same loop statement
by statement, as far as the lock lets others in: `Deliver` up to `irq_unlock`, `Empty` after it. A message handled at
once releases its buffer, which calls the loop again with the lock taken: that too is `draining`. `bt_recv` is the step `Process`, which may keep the buffer of an incomplete
L2CAP packet (`rx`). The loop is left by `break` with the lock taken; `leaked` is that, and decides whether
the thread can be preempted from then on.

### Devices, ImageCheck

`Devices` is the registry as operators that return the new registry; `ImageCheck` uses them as
`blsp_mediaboot_parse_one_fw` and its parsers do: unregister, register, find and open the hash device
for a header, again after the key, feed it, close and unregister it. Between attempts the loader may
hash with the same device (`XipReadSha`) or reopen its UART (`EnableInt`). An image is a record of what is right or
wrong about its parts; a hash is the sequence of words that was fed. The checks that the
code makes but does not act on are modelled that way: `sec_ecdsa_verify`'s result is not assigned
to what is tested (`blsp_boot_parser.c:373`), so that a signature of another key or image (`foreign`) passes; one that is too long is only noticed later. `StartOver` is main_task's
way back to another image once the check has failed.

The refinement of `BootFlow` maps the steps from header to verdict to `pc = "boot"`, and an image to a slot of two chunks: none
of them for an image that is not sound, both for one whose hash matches as well. The other variables of `BootFlow`
do not change during a check. `ChecksAsBoot` says that every step is a stutter or `Boot`; choosing the image
(`Try`, `StartOver`) is what the rest of `BootFlow` is about.

### SFlash

One operation at a time: the loops of `SFlash_Erase` and `SFlash_Program` as one action per command sent.
Sizes are constants, addresses numbers. The build takes these functions from the ROM
(`BFLB_USE_ROM_DRIVER`); the model is of the source in the repository, which is the ROM's.

## 3 The runs

| Run | Module, cfg | Distinct states | Question |
|---|---|---|---|
| `tables` | MCPartitionTable, tables.cfg | 472,935 | does a rewrite survive errors and power failures, and is it atomic? |
| `boot` | MCBootFlow, boot.cfg | 356,176 | does preparing a boot ever harm an image, repeat itself, or not end? |
| `boot_hash` | MCBootFlow, boot_hash.cfg | counterexample | is a firmware nobody asked to run unchecked always checked? |
| `image` | MCImageCheck, image.cfg | 260,090 | is the verdict on an image that of its checks, whatever was checked before? |
| `image_sig` | MCImageCheck, image_sig.cfg | counterexample | does a chip that checks signatures start only what has a valid one? |
| `ble` | MCBleUpgrade, ble.cfg | 147,073 | which guarantees does an upgrade over Bluetooth keep, and does it end? |
| `ble_retry` | MCBleUpgrade, retry.cfg | counterexample | does a retry that succeeds leave the firmware on the device? |
| `serial` | MCSerialUpgrade, serial.cfg | 43,262 | the same over the serial line, with the script run again and again |
| `buffers` | MCReceiveBuffers, buffers.cfg | 435,839 | what do both links at once do to the buffers and the heap? |
| `buffers_free` | MCReceiveBuffers, buffers_free.cfg | counterexample | is only allocated memory freed? |
| `hci` | MCHciRx, hci.cfg | 86,297 | does every packet from the controller reach the host? |
| `sflash` | MCSFlash, sflash.cfg | 55,416 | does every erase and write touch exactly what it was asked to? |

### What the passing runs show

**tables.** From six initial flashes (factory state, equal tables, either one newer, a spare that is
torn, no table at all; ages on both sides of the wrap): `NeverBricked`, a device with a valid table keeps one through
every step; `OkIsActive`, a rewrite that returned success is what the next boot reads, unless the 32-bit age has
just wrapped to 0 (which takes four thousand million rewrites, and is why the exception is
stated); `FlipReachesBoot`, the flip by position reaches the entry that is booted by type; `Atomic`, the
refinement of `AtomicTable`. `HandleInv` (with the types) and `CommitInv`, which `OkIsActive` is part of, are the invariants
that explain why.

**boot.** From seven tables (a firmware with index 0 to 3, with and without an mfg partition, a table
without a firmware) and all contents of all slots: `SameImage` and `CopiedOnce`, no step changes the
image an entry stands for or repeats a finished copy; `NoFalseFailure`, main_task gives up only
for a firmware that is not intact or that it could not copy; `BootInv`, whose last part says that a request in
HBN_RSV0 is served once; `GetsOn`, each of its steps leaves fewer to the end of the boot;
`BootEnds` (liveness), with the exception stated in it: a request in the mfg partition for an image that does
not boot is found again and again.

**image.** 656 images, each right but for at most two things, on chips with and without signing and
encryption, woken from hibernation or not, in any order of attempts and sessions: `VerdictRight`, the verdict is what the checks that count come to, and only
an image in one piece is marked as valid. It is about the checks there are: of a signature the form counts, whether or
not it verifies (finding 3 of section 5). And `DeviceInv`: the registry lists a device once (`RegistryInv`), and the hash is one of
the IV and the words read so far and nothing else (`DigestInv`). `ChecksAsBoot`: a check, in however many reads, ends as
`BootFlow`'s one step does.

**ble.** `BufferInv` (`RxInBounds` and `CommandIntact`) and `OneAnswer` say that parts of different commands, connections
and answers do not mix. `AckedIsWritten`, `FreshIsWhole`, `PsmSpared` and `CheckedBeforeJump` are the
guarantees that do hold, with the conditions under which they do: `fresh`, a transaction begun with the
whole firmware, and `back # "checked"`, no session accepted after the check. `CheckedBeforeJump` thereby says how far the check
reaches and does not rule out the hazard at `blsp_media_boot.c:417`, which is real. `HostEnds` and `LetsGo` (liveness): the script ends, and the device
ends in the application or offers sessions, once the power stays on. The exception in `HostEnds` is a script without an address (`-a`) that
comes too late: it scans for ever for a device that runs its application.

**serial.** `DoneIsWhole`: when the script ends without an error, the slot holds the firmware, whatever
runs before it left in the session, the buffer and the FIFO. `NoFalseFailure` and the part `RxFits` of `BufferInv` are what holds
for the first run, its part `CommandIntact` what the two buffers are for. `HandshakeServed` (liveness): a freshly
started device with a bad image answers a handshake.

**buffers.** `HeapConsistent`: blocks tile the heap, free neighbours are joined; with `LeftExact` in `BufferInv`, what is left is
what the free blocks add up to. `OneLinkIsSafe`: as long as one of the two links is used, nothing but what is too long for a buffer (`Overrun`) is written outside of the loader's memory, and
the command that is executed is in it; and nothing that is free is freed before a second connection after a
serial session. `NobodysElse`: until that second connection no dangling pointer is freed, so that whoever was given memory
has it, and while a peer is connected the buffer it writes to is the loader's and large enough.
`AtMostOneLost`: the race between `bl_connected` and a handshake loses a buffer, never two. `ConnectionServed` (liveness): a peer
that connects and stays is served, whatever serial sessions went before, unless the memory is spoilt or spent.

**hci.** `PacketsKept`: what was accepted is in one place, once, and data in the order it came.
`SlotsExact`: a slot is in use for one message, between `irq_unlock` and the emptying of the slot included.
`ReserveKept`: only events use the reserve. `Served`: no message that may leave the queue is left without somebody at work on
it, and nothing waits while the receive thread sleeps. `AllDelivered` (liveness): whatever waits is delivered.

**sflash.** `EraseExact` (`ErasePrefix` and `EraseComplete`), `ProgramExact`, `WithinPage`, for every first and last
address in the model's flash, with and without the chip's block commands, failing anywhere.

### Bounds, and why they are enough

* Tables: two types of entries, two revisions, room for two entries, ages modulo 4, pages of 32 bytes. A
  table of two entries takes 92 bytes and so three pages, of which the last completes the CRC: torn, committing and
  surplus pages all occur. Four ages are the least in which the two live ages, their successor and
  the wrap are distinct. `UpdatesPerRead = 1`: main_task of the shipped build reads the tables again before each rewrite
  (`boot2/main.c:529`).
* Boot: two names, two images, two chunks: a copy has a first and a last turn, and a wrong image can
  be told from a right one. More names add requests that are found in the same table by the same lookup.
* Image: three words (and one wrong one, `Content`) read two at a time, so that the last read is shorter; three devices, so that the one that is
  unregistered stands at the head, behind others, or not at all.
* Bluetooth: firmwares of two and three pages, slots of two to four sectors, three transactions (the code has ten): a second failure with
  progress between them occurs, and the fourth and later ones only add to the retry count. A page travels in two
  parts, the last of which is flagged.
* Serial: three pages, three runs of the script, two handshakes kept in the buffer (`MaxTrains`; one that comes behind so
  many is neither kept nor counted in `rx_len`, which only loses larger overflows).
* Buffers: three connections between restarts: the second frees what the first left, and the third what a message may have been given
  in between. One message of the controller at a time, of which one is enough to take a block that was just freed; it has 255
  bytes, the most its length can say (`param_len` is a byte, `bl_hci_wrapper.c:287`); the theorems are about any number of messages of
  any sizes. Two amounts of memory taken at start-up, which is up to the binary controller: one that leaves room for a lost buffer, and one that
  does not, where the last block is too small to be split.
* HCI: three buffers, the least with which one is reserved, one may be held by an incomplete packet and one is left to
  work with (the build has five, of which one is reserved); three slots, so that a queue with a message that goes at once
  between two that do not occurs; six packets fill slots and buffers and go on. Reports of advertisers do not come in an image that does not scan; the
  handler has the branch, and so has the model.
* Flash: 34 bytes in sectors of 2, pages of 4, blocks of 8 and 16: every erase command, alignment and mixture
  of them fits; the theorems of section 4 hold for the real sizes.

No run uses symmetry. `CHECK_DEADLOCK FALSE` is in `image.cfg`, where after `app` and
`stay` the program is left for good, and in `hci.cfg`, where the controller sends a bounded number of packets and a message without
a slot ends the program.

### Fairness

* `BleUpgrade`: weak fairness of `Device`, `HostStep`, `Receive` and `Notified`. Each wait of main_task has a timeout, and each of
  the script but its scan, which has no bound: a round that does not see the device is a stutter, and fairness says no more of it than that a
  device that goes on advertising is seen in the end; the stack's receive task has a lower priority than main_task (`config.h:70`,
  `boot2/main.c:697`), but every loop of main_task sleeps (`vTaskDelay`), so that it runs; and a connection that
  stays up delivers. The model lets callbacks run at any moment, those at which main_task does not sleep included. Nothing makes the connection stay up: `LinkLost` is not fair but may happen for ever.
* `BootFlow`: weak fairness of the steps of main_task, which has nothing to wait for.
* `SerialUpgrade`: weak fairness of `Device`, `HostStep` and `Receive`, and strong fairness of `EnableInt`, the end of the
  400 ms pause in the handshake, which comes whatever arrives meanwhile.
* `ReceiveBuffers`: weak fairness of `MainTask`, all of whose waits have a timeout, and strong fairness of the steps of `BleTask`
  that it has begun: it has a lower priority, but gets the processor again and again as main_task sleeps in
  each of its loops. Nothing makes a handshake, a connection or a message come.
* `HciRx`: weak fairness of `RecvThread \/ Drain`: the controller's task, which can hold the thread up, sleeps when it has nothing to
  do, and a loop that is under way goes on. `bt_recv` is taken to return.
* The liveness properties except `HandshakeServed`, `ConnectionServed` and `AllDelivered` make the exception of a power supply that fails again and again.

## 4 The proofs

Eight modules hold theorems, one for each component, checked by TLAPS for every value of the constants their assumptions
allow. In each the argument is an inductive invariant, which TLC was asked for first; one lemma per action (or per group of
actions) shows that it is kept. Every invariant and every action property of a passing run is proved. The assumptions are the
`ASSUME`s of the modules, which TLC evaluates on its instances, and where a theorem needs more it says so in its statement:

| Theorem | needs besides | why the code justifies it |
|---|---|---|
| `CommitCorrect`, `AtomicCorrect` | `UpdatesPerRead = 1` | main_task reads the tables again before each rewrite (`boot2/main.c:529`) |
| `FlipCorrect` | the same, and that the firmware's entry comes first | `partition_cfg_1M_boot2_ble.toml` |
| `PsmSparedCorrect` | `Pages < SlotSectors` | a firmware exactly as long as the slot does harm what is behind it (section 5); the theorem is about the others |
| `BufferCorrect` of `BleUpgrade` | `MaxTry <= 85` | the script tries 10 times (`upgrade_firmware.py:387`); each try leaves up to 12 bytes, and 1024 are to spare |
| `ServedCorrect` of `HciRx` | `CONFIG_BT_RX_BUF_COUNT - CONFIG_BT_RX_BUF_RSV_COUNT >= 2` | the build has five buffers and reserves one (`config.h:114`, `:122`); with one unreserved buffer it is not true (section 5) |
| the theorems of `SFlash` | `RealSizes` | the sizes of the chip: sectors of 4096, blocks of 32768 and 65536, pages of 256 bytes |

**PartitionTable_proofs** (assumes `PartitionTableAssumption`). `TypeCorrect`; `HandlesCorrect`;
`NeverBrickedCorrect`: `Spec => NeverBricked`. "One table is always valid" is not inductive: a rewrite
erases whatever sector a handle says is spare, and handles outlive the read they come from. `HandleInv`
closes the gap: a handle that can still be used leads to a valid table, and the sector being written is the
other one. The delicate case is the flip at the end of a session, which may rewrite the very table main_task's handle
leads to; that handle is not used any more, since only a reset follows. The theorem also covers a main_task
that would rewrite several entries on one read (`UpdatesPerRead`), which TLC checks for one.

The second half of the module is about `AtomicTable`: `CommitCorrect`;
`AtomicCorrect`: `Spec => Atomic`, the refinement; `FlipCorrect`. `CommitInv` follows a rewrite from the handle it begins with: the
table it comes from is the active one until the page that completes the CRC word, and what is in the spare
sector is `Programmed(pages)`. It needs `Underway`, a rewrite begins with no page programmed, to be inductive. Each flash operation then
is a stutter of `AtomicTable` or one `Rewrite` or `Flip`: it leaves the table a boot chooses as it is (`EraseStutters`,
`ProgramStutters`), or makes it the new one. `HeadInv` says that the entry at position 1 is the firmware's in every
table, in flash, in RAM and on the way.

**BootFlow_proofs** (assumes `BootAssumption`). `TypeCorrect`, `BootInvCorrect`,
`RequestServedOnceCorrect`, `SameImageCorrect` and `CopiedOnceCorrect`, for any set of names and images,
any length and any initial tables. `BootInv` is `TypeOK /\ CopyInv /\ RequestInv`, and is inductive. The table and the
slots are changed by different steps, of which any may be cut off; `CopyInv` ties them together: pt_entry is the
table's entry while a copy goes on, and when the table is about to change the two slots are alike. Lemma
`NextIInv` proves of one step that it keeps `IInv` and that it `Persist`s, that is, satisfies both
action properties. `NoFalseFailureCorrect` adds `FirmwareInv`: without a request main_task deals with the table's entry of the
firmware, and what it boots for it, after a copy or after the failed rewrite of one, is the image the table stands for. `GetsOnCorrect` counts the
steps left (`StepsLeft`): those of this attempt, bounded by the chunks still to be copied, and one more whole attempt if it is a request that fails; every step of
main_task leaves fewer, which is what `BootEnds` rests on. `IntactWithoutRequest`: a device that was never asked for anything starts only an
intact firmware, whatever is interrupted; finding 2 of section 5 is how a request spoils that.

**BleUpgrade_proofs** (assumes `LoaderAssumption` and `BleAssumption`). `OneAnswerCorrect`, `AckedIsWrittenCorrect`, `CheckedBeforeJumpCorrect`,
`FreshIsWholeCorrect`, and with the assumptions above `PsmSparedCorrect` and `BufferCorrect`, for any number of pages, sectors and transactions. The
difficulty is that the host, the two directions of the connection, the buffer and main_task each hold a part of what goes on. `WireInv` says
that one thing is under way at a time: the command the host waits for is travelling, in the buffer, being executed or answered. `EraseFlight`,
`PageFlight` and `ResetFlight` say for each command where its parts are and what an earlier connection may have left in front of
them: zeroes of an erase command, never a part of a reset command. `SessionInv` says that while a page is due the session that takes it is
open over Bluetooth, so that `PagesInv` can tell what is in the slot at each point of a fresh transaction. `ReachInv` bounds the loader's write address by the pages sent
and the failed transactions: that is `PsmSpared`. `RoomInv` bounds `rx_len` by a page and 12 bytes for each transaction, the length of the only command
whose rest survives a reconnection. `HostGetsOn` is about the script: `HostLeft` counts what is left of this transaction and of the ones that may
follow it; each step of the script makes it smaller and nothing else changes it, so that no failure starts the count again or leads back to the
scan. The rounds of the scan before the first transaction are not counted, as they change nothing and have no bound.

**SerialUpgrade_proofs** (assumes `LoaderAssumption` and `SerialAssumption`). `BufferCorrect`, `DoneIsWholeCorrect` and `NoFalseFailureCorrect`, for any
number of pages, of runs of the script and of handshakes kept. `IInv` has one part for each place the host can be in (`StartInv`,
`ShakeInv`, `SettleInv`, `SendInv`, `AnswerInv`, `DoneInv`), which says what is on the line, what is in the buffer, and whether the session is one that lives
(`Lives`), is stuck with the rest of an earlier run in front of it, or is off. `DoneIsWhole` rests on that: an answer can only come from a session whose
write address is where the host believes it to be. `FirstInv`, `RoomInv` and `FaultInv` are what is true of the first run only.

**ReceiveBuffers_proofs** (assumes `HeapAssumption`, an aligned heap of any size with headers of 8 bytes, and `BuffersAssumption`, by which what is
allocated at start-up fits and a receive buffer holds the header of a command). It has six parts.

1. *Sums.* `xFreeBytesRemaining` is compared with a sum over a set of blocks, which the community modules fold in the
   order in which CHOOSE picks. That the order makes no difference (`AnyFirst`, `SumAdd`, `SumRemove`) takes an induction on the size of the set; the
   library's induction theorems are out of reach, so the proof looks at the least size for which it would fail (`Induct`, from `WFMin`).
2. *One call.* `MallocCorrect` and `FreeCorrect`, for any heap: `HeapInv` is that the blocks tile the heap (`Tiled`), free ones are
   joined and the count is their sum (`Counted`). Malloc is a tiling with one block split in two (`SplitTiled`), and the rest inserted; free is a tiling in
   which a used block becomes free, and inserted. `InsertTiled` is the lemma both rest on: the joined block begins
   and ends where the pieces it replaces do, everything else lies outside of it, and neither neighbour can be
   free. `MallocCorrect` also says that what is granted is large enough and overlaps nothing in use.
3. *All tasks.* `HeapCorrect` and `BufferCorrect`: no interleaving of allocations and frees, dangling pointers included, breaks the heap or its
   count; the assertion in `vPortFree` is what that rests on, since freeing memory that is free, or the middle of a block, would.
4. *The lost buffer.* `AtMostOneLostCorrect`, for any number of connections. `LostInv`: what is lost is all one; the loader owns nothing before its
   first buffer; between `FreeFirst` and `AllocateBle` the first pointer dangles; and `AllocateBle` drops a buffer only if none is lost. It is lost
   when a handshake falls between `TestBuffer` and `AllocateBle`, which needs a loader without a buffer, and that it is only once.
5. *One link.* `OneLinkCorrect`, for buffers, messages, commands and a heap of any sizes, any number of messages and of connections. `OneLinkInv`
   follows each pointer through the sessions: what was allocated and not freed is a block in use, and none of them is both the loader's and a message's
   (`Disjoint`); what `bl_connected` is about to free is the loader's, and the two pointers differ (`Freeable`); where the interrupt and the receive
   callback write, a whole buffer lies (`Writable`), so that only what is longer than it can miss (`wild => Overrun`); and in the first session over Bluetooth the read of a serial command, which the change of interface
   can cause, takes the buffer of the connection, or one with nothing in it (`FirstSession`, `Command`). `MallocCorrect` enters as `MallocKeeps`: a
   block that is given was nobody's, so that no pointer in use is given twice.
6. *Both links.* `NobodysElseCorrect`, for the same sizes and numbers, from the same invariant: `Disjoint`, `Freeable` and `Writable` hold with both
   links in use, up to the second connection after a serial session, which is what finding 4 of section 5 is about.

**HciRx_proofs** (assumes `CountsAssumption`). `PacketsKeptCorrect`, `SlotsExactCorrect`, `ReserveKeptCorrect`, for any number of buffers, reserved
buffers, slots and packets. `AccountInv` says where every receive buffer is: in the pool, in `recv_fifo`, in the hands of the thread or kept for an incomplete
packet. `SlotInv` says what every slot is for. `WayInv` is about the sequence of everything on its way, from the thread's hands through
`recv_fifo` to the queue: it holds each accepted packet once and data in order (`Kept`); each step takes its head, appends to it, or removes one that is
not data from the middle, which `Kept` survives. `ReserveKept` is inductive given `AccountInv`, by counting the events in `recv_fifo` (`EventsTail`).

`ServedCorrect` rests on `Watched`: whenever something may leave the queue, a loop over it is under way or the thread is about to begin one. The second part of `Served`
follows from that by counting: with the thread asleep at most the buffer of an incomplete L2CAP packet is taken, two are not reserved, so that
anything may go, and the queue is empty. `WorkEnds` gives the thread's and the loops' work a size (`Work`: eight for a message that waits, five for a packet in a
buffer, and what is left of the turn), which every step of theirs makes smaller. Together they are the heart of `AllDelivered`: while something is undelivered there is a step to take, and
there are finitely many of them.

**ImageCheck_proofs** (assumes `DevicesAssumption` and `ImageAssumption`). `DeviceCorrect`, `VerdictCorrect` and `ChecksAsBootCorrect`, for any set of images, of any length, read
in pieces of any size, and any devices besides. `Orderly` is the invariant of the registry: the list holds exactly the registered devices, each
once and with different names, and the name of the hash device belongs to it. That makes every search by name find what the caller means
(`Finds`), whatever the loader's command or the UART's reopening did between. `DigestInv` says what the device has hashed, in which `Hashed(m + n)` is
`Hashed(m)` with the next n words appended; `PassedInv` says for each step of the parser what has been checked by then, with the checks the code makes and drops
left out (the theorem covers images whose signature does not verify, and says nothing against them), and `VerdictRight` follows at the steps that decide. The refinement then is short: `Boot`'s guards and its three ways out are
those of the verdict, since `Flow!Intact` of the mapped slot is `Sound /\ HashMatches`, and no other step touches what it is mapped from.

**SFlash_proofs** (assumes `SFlashAssumption` and `RealSizes`, literals because the provers know `\div` and `%` by literals only). `TypeCorrect`,
`EraseExactCorrect`, `ProgramExactCorrect`, `WithinPageCorrect`, for a flash of any size.
`EraseLoop` is the loop invariant: the loop stands at the first byte asked for, or at the end of
the sectors erased. TLC checks the same properties with sizes of 2, 8, 16 and 4.

**Only model-checked**: the six liveness properties (`HostEnds`, `LetsGo`, `BootEnds`, `HandshakeServed`, `ConnectionServed`,
`AllDelivered`), which are out of this prover's reach, and that the step that makes progress is enabled. Of three of them the heart
is proved: the ranking under `BootEnds` (`GetsOn`), `HostEnds` (`HostGetsOn`) and `AllDelivered` (`WorkEnds`, `Served`). The counterexamples
of section 5 need no proof.

## 5 What the models found

Each is a run that TLC ends with a counterexample; `PROJECT.json` quotes the line that says otherwise.

1. `ble_retry`, `upgrade_firmware.py:413`: a retried transaction sends what is left of the firmware, after an
   erase from the start of the slot, and then reports success. `DoneIsWhole` fails; `FreshIsWhole` and
   `AckedIsWritten` are what holds instead. The boot's hash check catches it, but the device has no image.
2. `boot_hash`, `main.c:541`: `g_user_hash_ignored` is never put back, so that the normal firmware that is booted
   after a requested one failed is not checked. Without any request it is (`IntactWithoutRequest`).
3. `image_sig`, `blsp_boot_parser.c:373`: what `sec_ecdsa_verify` returns is not assigned to the variable that is tested, so that the
   branch for a signature that does not verify (379) is never taken. `SignatureVerified` fails with an image that is right but for a signature of another
   key; everything else about it is checked.
4. `buffers_free`, `bflb_eflash_loader_ble.c:143`: after a serial session every connection frees the second buffer, and none
   sets its pointer again; the second connection frees memory that is free, where the heap asserts (`heap_5.c:264`) and the
   BLE task hangs. If a message was given that block meanwhile, the second connection frees memory that is someone
   else's; `NobodysElse` is about the time before it.

The models also show limits that no run states as a violation:

* An application that a session wrote between the check and the jump is started unchecked (condition of `CheckedBeforeJump`);
  retries move the write address on (`PsmSpared`); a request in the mfg partition for an image that does not
  boot is repeated for ever (`BootEnds`); after a serial session no handshake can be relied on before a reset
  (`HandshakeServed`).
* Both receive callbacks copy what they are given without a bound (`bflb_eflash_loader_uart.c:70`, `bflb_eflash_loader_ble.c:85`; the latter looks
  at the count, but not at what it adds). For the script over Bluetooth, and in the first run over the serial line, what arrives fits; after a run
  that lost a byte the handshakes of the next one go past the end of the serial buffer (`RxFits` is about the first run for that reason).
* A request of the mfg partition is copied over one of HBN_RSV0 without a terminator, so that the tail of a longer name stays (`main.c:396`);
  names are atoms in `BootFlow`.
* A firmware of exactly the size of the slot passes the script's check, and the erase, one byte too long, takes the first
  sector of the PSM partition (`upgrade_firmware.py:349`, `bflb_eflash_loader_cmds.c:523`); the copy of a firmware does not compare its length with
  the slot's at all (`main.c:247`).
* `blsp_boot2_deal_one_fw` returns the same for an entry it did not find or could not copy as for one that is ready (`main.c:340`).
* An image in segments is not hashed and not valid, but no error either: the jump that follows ends in a
  loop without the loader (`blsp_media_boot.c:363`). What `flash_read` returns is dropped there (`:317`).
* `bl_connected` tests the buffer pointer and allocates while main_task may do the same for a handshake: a buffer is lost
  (`AtMostOneLost`). The pair's second pointer may be NULL or dangling when the interrupt or a read uses it (`OneLinkIsSafe`).
* `vmalloc` has no memory to give, as `simple_malloc_init` is commented out everywhere: the loader's SHA command
  (`bflb_eflash_loader_cmds.c:609`) reads the flash to address 0.
* The loop of `bl_trigger_queued_msg` is left with the lock taken (`bl_hci_wrapper.c:219`); two receive buffers, which
  the configuration allows, are not enough: with an incomplete L2CAP packet in one and the reserve in the other `Served` and `AllDelivered` fail. Events may
  overtake events that wait; the eleventh message that waits is asserted away (281), and the copy of a message is not checked for NULL (287).

## 6 What is not modelled

* **Most lines of the repository.** It holds some 203,000 lines, nearly all of them vendored or generated: the Bluetooth host, FreeRTOS, mbedtls,
  register headers, drivers of the whole chip. The program of this repository, its loader and its script are a few thousand, and those are what the
  modules map, with the parts of the libraries that carry what they rely on. The Bluetooth host's
  protocols (GATT, SMP, L2CAP) are used with one service and no pairing; `BleUpgrade` takes their order and delivery as given.
* **Host to controller**: the transmit buffers and the count of completed packets. `bt_recv` is assumed not to wait for them.
* **The other allocators**: `drv_mmheap.c`, the C library's `malloc`, which nothing in the bootloader calls, and the pool of
  `xz_port.c`, which is never set up.
* **Starting and stopping the Bluetooth stack** (`bt_enable`, `bt_disable`), advertising, and what the controller's binary does.
* **Ring buffer**: compiled in, used by the USB driver alone, which is not started.
* **Decompression, rollback, the RAM loader's commands**: not compiled in.
* **Encrypted images** beyond their IV: selecting keys and starting the AES engine only write registers. **A second
  CPU**: the BL702 has one.
* **The handlers that read**: reading flash, JEDEC id, flash parameters change no state.
* **Soft CRC, lists, other peripherals, third-party components, tools and binaries**: pure computation, register access,
  vendored or generated.

Assumptions made where the code alone does not decide: a CRC, a hash and a checksum catch every content
but the right one; a NULL `g_eflash_loader_readbuf[1]`, read by a second frame of a connection, does
not look like a command (`BleUpgrade`; in `ReceiveBuffers` it may); a firmware is not longer than its slot; flash reads succeed; time enters as the
guards named in the modules.

## 7 Plan

The order was: the partition tables, since losing them loses the device; the upgrade over Bluetooth, where most
actors meet; the boot flow; the serial line; the flash driver; the image check; both transports at once on the heap; the
packets from the controller. What is left:

1. **tables** with two updates per read and a third entry, where `CommitInv` needs its condition.
2. **Host to controller**: completed packets and the transmit buffers, for which `bt_recv` may then wait.
3. **The ring buffer**, with its reader and writer interleaved.
