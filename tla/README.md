# A TLA+ model of cocos_socket

The repository is a cocos2d-x/Lua game client template whose own code is the
network layer in `src/runtime-src/Classes/plazz` (`CClientSocket` over asio,
`CClientKernel` for packets and keys), the packet object `CCmd_Data` that Lua
fills and reads, a 64-bit integer type for Lua, an FFmpeg video sprite, and the
`Client` class that starts and restarts the game. There are no tests, and the
documentation is one line, so the code and asio's documented contracts are the
reference. All paths below are relative to `src/runtime-src/Classes`.

## Inventory

| Component | State | Operations | Hard behaviour | What makes it correct |
|---|---|---|---|---|
| `plazz/ClientSocket` | `m_nHandle`, `m_bClosed`, `m_bIsAlive`, `m_pendingList`, `NetBuffer`, its own `io_service` and socket, a reference count | `Connect`, `SendSocketData`, `StopServer`, `Poll`, the four completion handlers, the Lua bindings | handlers call Lua, Lua calls back into the object; completions queued before a close run after it; the object frees itself from `Poll` | Lua hears connect, data, error in order and nothing after a close; one read and one write at a time; packets sent in packing order; freed exactly once, when idle |
| `NetBuffer` (in `ClientSocket.h`) | two fixed areas, a heap buffer, length, capacity | `Resize`, `ExpandBuffer`, `ResetHead` | growth, reuse for every packet | capacity at least what was asked, live bytes kept |
| `plazz/ClientKernel`, `plazz/QPCipher` | send and receive round, send and receive key, packet count, four fixed buffers | `pack`/`EncryptBuffer`, `unpack`/`CrevasseBuffer`, `OnSocket*Event` | two chained keys that the server must mirror; the first packet differs; padding; a heartbeat Lua never sees | what one end packs the other unpacks, for every sequence of packets; buffers never overrun |
| `common/CMD_Data` | buffer, length, cursor, auto-length flag, command ids | `create`, `PushByteData`, `push*`, `read*`, `ResetCurrentIndex` | 16-bit lengths, growth, a length that depends on the cursor | cursor within the buffer; reads return what was pushed, or fail without moving |
| `common/Integer64.h` | the value, the autorelease | arithmetic, `pow`, comparison, shifts, `getstring`, `tostring` | width, division by zero, the smallest number, objects kept beyond their frame | agrees with arithmetic modulo 2^64; strings read back; a freed object is an operand of zero |
| `FFmpegVideoPlayer` | FFmpeg handles, loop flag, timer | `create`/`init`, `play`, `stop`, `updateTimer`, destructor | end of file, reads and seeks that fail, half-failed and repeated `init`, calls whose failure is not looked at, stopping from its own timer | which missing handles can be used, and what is left allocated; pictures in the order of the file; a looping player goes on |
| `Client`, `AppDelegate` | the Lua engine, the scheduler | `LoadGame`, `RestartGame`, background and foreground | restart while sockets are open, from inside the update that polls them | no callback into an engine that is gone; no timer of a freed socket |
| `common/MD5` | buffer, two-word bit count, digest | `update`, `finalize`, `hexdigest`, in two classes | pieces of any length, the count's carry, finalizing twice | the blocks transformed are those of the padded message, however it was cut |
| `common/base64` with `Client` | none | `base64Encode`, `base64Decode`, `isBase64String` | incomplete groups, `=` in the middle | decoding gives back what was encoded, and whole bytes of any other text |
| `common/StringUtil`, `LuaAssert` | none | string helpers, iconv wrappers | none of its own | - |
| `ide-support`, `proj.win32` | simulator settings | menus, configuration | none of its own | - |
| `common/asio`, `common/cjson`, `common/utf8`, `hash`, `../ffmpeg` | vendored | | | asio's contracts are modelled as `ClientSocket` uses them |

Interaction: Lua creates a socket with a function reference, connects it and
sends `CCmd_Data`; the cocos2d-x scheduler calls `Poll` once per frame, which
runs asio's completed handlers; a handler hands packets to the kernel, which
unpacks them and calls the Lua function; that function may connect, send or
close the very socket whose handler is running. All program code runs on the
main thread; only the operating system runs beside it.

## Modules

| Module | Content |
|---|---|
| `ClientSocket` | the socket object, asio as it uses it, the frame loop and the lifetime; also the `Variant` forms of operators, each a plausible mistake that the named property would catch |
| `ClientSocketProperties` | its invariants, action and liveness properties, and the mapping to the contract |
| `SocketContract` | the abstract specification: a channel that opens, delivers, accepts and closes |
| `ClientSocketInvariants` | the inductive invariants behind those properties |
| `MCClientSocket` | the TLC instance, used by four configurations |
| `ClientSocketProofs` | typing, lifetime, what Lua hears, reads, writes and deliveries, and that `ClientSocket` implements `SocketContract`, proved |
| `ClientKernel` | `pack` and `unpack` with the byte map, the rounds and the two key chains, against a server that mirrors them; its properties |
| `MCClientKernel` | the TLC instance: blocks of two bytes of two bits |
| `ClientKernelProofs` | that decryption undoes encryption, and all properties of `ClientKernel`, proved |
| `KernelBuffers` | the four fixed buffers of the kernel and the loop of `OnSocketDataEvent` |
| `KernelBuffersProofs` | its properties, proved |
| `NetBuffer` | the receive buffer that moves to the heap and grows, with the read that fills it |
| `NetBufferProofs` | its properties, proved |
| `CmdData` | `CCmd_Data`: pushes, reads, growth, 16-bit lengths and cursor |
| `PacketTape` | the abstract specification of a packet: a tape of bytes with a position |
| `CmdDataProofs` | bounds, and that `CmdData` implements `PacketTape`, proved |
| `MCBuffers` | the TLC instance of `NetBuffer`, `KernelBuffers` and `CmdData`: a behaviour is one of any of them, as they share nothing |
| `SocketLifetime` | several sockets, the scheduler, the autorelease pool, `RestartGame`, background and foreground |
| `SocketLifetimeProofs` | its safety properties, proved |
| `VideoPlayer` | the player's handles, `updateTimer` step by step, and libav as it uses it |
| `MCVideoPlayer` | the TLC instance, used by four configurations |
| `VideoPlayerProofs` | handles, the order of the pictures and where a file is left, proved |
| `Integer64` | the numbers of Lua at a width of `W` bits |
| `MD5Digest` | the block buffering of the two MD5 classes |
| `Base64` | the loops of `base64.cpp` and their callers in `Client` |
| `MCValues` | the TLC instance of these three: a behaviour is one of any of them, as they share nothing |
| `ValuesProofs` | that numbers compute modulo the size, and that every number, text and digest is that of what it was made from, proved |

### How `ClientSocket` corresponds to the code

- `m_nHandle`, `m_bClosed`, `m_bIsAlive` and `m_pendingList` are the fields of
  the class. `Handler` is a positive number because `toLua_Client_Socket_create`
  passes a reference of the Lua registry, and 0 stands for none.
- A packet is known by its pack number: `kernel.pack` numbers what it packs
  (`m_dwSendPacketCount`), and nothing but its identity and order matters here.
  `wire` is the history of what the network took, `received` of the headers read.
- `headBuf`/`bodyBuf` say whose header and body `NetBuffer` holds;
  `do_read_header` clears the first (`ResetHead`) before the next read.
- A server packet has one of four `Kinds`: with a body, without, the (0,1)
  heartbeat `unpack` keeps to itself, and a header whose `wPacketSize` is below 8.
- `readOps`, `writeOps` and `sock` are asio's operations in progress and the
  descriptor; `ready` is the handler queue of `m_ios`. A failed start posts its
  handler; `close()` posts the handlers of everything outstanding as failed.
  Aborted handlers are posted at once, which is what the reactor back ends do;
  the IOCP back end posts them a little later, an order the other failure
  actions already allow. Writes on a connecting socket wait (reactor) or fail
  (IOCP): `FailWrite` covers the second.
- `pc` is the main thread: between frames' work, in `Poll`, or in a Lua function
  a handler called; `cont` is what that handler does when Lua returns. `Poll`
  runs handlers until the queue is empty, including those queued meanwhile.
- `createSocket` does `new`, `autorelease`, `retain`: `refs = 2` with `pooled`.
  The pool is drained at the end of the frame, and a timer's first update only
  starts its clock, so `Poll` never runs with the autorelease still to come.
- An `io_service` stops itself when it has no work left; a live socket always has
  work (`LiveSocketListens`), and a closed one is not polled any more, so this
  has no state of its own.
- Each socket has its own `io_service`, kernel and buffers and they share
  nothing but the thread: one object is modelled.
- `SendSocketData` writes at once when the list was empty, else the write
  handler does; `do_write` does nothing once the socket is not alive.
- Undefined behaviour is a choice: `pop_front` on an empty deque goes unnoticed
  or ends the program (`pc = "dead"`), and so does the unpacking loop on a
  zeroed header.
- A reconnect inside a callback can leave two reads outstanding. The model then
  still hands the bytes of a body only to a body read; since the Lua function is
  gone by that time, nothing that Lua sees depends on it.

### How `ClientKernel` corresponds to the code

- A message is the command and the body; the command is one block (a `DWORD`).
  `CMD_Info` in front of it is the packet's `mapped` bit (`cbVersion` against
  `getCipherMode`) and the length of `bytes` (`wPacketSize`). `cbCheckCode` is
  left out: the client computes it and checks none.
- `EncryptBuffer`'s loop makes `c[j] = plain[j] xor key` and the next key from
  `c[j]`; the operator states this of all blocks at once (`Chained`), which
  determines `c` (`OnePacket` proves that there is exactly one). `ZeroMemory` is `Padded`; the bytes sent are those of the
  message's length, so the tail of the last block never travels.
- `CrevasseBuffer` completes that tail with bytes of the key of that very block
  (`Restored`), because the padding was 0 before the key went in.
- `FirstKey` is a constant because the code makes it from a fixed seed (the tick
  count is commented out). It travels in the clear behind the first command; here
  it is the packet's `key`.
- The tables, xor and the key step (`SeedRandMap` of both words, xor
  `g_dwPacketKey`) are constants with the laws of `CipherAssumption`. The laws
  are what decryption needs, and no more.
- The server is external. That it encrypts only once it has read the first
  packet is what the client relies on: before that it cannot know the key.
- The order and completeness of the wires is what `ClientSocket` shows
  (`WireInOrder`, `DeliveredInOrder`); a lost connection ends both chains, as
  the object is not used for another one.

### How `KernelBuffers` corresponds to the code

- `used` is how far the last use of each buffer reached: `mBufRecieve`, the copy
  `cbDataBuffer`, `mBufUnPack`, and `PACK_DATA::data` (`pack`). What the bytes are
  is in `ClientKernel`.
- `pack` pads without counting it in the size, and inserts the key of the first
  packet by moving as many bytes as the whole packet has from behind the header, so
  12 bytes more than the packet are touched. The buffer size handed to
  `EncryptBuffer` is never looked at.
- Nothing limits a size: Lua may send and the server may announce any `WORD`.
  `InBounds` says exactly which sizes the buffers hold: at 1024, a first packet of 1004
  bytes of data, later ones of 1016, and received packets of 5128. Any sequence within
  these limits stays inside all four buffers, and the first size beyond one of them is
  written over an end. What follows is undefined, so a behaviour ends at `Overrun`.
- A received packet has at least a header, as `do_read_header` hands on no header that
  announces less.
- `nHandler` is a copy in the code, so the loop itself does not see a close; the
  model's loop does not look at it either.

### How `NetBuffer` corresponds to the code

- A heap block is the number of its allocation, block 0 is `m_sbuf`; `heap` keeps
  every size and `freed` counts the frees, so leaks and double frees are visible.
- `ReadBody` is the `Resize` and `async_read` of `do_read_body`, with one read
  outstanding (`OneOpPerDirection` in `ClientSocket`); `ReadEnds` covers success,
  failure and abort, which leave the buffer alike. `m_datalen` is 0 when
  `ExpandBuffer` runs, so it copies nothing. `malloc` is taken to succeed.

### How `CmdData` corresponds to the code

- `m_pBuffer` is a function on the offsets `0 .. m_wMaxLenght - 1`; lengths and
  cursor wrap at `WordMod`. Lua pushes one payload at a time: numbers of any width
  and strings are members of `Payloads`.
- Lua gets a text up to its first 0, as `lua_pushstring` ends there, while the cursor moves
  over all of the bytes. `readstring(n)` hands the text on through iconv: `a_u8` is a
  constant, any function of the text, because `LuaAssert.h` is a conversion by the system.
  The second array that this call allocates is never freed, which the model does not count.
- A call that leaves its buffers sets `fault` and ends the behaviour, as nothing
  is known of what follows: `readshort` and `readtchar` of more than there is, a
  push whose 16-bit sum wraps, the digest written by `pushmd5`.
- A packet created without a length is followed until a push asks for more than
  `Limit`, that push included. `GrowthIsSafe` says growth is right up to there; with
  `4 * Limit < WordMod` the theorem gives the bound for the code, a quarter of 65536.
- `PacketTape` knows no buffer: `IsTape` maps the packet's bytes, padded with zeros,
  to the tape, its cursor to the position, and any fault to `broken`. Whether a call is
  done, refused or outside the limits is settled by what it asks for: `Refuse` needs an
  empty push or no room, `Break` one of the cases of `Breaks`.

### How `SocketLifetime` corresponds to the code

- A frame of the scheduler is `UpdateStart`, one action per timer, `UpdateEnd` with
  the drain of the pool. Timers run in any order; the first update of a timer only
  starts its clock; a timer added during the update may have its turn at once.
- `RestartGame` schedules a lambda 0.1 s ahead on the running scene. When it fires
  it unschedules every timer, removes the engine and loads the next game in one step
  (`RestartFires`); replacing the scene takes it away (`SceneReplaced`).
- Lua of an earlier game is gone, so only sockets of the current one are `Usable`.
  Their sockets stay allocated, open or closed: `OldGameIsLeft` says nothing touches
  them again, which also means nothing ever frees them.
- What a handler does to the flags is `StopServer`, `Connect` or the close after a
  failure; everything else about it is in `ClientSocket`.

### How `VideoPlayer` corresponds to the code

- A file is its sequence of packets: a picture, a packet the decoder rejects, or
  sound. `decoder` holds the pictures it has not given yet, at most `Delay`.
- `updateTimer` is followed through its loop: `Tick`, one action per packet read,
  `Scale`, `TickEnd`, with `got` as `got_picture` from its initial -1. `init` ends
  with a first tick.
- libav is external: opening frees the context it cannot open, the decoder lags behind,
  `av_read_frame` fails as it ends (`ReadFails`), and so does `av_seek_frame`, whose result
  line 196 does not look at. Whether a decoder keeps what it holds over a seek without
  `avcodec_flush_buffers` is not said by its documentation, so `keeps` is either.
- A handle is its kind and the call of `init` that acquired it. `ptr` is what the object
  points to, `live` what is allocated, the opened input, the opened codec and the texture
  included.
- `init` ends with one of its early returns, or `Completed`: also when `sws_getContext` or
  `avpicture_alloc` gave nothing, which the code does not look at (lines 131 and 143). Lua may
  call it whenever it likes (line 292 has no guard); what the object pointed to is then
  `Overwritten` and stays allocated. `MaxInits` bounds the calls.
- `pc = "dead"` is the use of a handle that is not there, for two reasons (`NoMissingHandle`): an
  object whose last `init` returned false, which `create` never hands out, or one of those two
  unchecked results. Ticks after an `init` that returned false are not followed further: they use
  what is missing, or handles of two files at once.
- `failed` and `cut` are histories: what failed in the last tick, and whether the file was ever
  rewound before its end. The properties are exact about them: `PicturesInOrder` allows a pass to
  begin early only after such a rewind or with a decoder that loses what it holds.
- Left out: `data[videoIndex]`, the plane line 186 indexes with the number of the stream.

### How `Integer64` corresponds to the code

- Two objects, a width of `W` bits, and one operation at a time whose operands and
  result are kept in `answer`. Overflow wraps as the builds compile it. A quotient
  that does not fit (the smallest number by -1) and a division by zero are faults.
- Objects are autoreleased where they are made: `FrameEnds` frees them and ends `answer`. Operators
  then read zero (`toint64` checks the userdata). `setvalue` with a number and `__tostring`
  (`tostringfun`) follow the pointer unchecked, which is a fault.
- `Power2` are the powers of two of the width and the shifts. A power is multiplied out
  for comparison up to the exponent `MaxExponent`, a bound of the property, not of `pow`.
  The 32 places of `getstring` in base 10 are left out: 64 bits have 19 digits.
- `getstring` reads back exactly in bases 2 and 16. In base 10 the smallest number
  is negated to itself, and in base 8 a last, incomplete digit is lost, as 64 is no
  multiple of 3: `StringsReadBack` states these two exceptions.

### How `MD5Digest` corresponds to the code

- Byte i of the message is the number i, so `BlocksAreTheMessage` compares the
  blocks that were transformed with the message itself. The transformation is left
  out: the digest is the sequence of the blocks.
- `count` has two words whose low one wraps; `Word` is small enough to wrap within
  the bound. `class` chooses between the two classes, which differ in `finalize`.

### How `Base64` corresponds to the code

- The loops take one byte or character per step. A missing character of the last
  group is looked up as a zero byte, which `base64_chars` does not have: its index
  is `npos`, 255 in a byte, and not 0.
- A behaviour is one call, or a call of `base64Encode` and the decoding of what it
  gave; a call keeps nothing, so more of them add nothing.

## Runs

Bounds: `MaxSend` packets from Lua, `MaxRecv` packets from the server, `MaxReopen`
calls of `connectSocket` on a closed socket.

| Run | Bounds | Shows |
|---|---|---|
| `socket_single` | 3, 3, 0 | deliveries, wire order, the flow of reads and writes, and the refinement of `SocketContract` for a socket used for one connection (49 670 states) |
| `socket_reopen` | 2, 2, 1 | what Lua hears and when the object is freed, also when it is reconnected; a closed socket is freed, accepted packets are sent or the socket closes, failures close it (139 020 states) |
| `kernel` | 3 packets from Lua, 3 from the server | each end reads what the other sent, with heartbeats swallowed and keys and rounds in step (84 322 states) |
| `buffers` | the receive buffer: a static area of 3 bytes, twelve lengths up to 30; the kernel: its real size of 1024, data of 0 to 65535 bytes, packets of 8 to 65535, 3 packed; packets of Lua: words of 22 values, 0 to 22 bytes, two payloads | reads fit and blocks are freed once; which sizes overrun the kernel's buffers, one packet per call, no call after a close; cursor and growth in bounds, and the refinement of `PacketTape` (222 538 states) |
| `lifetime` | 2 sockets, 3 games | no dangling timer or stale callback, closed sockets are freed (19 004 states) |
| `video` | five files, a decoder one picture behind, two calls of `init` | handles, order of the pictures, the end of the file, looping for ever, with reads and seeks that fail (118 809 states) |
| `values` | 16 bits, nine numbers at the edges (`Edges`), powers compared to exponent 20, one method that changes an object; blocks of 8 bytes, words of 128, messages to 42 bytes, two calls of `finalize`; strings to 5 bytes out of 5, texts to 8 characters out of 4 | every operator, method and base; digests do not depend on the pieces; encoding and decoding, `=` anywhere (218 302 states) |
| `socket_write_buffers` | violation | a finding, see below |
| `socket_reset_in_poll` | violation | a finding, see below |
| `video_sound` | violation | a finding, see below |
| `video_input` | violation | a finding, see below |
| `video_flush` | violation | a finding, see below |

Three packets in each direction let a packet be in the list, one in flight and
one on the wire at once, and let a header, a body and a delivered packet differ;
the properties relate neighbouring packets, so more add no new case. A
second reconnect only repeats the first, since `m_bClosed` stays set.
For the kernel, three packets each way make a first packet, one that starts from
its last key, and one that starts from a chain two packets long; the lengths are
a command alone, half a block of body (padded) and a whole block. A round advances
by 3 modulo 4, so it wraps inside packets.
In `buffers` the kernel's sizes are those at, just below and just above each limit, a word's
largest, and some that pad by 0 to 3 bytes. The lengths of the receive buffer lie below, at
and above the static area, and far enough apart for several growths. In a packet of Lua
a word wraps within reach of two pushes, so 16-bit sums that overflow happen. Two
sockets let one be polled while the other is closed or created, and three games let
a socket outlive two restarts. Two calls of `init` let a second file replace the first, also
while it is playing; a third repeats that. The files of `video` put a rejected packet, sound and
nothing at all where a picture could be, at the start, between and at the end.
Sixteen bits leave one over in base 8, as sixty-four do. Messages of 42 bytes pass the
point where the low word of the count wraps and where padding needs a second block.
Five bytes make a whole group and every incomplete one, and eight characters two
groups with `=` in either.
Deadlock checking is off because a freed object, and a socket waiting for a
silent server once all bounds are used, really stop; so do two ends of the kernel
with nothing left to send, a deleted buffer or player, a faulted packet, and a
function that has returned.

Fairness (`FairSpec`): the frame loop goes on (`PollStart`, `PollEnd`,
`DrainPool`), queued handlers run (`RunHandler`: `io_service::poll` does not
return before), Lua functions return, and the operating system ends every
connection attempt and every write with success or an error. No fairness is
assumed of reads or of Lua: a server may be silent, and Lua may never
call anything.

`SocketLifetime`: frames go on and Lua functions return (`WF_vars(Frame)`; the
action is disabled in the background, where `stopAnimation` stops them), so
`ClosedIsFreed` is stated for an app that stays in the foreground. `VideoPlayer`:
the scheduler goes on calling the timer of a running node (`WF_vars(updateTimer)`);
nothing is assumed of Lua, so the liveness properties are about a player that is
left running. Nothing is assumed of libav either but that its functions return: `LoopsForever`
is about a file whose reads and seeks fail no more from some time on.

### Findings

- `WriteBuffersValid` is violated: `do_close` clears `m_pendingList` while the
  `async_write` of its front, or that write's queued handler, is outstanding.
  asio requires the memory to stay valid until the handler is called
  (`common/asio/asio/write.hpp:386-387`), and a handler already queued with
  success pops the empty deque.
- `NoResetWhilePolling` is violated: `closeSocket` and `connectSocket` in one
  callback reset the `io_service` whose `poll()` is running that callback,
  which asio forbids (`common/asio/asio/io_service.hpp:69-70`).
- `NonzeroIsPicture` is violated: `got_picture` starts as -1, a packet of another
  stream leaves it so, and line 185 takes any nonzero value for a picture. A tick that
  begins with a sound packet then rewinds or stops the player. libav says zero
  if there was no picture, otherwise nonzero.

- `InputIsClosed` is violated: the destructor (line 52) frees the format context with
  `avformat_free_context`, and neither it nor a second `init` calls `avformat_close_input`, so the
  file stays open. libav's documentation asks for it (`avformat.h:2270`).
- `FlushedWhenSeeking` is violated: line 196 rewinds without `avcodec_flush_buffers`, which
  "should be called e.g. when seeking" (`avcodec.h:5609`). A flush alone would lose the pictures
  that the decoder holds at the end of each pass, because the player never asks for them.

The headers of libav are those of `../ffmpeg/win32/include`. A player that stops at the end of the
file also leaves the decoder's last pictures unasked for; that has no run of its own.

Behaviours that no document contradicts, and which the properties state as they are:
`getstring` in base 8 loses the last bit and in base 10 prints the smallest number
without its digits; an `Integer64` kept beyond its frame is an operand of zero, and
a fault in `setvalue` and `tostring`; the sockets
of a game that was restarted are never freed; a socket closed before it was ever
connected is never polled, so never freed; `base64Decode` gives what stands before
the first `=`; `getTimeInMilliseconds` passes through a 32-bit int.

## Proofs

The results about `ClientSocket` are for every `Handler`, every subset of `PacketKinds`
and all bounds, from `SocketAssumption` alone.

- `TypeCorrect` (`Spec => []TypeOK`). `TypeOK` is not inductive: `DrainPool`
  subtracts a reference, so `PoolCounted` (`pooled => refs = 2`) is added.
- `FreedIdle` (`Spec => []FreedOnlyWhenIdle`), on top of these two.
- `EventsInvariant`, from which `EventsInOrder` (`[]EventOrder`) and
  `NothingAfterClose` (`SilentAfterClose`) follow. `EventOrder` alone says nothing of
  what is still queued. `EventInv` adds: a closed object has no Lua function
  (`Quiet`); and while it has one and is not about to close (`Hearing`), there
  is at most one connect outstanding or queued, Lua has then heard nothing, and
  every outstanding or queued read means it has heard "connect" (`Heard`). A
  close makes `Hearing` false for good, so closing steps need no more than
  that; every other step is one of four shapes (`QueueStep`, `ReadStep`,
  `CallStep`, `CompleteStep`), each a lemma.
- `DirectionsInvariant`, `Spec => [](LifeInv /\ WriteInv /\ ReadInv)`: the three need each
  other, as whether a handler may start an operation depends on what is in flight.
  - `LifeInv`: an object that is not `Open` (alive and not closed) has nothing in asio,
    and one that was never connected has no history at all.
  - `WriteInv`: one write at most is in flight (outstanding, or its handler queued); it
    carries the front of `m_pendingList`; a list that is not empty has one; and the list is
    the run of pack numbers after the last one known to be written (`Backlog`). What the
    network took runs one ahead of that while the write's handler is queued. From it
    follow `WiredInOrder` (`WireInOrder`) and `NoLostWakeUp` (`WriterBusy`).
  - `ReadInv`: from the connect on, exactly one thing leads to the next read (the connect,
    a read, a queued handler, or a handler waiting for Lua to return), and which it is
    tells what `NetBuffer` holds and what the server's framing makes due. From it follow
    `ReadsAreFramed` (`Framed`) and `NeverDeaf` (`LiveSocketListens`).
  - `OneOperationEachWay` (`OneOpPerDirection`) needs both.
- `DeliveriesInvariant`, then `PacketsInOrder` (`[]DeliveredInOrder`). A packet that Lua has
  not got is either the last one received or not meant for Lua (`DealtWith`), and
  while its handlers are to run it has not been given (`InProgress`), so it is never given twice.
- `ErrorsAreReported`: a handler that closes when Lua returns has just said "error".
- `SocketImplementsContract` (`Spec /\ []SingleUse => ImplementsContract`). `PhaseOf` gives the
  phase of the channel in every state; then each action is a step of the contract or leaves
  its variables alone. The close is the step that needs most: `ErrorInv` to know that Lua was
  told, and `EventInv` to know it is told nothing more. The hypothesis is there because the
  contract is about one connection, and a closed object that is connected again is
  not one; `OneConnectionImplementsContract` discharges it for `MaxReopen = 0`. All other
  theorems hold with reconnects, where `OneWrite`, `OneListen`, `WireOrdered` and
  `AtRest` are the parts that are stated for the first use only: in a callback that closes and reconnects
  a second operation does start beside the first.

`SocketInv` is the conjunction of these invariants. TLC finds it to hold in every state of
`socket_single` and `socket_reopen` (add `INVARIANT SocketInv` to `MCClientSocket.cfg` or
`MCClientSocketReopen.cfg`).

Only model-checked, of `ClientSocket`: the three liveness properties.

`ClientKernelProofs` has all properties of `ClientKernel`, for every byte and block
size, tables, key generator, keys, message sets and bounds, from
`KernelAssumption` and `CipherAssumption`:

- `RoundTrip`: `CrevasseBuffer` undoes `EncryptBuffer` and ends with the same key.
  The argument: all blocks but the last arrive whole, so every block's key is
  known; the last block's missing bytes are its key's bytes, since xor with 0 is
  the identity; then xor and the byte map undo themselves. Under it lies
  arithmetic of `div` and `mod` (`TurnBack`, `BlockOfByte`, `ByteOfBlock`).
- `KernelInvariant`: what the properties say at the ends is not inductive while
  packets are under way. `Chain` says that a receiver which reads them one by one
  from its own key and round ends at the sender's; before the server has the key,
  everything on its way to Lua is in the clear (`DownInv`), so the client may
  change its receive key at the first `pack`. `ChainAppend` is a send, `ChainTail`
  a receive, and each serves both directions.
- `ServerReadsLua`, `LuaReadsServer` and `KeysInStep` follow.

`EncryptBuffer` of the model states what the loop ends with; `OnePacket` proves that exactly
one cipher text does, by induction over the blocks, so the model never holds a message back
and chooses nothing.

`KernelTypes` is the type invariant, from the same `KernelInv`. The type invariants of
the modules with proofs, `GrowthDoubles` of `NetBuffer` and `DrainIsFirst` of
`SocketLifetime` are proved and not among the runs' properties; of those modules only
`ClientSocket` has its types checked by a run as well.

The other proof modules follow one pattern: an inductive invariant, a lemma per
action or group of actions, and each property from the invariant.

- `KernelBuffersProofs` (from `BufferAssumption`, which limits no size): `InBounds` and
  `NothingIsKept` need each other. `LoopInv` says that `mBufRecieve` is empty, or holds the one
  packet this call brought, to an open socket: then that packet can always be taken,
  and room is never shared between two. `LimitInv` is the converse, that these limits are the least: what is beyond them has been
  written over an end, unless it is the packet that still waits in `mBufRecieve`.
  The buffer's size being a multiple of 4 is what makes the padding fit. `NoCallAfterClose`
  follows from the same.
- `NetBufferProofs` (from `NetBufferAssumption`): the invariant adds that an
  outstanding read is into the block in use.
- `CmdDataProofs` (from `CmdDataAssumption`, for every word size and every conversion `a_u8`): cursor
  and growth, and `PacketIsTape`, the refinement of `PacketTape`, one lemma per kind of call.
- `SocketLifetimeProofs` (from `LifetimeAssumption`, for any number of sockets): `LifeInv`
  relates, per socket, references, pool, timer and game (`SocketInv`), and says what the
  thread's position implies (`ThreadInv`).
- `VideoPlayerProofs` (from `VideoAssumption`, for every set of files, `Delay` and number of calls
  of `init`): `Owned` says that the object points to live handles only, and what else is live;
  `Objects` relates the handles to what the last `init` returned, `Ticks` what `got`, `pos` and
  `failed` are at each place of `updateTimer`, and `Stream` what the decoder holds, for the types
  (`VideoTypes`). `PicturesAreInOrder` (`PicturesInOrder`) needs `Pictures`: the frame shown and what
  the decoder holds are pictures of the file that follow each other (`Consecutive`), and none lies
  between the last one the decoder was given and the place in the file, or the file was
  rewound after its last picture (`NoneSkipped`). Where the file was rewound too early or the
  decoder lost something (`Loose`), a first picture may follow any.
- `ValuesProofs` (from `ValuesAssumption`, for all bytes, characters and lengths): `EveryTextReadsBack`
  (`TextsReadBack`). `CharAt` and `DecodedByte` say, without the loops, what character n of an
  encoding and byte n of a decoding are; `TextInv` says that the loops have made so much of it as
  they have taken groups, that the group being collected is what was taken last, and that what
  Lua holds is an encoding. `EncodedBits` and `DecodedBits` bring this to RFC 4648's strings of
  bits, over the 24 bits of a group (`GroupBits`, `ByteBits`); `EncodingReadsBack` joins the two.
  `EveryDigestIsOfTheMessage` (`DigestsAreOfTheMessage`) holds for blocks of any size above 2, words
  of any width that blocks divide and pieces of any length. `Holds(m, t)` says that the blocks and
  the buffer are the sequence t and the count its length; `UpdatedHolds` is the step: whatever is
  held, after `update` it and the piece are held, by `ShortPiece` when the buffer is not filled and
  `LongPiece` when it is. `CountedIs` is the carry, `PaddedIs` that padding ends on a block.
  `DigestInv` adds what follows a finalised MD5: its blocks stay in front (`Follows`).
  `EveryNumberIsModular` (`NumbersAreModular`) and `EveryNumberReadsBack` (`StringsReadBack`)
  hold for every width that is a multiple of 4, 64 among them, any numbers and any bounds. `NumberInv` is the
  types and, of the last answer, what the properties say (`Sound`), freed operands included, as the
  objects may have changed since; one lemma per operator. What had to be done first is recursion: `Power2`,
  `pow64`, `Decimals`, `Value` and `Power` are recursive functions, and that such a function
  exists at all is to be proved. `Recursion` proves it for every definition that looks at smaller places only
  (`LooksDown`), from the smallest element of a set (`HasMin`, `StrongInduction`: induction as a
  fact about a set of numbers, which needs no operator parameter). Then `PowIsPower` is square and
  multiply against plain multiplication, `DecimalsRead` the loop of base 10, and `DigitsRead`
  (`NextDigit`) reads the digits of any base back to n shifted by what is no whole digit.
  Division is `DivisionIs`, and a shift is `ShiftedLeft`, whose bits fall out on the left.

Only model-checked:

- All liveness (`ClosedIsFreed` of the socket and of `SocketLifetime`, `SendsSettle`,
  `FailureCloses`, `LoopsForever`, `EndsWhenNotLooping`): liveness under fairness is out of the
  prover's reach.

## Plan

The modules of the first plan are there, and every invariant and action property of the passing
runs, and both refinements, are theorems. What the runs check and no theorem states is liveness.

## Not modelled

- Rendering, logging, the Lua glue and registration (`register_all_*`, the generated
  binding of the player), `LoadGame`'s registrations.
- The simulator and IDE support (`ide-support`, `proj.*`): menus, configuration files and
  the debugger of the cocos2d-x template.
- `StringUtil` and `LuaAssert`: the program calls `ToString` of a port and iconv.
- The transformation of an MD5 block and the byte tables of `QPCipher`: fixed
  computations and data, abstracted by their laws.
- `OnSocketCloseEvent` is never called, `OnMessageHandler` never defined, and the packet
  helpers, `encryptBuffer`, `decryptBuffer` and `tcpValidate` of `QPCipher` have no caller.
- Vendored code beyond the contracts the program relies on: asio, cjson, utf8, the hash
  library, the debugger `lua_debugger.c` and four copies of FFmpeg's headers. They are
  more than 220 000 of the repository's 227 000 lines; the program's own code is about
  3 500 lines, so the share of all lines that a model of it can cover stays small.
