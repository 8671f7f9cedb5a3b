# A TLA+ model of the ESP31B Arduino core

ESP31B is the Arduino core for Espressif's ESP31B, the beta of the ESP32: a C/C++
run time (`cores/esp31b`), the WiFi, HTTP, web-server, EEPROM and bus libraries
(`libraries`), and vendored SDK sources (`variants`, `tools/sdk`). This directory
models the parts where tasks, callbacks and interrupts meet, checks the models
with TLC on small instances and proves their safety properties with
TLAPS for every value of their constants.

## The program: who runs when

Everything hard in this code follows from four facts.

* The sketch's `loop()` is a FreeRTOS task at `tskIDLE_PRIORITY`
  (`cores/esp31b/core_esp31b_main.cpp:66`), and FreeRTOS pre-empts
  (`configUSE_PREEMPTION 1`, `tools/sdk/include/freertos/FreeRTOSConfig.h:100`).
* lwIP's tcpip thread has priority `configMAX_PRIORITIES - 5`
  (`tools/sdk/include/lwipopts.h:333`). It runs the `ClientContext`,
  `WiFiServer`, `WiFiClient::_connected`, `UdpContext` and DNS callbacks. A callback
  therefore
  may come between any two memory accesses of the loop task, and is itself one
  step as far as the loop task can see.
* The SDK's WiFi/event task runs `_scanDone` and `_eventCallback` and, from the
  latter, `WiFiClient::stopAll()` (`ESP31BWiFiGeneric.cpp:99-102`).
* None of the library classes takes a lock against these; only
  `i2s_slc_queue_next_item` masks the one interrupt it competes with.

## Inventory

| part (source) | state | operations | what is hard | what makes it correct |
|---|---|---|---|---|
| byte ring `cbuf` (`cores/esp31b/cbuf.*`) | `_buf _bufend _begin _end _size` | read, peek, write, remove, flush, resize | wrap-around at every alignment; resizing a wrapped ring | it is a bounded FIFO; `room()` exact; no access outside the memory |
| TCP receive (`ClientContext.h`) | `_rx_buf` chain, `_rx_buf_offset`, `_pcb` | read, peek, flush, close, unref; `_recv`, `_error` | the chain is shared with the tcpip thread; window credit is paid back piecemeal | stream read in order; each byte credited once; no stall |
| TCP send (`ClientContext.h`) | `_size_sent`, lwIP's queue | write with a 5 s wait; `_sent`, `_error` | late acknowledgements, timeouts, `_pcb` cleared under a call | never claims unacknowledged bytes |
| TCP handles (`WiFiClient.cpp`, `WiFiServer.cpp`, `slist.h`) | `_s_first` list, `_refcnt`, `_unclaimed` chain | construct, copy, assign, destroy, connect, stop, available, accept, stopAll | reference counts dropped by two tasks; a connect that times out and is answered later | counts equal holders; nothing dangles or leaks; each accepted client handed out once, in order |
| HTTP upload (`ESP31BHTTPClient.cpp`) | one buffer, `len`, `bytesWritten` | sendRequest(type, stream, size) | a retry of what is still in flight; short reads, a source that is empty or ends | the peer gets the body exactly; success only when delivered; it ends |
| HTTP response | header state, chunk sizes | handleHeaderResponse, writeToStream, getString | chunked transfer, early close | body reassembled; errors reported |
| I2S output (`core_esp31b_i2s.c`) | DMA ring, `i2s_slc_queue`, current buffer | begin, end, write_sample(_nb); DMA interrupt | engine, interrupt handler and writer share buffers | each sample played once; a waiting writer resumes |
| WiFi scan (`ESP31BWiFiScan.cpp`) | `_scanStarted _scanComplete _scanCount _scanResult` | scanNetworks, scanComplete, scanDelete, item readers; `_scanDone` | the callback at any point of a call; a count wider than the type it is returned in | count fits list; no list lost; the last scan's number reported |
| WiFi events (`ESP31BWiFiGeneric.cpp`) | `cbEventList` | onEvent, removeEvent, `_eventCallback` | handlers change the list that is being walked | none called twice, none missed |
| name resolution (`ESP31BWiFiGeneric.cpp`) | `_dns_busy`, caller's `aResult` | hostByName, `wifi_dns_found_callback` | the callback writes into the caller's frame | the answer of this call; no write after return |
| WiFi station, multi (`ESP31BWiFiSTA.cpp`, `ESP31BWiFiMulti.cpp`) | SDK mode and configuration, AP list | begin, reconnect, disconnect, status; addAP, run | waits without a timeout; a scan used by two callers; the link changes under a call | the strongest usable network joined, with its own credentials; run() returns |
| UDP (`UdpContext.h`, `WiFiUdp.cpp`) | receive chain, `_first_buf_taken`, tx chain | `_recv`, next, read, append, send, begin, stop | chain and reference counts shared with the tcpip thread; writes spread over pbufs | each datagram presented once, in order, freed once; a packet carries what was written |
| DNS server (`DNSServer.cpp`) | `_buffer`, the socket | start, stop, processNextRequest | queries arrive while one is answered; packets shorter than a header, or with IP options | every query answered once, to the one who asked |
| web server (`ESP31BWebServer`) | current client, arguments, upload buffer | handleClient, _parseRequest, _parseForm | multipart boundary scanning, early disconnect | file handed to the handler unchanged, or aborted and said so; fields collected |
| EEPROM (`EEPROM.cpp`) | cache, `_dirty` | begin, write, commit, end | power loss between erase and write; failed operations; a pointer behind the dirty flag's back | a clean cache is stored; what commit() reported stays |
| GPIO interrupts, PWM, timer | slot table, step tables | attach/detach, analogWrite; ISRs | tables rebuilt under the ISR | the ISR sees a consistent table |
| I2C (`core_esp31b_si2c.c`, `Wire.cpp`) | buffers, bus lines | writeTo, readFrom, requestFrom | zero lengths, clock stretching | bus released; lengths honoured |
| file system (`spiffs_hal.cpp`, `spiffs_api.cpp`, `FS.cpp`) | flash, handles | unaligned read/write/erase, mount, open | unaligned ends of either address; an operation that fails half-way | exactly the bytes asked for are read, written, erased |
| streams and serial (`Stream.cpp`, `core_esp31b_uart.c`, ...) | timeouts, uart objects | find, parseInt, readBytes | timeouts, partial matches | reference parsing |
| strings, formatting, hashes, small drivers, start-up | none of interest to a protocol | | | |

`PROJECT.json` lists every part with its status, and 40 hazards at their lines.

## Modules

| module | models | state ↔ code |
|---|---|---|
| `BoundedFifo` | what a byte buffer promises (abstract) | a sequence of bytes and a capacity |
| `Cbuf` | `class cbuf` | pointers as offsets from `_buf`; `memory` turns `"corrupt"` if a copy leaves the allocation |
| `ClientContextRx` | receive side of `ClientContext` | `rx` is the pbuf chain with `len`/`tot_len`; `off` is `_rx_buf_offset`; bytes are numbered by their place in the stream |
| `ClientContextTx` | send side of `ClientContext` | `size_sent` is `_size_sent` modulo the width of `size_t`, uninitialised at first as in the constructor |
| `HttpUpload` | the body loop of `HTTPClient::sendRequest`, extends `ClientContextTx` | the buffer, the source stream (`supplied`, `next`, `ended`), and the bytes copied into lwIP's queue (`handed`) |
| `TcpHandles` | `WiFiClient`, `WiFiServer`, `slist.h` | `cli`, `cnt`, `live`, the unclaimed chain, connects lwIP has not answered |
| `I2sDma` | `core_esp31b_i2s.c` up to "END DMA" | ring, queue, current buffer, SLCRXEDA, the interrupt enable |
| `I2sOutput` | `i2s_begin`/`i2s_end` on top of it | the stage inside `i2s_begin` |
| `WifiScan` | `ESP31BWiFiScan.cpp` | the four static members; result lists by the scan that allocated them |
| `WifiMulti` | `ESP31BWiFiMulti::run` and the station, extends `WifiScan` | `APlist`, the SDK's mode, configuration and link status, the place inside `run()` |
| `WifiEvents` | `onEvent`, `removeEvent`, `_eventCallback` | the vector and the index of the walk |
| `HostByName` | `hostByName` and its callback, for several callers | `_dns_busy`, each caller's `aResult`, queries lwIP has open |
| `WifiGeneric` | the two together: loop task, event task and its handlers, tcpip thread | who has the processor |
| `UdpContext` | `class UdpContext` and its `WiFiUDP` | `rx` the datagrams in the chain, `ref` lwIP's reference counts, `txbuf`/`cur`/`txoff` the packet being built |
| `DnsServer` | `DNSServer`, extends `UdpContext` | the request buffer and the writes a reply still has to make |
| `Flash` | the flash chip as the code uses it | a byte is the set of what was programmed into it since its erasure |
| `Eeprom` | `EEPROMClass` | `data`, `dirty`, the place inside `commit()` |
| `SpiffsHal` | `spiffs_hal_read/write/erase` | the flash requests a call makes, and how it ended |
| `FlashStore` | the two on one chip, with resets and the abort of an unaligned erase | |
| `WebForm` | `_parseForm`, `_uploadReadByte`, `_uploadWriteByte` | `argByte`, `endBuf`, `_currentUpload`, `postArgs`; the peer makes up the form as it is read |
| `RingProofs` | theorems about `Cbuf` and `I2sDma` | |
| `ClientContextRxProofs`, `ClientContextTxProofs` | theorems about the receive side; about the send side and `HttpUpload` | |
| `TcpHandlesProofs` | theorems about `TcpHandles` | |
| `WifiProofs` | theorems about `WifiScan`, `WifiMulti`, `HostByName`, `WifiEvents` in their compositions | |
| `DnsServerProofs` | theorems about `UdpContext` and `DnsServer` | |
| `FlashStoreProofs` | theorems about `Eeprom` and `SpiffsHal` on one chip | |
| `WebFormProofs` | theorems about `WebForm` | |
| `MC*` | the instances for TLC | |

Variables that are not program state (they count or number what happened, so that
a property can speak of it) are named as such at the head of each module. A
definition whose comment calls it a mistake, or describes a handler that does
something wrong, is not part of the model: it is the form a plausible bug of the
definition below it would have, used to show that a property notices it.

### Grain of atomicity

A method of the loop task is split where a callback between two of its accesses
can be told apart from one before or after; the other stretches commute with the
callbacks and are one step. So:

* `ClientContext::read` is one step per pbuf, and `_consume` of the last pbuf
  (and `flush`) three: decided to free, freed, pointer cleared.
* `ClientContext::write` is entered / queued / waiting / returned. A connection
  that goes away in between makes it hand a null `_pcb` to lwIP (`"fault"`).
* `WiFiClient::stop`, `operator=`, the copy constructor and
  `WiFiServer::available` separate the load, the reference count and the store, and
  a constructor's entry in the list its two stores.
* `scanNetworks` separates the driver call and its two flags.
* `hostByName` separates the query and the store to `_dns_busy`.
* `UdpContext::next` separates the load of the head's successor, the store to
  `_rx_buf`, the reference and the release of the head.
* `commit()` separates the erase and the write; a reset or a failure inside the
  write leaves some of its words. A call of `spiffs_hal` is one step that may end
  at any of its flash operations: nobody else uses those sectors meanwhile.
* `run()` separates its reads of the status, the analysis, the delete, the begin
  and each poll; `_parseForm` each byte of a file and each look at the connection.

A pbuf chain lwIP delivers at once is the same to the receiver as its pbufs
delivered one after the other, so `Recv` delivers one.

### What is external

The lwIP functions the code calls are modelled as their callers see them, from
`variants/esp31bsrc/lwip/core`: `pbuf_cat`, `pbuf_free` and `pbuf_ref` with their counts,
`tcp_recved`, `tcp_sndbuf`, `tcp_write` (which copies, since `lwipopts.h:297` sets
`LWIP_NETIF_TX_SINGLE_PBUF`: `tcp_out.c:395-398`; and which accepts 0 bytes:
`tcp_out.c:322`) and `dns_gethostbyname`. The protocols behind them are not modelled.

Outside the repository are a flash chip whose words are programmed one after the other,
an SDK that ends the scans and connection attempts it began, a DMA engine that plays the
ring for ever, the sketch's `Stream` and the peer. A form is a legal one: no file
contains the delimiter. The peer is assumed to stay inside the window it was given and to
acknowledge only what it received. The allocator is assumed to succeed.

## Runs

| run | what it shows | instance |
|---|---|---|
| `cbuf_ring` | the ring implements `BoundedFifo` (refinement), stays in its memory, and `room()` is exact, over all sequences of calls | capacity up to 4, two byte values, sources up to 3 bytes; 3 280 states |
| `tcp_receive` | chain well formed, window accounting, stream order; a closed window opens again when the sketch reads | segments of 1 and 2, window 4, 7 bytes, reads of 1 and 3; 8 066 states |
| `tcp_receive_race` | *violated*: a segment chained to a buffer already read to its end | same |
| `http_upload` | send side and upload together: write() is honest, exact body until a short write, success means delivered, an upload of known size ends once its source holds it or ends, or the connection is gone | send buffer 3, `size_t` of 4 bits, blocks of 2, bodies of 3 bytes and of unknown size, a source of up to 4 bytes; 696 548 states |
| `tcp_handles` | counts = holders, no dangling pointer, no leak, accepted clients claimed once, in order, in the end | 2 WiFiClients, 3 contexts, 1 connect; 114 556 states |
| `i2s_dma` | with the interrupt enabled or masked at any time: the ring is consistent, and while everybody is on time every sample is played once and in order | 3 buffers of 2 samples, 6 samples, 2 runs; 299 912 states |
| `i2s_masked` | *violated*: after `i2s_begin` a writer that finds the ring full never resumes | 4 samples, 1 run |
| `wifi_multi` | scan, station and `run()`: count fits list, no list lost; the strongest usable network is joined; a reported number is the last scan's up to its type; "running" only while a scan runs, but for an early callback; a `run()` that asked to connect returns | 2 scans of up to 7 networks, an `int8_t` of 6 values, 2 names, 2 levels, 2 entries; 265 074 states |
| `wifi_generic` | no handler called twice for an event, none missed unless the list slid under the walk; no write to a returned call, the answer is this call's, a late answer ends the wait | 1 callback, 2 events, 2 registrations, 2 callers, 2 calls; 295 850 states |
| `udp_dns` | chain and reference counts, packets carry what was written, replies right and single, every query answered | 3 datagrams of 6 kinds, pbufs of 2 bytes, a header of 3; datagrams shorter than a header, one of a single byte among them, one with IP options; a restart after a short one; 1 230 761 states |
| `flash` | a clean cache is stored, what commit() reported stays, writes and aligned reads of the file system exact | 3 sectors of 2 words, caches of 1 and 2 words, 9 unaligned calls; 1 188 388 states |
| `web_form` | the handler gets exactly the file or a prefix and an abort, and is told which once the peer has gone; fields and arguments collected | files of up to 5 of 4 bytes, boundary of 1, buffer of 2, 2 parts, 1 argument; 1 025 323 states |

### Why the bounds are enough

Each bound is the smallest that lets all the cases of the code meet. Capacity 4
with sources of 3 makes every block operation of `cbuf` wrap at every alignment.
A window of 4 with 7 bytes sent closes and reopens the window and lets a chain
have several pbufs, with a read ending inside, at and beyond a pbuf. A send buffer
of 3 and blocks of 2 make one block fit, the next fit in part and the one after
not at all; 4 bits of `size_t` are enough for `_size_sent` to pass below zero and
back. Three contexts and two WiFiClients let a late answer, a claimed and an
unclaimed context coexist; a second connect, after the steps inside the
list's `_add` were added, is beyond TLC's time and left to the theorems. Three buffers of two samples are the smallest ring with
one buffer playing, one pending and one being filled. Two scans let a list be
replaced, deleted and found missing; an integer of six values for up to seven
networks makes a count come out right, negative, as -1 and too small; two entries may name the same network, one
with a pass phrase and one without. Two registrations of three filters, two
events and a second call of `hostByName` are the least that let a list slide under
a walk and two calls meet. Three datagrams let one be read, one wait and one
arrive inside `next()`; pbufs of two bytes make a reply of eight end inside, at and
beyond one. The nine calls of the flash run begin and end at every offset in a
word, and stay inside one word, cross one boundary and cross two; they begin from
an erased and a full chip, and one call of the file system between any two of the
EEPROM's is enough because the properties look at one call at a time. A file of
five bytes holds a false delimiter in full, and any smaller part of one in front
of, inside and behind other bytes; a buffer of two flushes inside each. What the
parts do beyond these bounds is the subject of the theorems; for liveness there are
only the runs.

### Fairness

* The loop task runs (`WF` on the steps of a call in progress): it is always
  ready, and the callbacks that pre-empt it are finite.
* A timeout fires: `millis()` advances, so a wait of 5 s ends.
* An interrupt is served and the DMA engine advances (`WF`): hardware.
* lwIP answers every DNS query, if only with a timeout (its timer retries and
  gives up); the SDK reports every scan it accepted.
* `AcceptedIsClaimed` assumes a sketch that keeps calling `available()` and drops
  the clients it got (`SF`, since other calls of the sketch may intervene), as
  `handleClient()` does. `WindowReopens` assumes a sketch that keeps reading.
* `LateAnswerReturns`: the loop task gets the processor again and again between
  events (`SF`).
* `RunReturns`: an attempt to connect ends, and the poll of `run()` is repeated every
  10 ms, so a final status that recurs is seen (`SF`).
* `QueryAnswered` assumes a sketch that keeps calling `processNextRequest()`.
* `UploadEnds` and `UploadReported` ask for the loop task's steps only. A turn of the
  upload's loop that finds its source empty, and of `_uploadReadByte`'s that finds a
  connected peer silent, is no step: there the code waits for ever, and so does the
  model.

Nothing is assumed of a peer: it may stop acknowledging, stop sending or reset.

Deadlock is not checked where the program may stop: a sketch that has made the
calls the bounds allow, a faulted program. In the other runs a wait that cannot end
is a step that changes nothing.

## What the runs found

The two violated runs state what a comment of the repository says and what the
code does instead:

1. **A segment lost in `_consume`/`flush`** (`ClientContext.h:253`, `:200`). The
   loop task decides that the chain has no successor, frees it and then clears
   `_rx_buf`. `_recv` in between chains new data to a buffer with nothing unread,
   against its own comment "there is some unread data". The bytes are lost and
   their window is never credited.
2. **`i2s_begin` masks its own interrupt** (`core_esp31b_i2s.c:236` after `:131`).

Further behaviours that the models contain and that the properties above therefore
exclude by a named condition:

* *cbuf.* `resize` to exactly the bytes stored leaves `_end` at the end of the
  memory, where no other operation leaves it: `room()` wraps below zero and the
  next write loses data. `Cbuf` has the parameter `ShrinkToFit`; with TRUE TLC
  refutes `TypeOK` and `ImplementsFifo`.
* *HTTP upload.* The retry of "the missed bytes" (`ESP31BHTTPClient.cpp:418-419`)
  takes the value of `write()`, the bytes acknowledged so far, for the bytes sent;
  all the bytes it queued stay queued, and the peer gets them twice (`short`). A read
  that comes short counts in full (`len -= readBytes`, `:439`), and when its write comes
  short too the retry sends memory behind what was read (`:416`). A source that stays
  empty on a live connection keeps the loop going for ever (`:444`).
* *Scan.* The synchronous `scanNetworks()` does not wait: it returns 0, not the
  "Number of discovered networks" (`ESP31BWiFiScan.cpp:55`, `:86`). A callback before
  `_scanStarted = true` (`:80`) leaves the scan "running" for ever (`early`). `scanComplete()`
  returns the `size_t` count as an `int8_t` (`:107`): 128 networks and more come out
  negative, 255 as "running", 256 as none. The item readers
  accept an index one past the end (`:301`).
* *Multi.* `begin()` with the configuration the station already has, or without a
  station, asks for nothing, and `run()` waits for a final status all the same
  (`ESP31BWiFiMulti.cpp:118`), or takes one left over from before. An entry without a
  pass phrase has an uninitialised pointer (`:165`, `:186`) which `run()` takes for one.
* *Events and names.* `removeEvent` passes by the second of two equal adjacent
  registrations (`ESP31BWiFiGeneric.cpp:86`). A DNS answer before `_dns_busy` is set
  (`:222`) leaves `hostByName` spinning, and in a handler the event task with it.
  A handler that registers another each time it is called makes the walk endless (the
  loop to `cbEventList.size()`, `:104`); the model bounds the registrations (`MaxRegs`),
  so no property says that a walk ends. All callers share `_dns_busy`: when two meet
  (`overlapped`) the answer to one ends the wait of the other, whose own answer is then
  written to a frame that is gone.
* *UDP.* A datagram that arrives as `next()` leaves the last one (`raced`) is freed with
  it, presented twice, or loses a reference. `available()` before `parsePacket()` is
  not zero as `WiFiUdp.cpp:111-112` says. `operator=` (`WiFiUdp.cpp:59-65`) does not
  release the context it replaces; it is not in the model. `remoteIP()` looks 28 bytes
  before the payload (`UdpContext.h:29`), which is the sender only if the datagram has no
  IP options (`ASTRAY`): its reply goes elsewhere. A failing `udp_bind` leaves a socket
  that nothing arrives at.
* *DNS server.* A packet shorter than a header is judged, and answered, by bytes past
  the end of its buffer, and the header's fields are written there (`DNSServer.cpp:120`,
  `:164`). The model lets the system restart any time after (`overrun`, `Crash`); other
  effects of the damaged heap are not modelled.
* *EEPROM.* A commit that is broken off loses the old contents (`torn`), and always
  those beyond the size of the cache; `end()` drops the cache even when its commit
  failed; what goes through `getDataPtr()`'s pointer after a commit is not committed
  (`behind`); a failed read in `begin()` goes unnoticed (`misread`).
* *spiffs_hal.* The first word of an unaligned read is copied from `&tmp + 4 - nb`, a
  pointer to words (`spiffs_hal.cpp:61`), so those bytes are whatever lies on the
  stack, against the comment at `:31-43`. A write from a misaligned source longer than
  512 bytes takes its second block from the wrong place (`srcLeftover += willCopy`,
  `:143`). `spiffs_hal_erase` of less than whole sectors aborts, and the system
  restarts (`Abort`).
* *Web forms.* A CR LF - - in a file less than a boundary's length before its end
  swallows the real delimiter (`swallowed`); a peer gone, or slower than the timeout, inside a
  boundary has the stack's contents compared, also past the end of the unterminated
  `endBuf` (`Parsing.cpp:449`), and written out (`stale`): a boundary still lying there
  ends the file as if it were complete; a connected peer that falls silent in a file
  keeps `_uploadReadByte` in its loop for ever (`:306`); more than 32 fields
  overrun `postArgs` (`overrun`); a peer gone between parts or inside a value leaves
  `_parseForm` reading empty lines for ever; an abort leaks `postArgs`.
* *I2S.* The engine may lap a writer that holds a partly filled buffer (`lapped`),
  finish a buffer its handler is not told of, because the one before is still pending
  or the interrupt is masked (`missed`: after `i2s_begin`, every one), or be restarted while
  the writer holds a buffer of the earlier run (`stale`).
* *Handles.* A `connect()` that timed out and is answered later (`late`), an accept
  inside `available()` (`raced`), and `stopAll` between the load and the release of a
  pointer (`fault`). `stopAll` between the two stores of `SList::_add` sees the new
  object only, and the other connections outlive the loss of the station (in the model,
  and no property speaks of it). Assigning a WiFiClient to itself releases its context
  and then counts what may be deleted (`fault`, `WiFiClient.cpp:76-84`).

## What is proved

The theorems hold for every value of the constants that satisfies the named
assumptions of the modules: any capacity, window, number of objects, datagrams,
networks, handlers or samples, and any interleaving of the tasks. The assumptions
say no more than that sizes are natural numbers, not zero where the code divides or
fills by them, plus what is mentioned below. Almost none of the properties is
inductive as the runs check it; each proof rests on an invariant that says where
everybody is when it holds, which TLC checked first.

**`RingProofs`, the byte ring** (`CbufAssumption`: sizes below the range of `size_t`;
no shrink-to-fit resize). *RingSafe*: indices inside the memory and only written
bytes read. *RoomIsExact*. *RingIsFifo*: `Spec => ImplementsFifo`, every step of the
ring is a step of `BoundedFifo` or a stutter under the mapping from the ring to the
sequence of its stored bytes. The invariant is that both indices are below `size`,
memory is intact, and the stored slots hold bytes. The argument is by the shape of
the ring (straight or wrapped) before and after each call; lemmas describe what one
bounded `%` step and one copied block do to the stored sequence.

**`RingProofs`, I2S** (`I2sAssumption`: at least two buffers). *RingIsSound*:
`RingSound`. *SamplesPlayedOnce*: the action property `EverySampleOnce`. `RingInv` says
that the queue is a stretch of the ring: its k-th entry is the k-th buffer ahead of
those the engine still has to play (`QueueIsRing`), and that a store has room
(`StoreHasRoom`). `SamplesInv` adds that the partly filled buffer is the last one
in front of the queue (`PartialIsLast`), that what is in the queue is silent (`QueueIsSilent`), and
that there is a numbering of the buffers in between by which each is silent or holds
the samples next in order. None of that can be seen in a single buffer, which is why
`EverySampleOnce` needs it. Both hold with the interrupt masked, too: they speak of
the time until the engine finishes a buffer unnoticed.

**`ClientContextRxProofs`** (`RxAssumption`). *ChainStaysSound*: `ChainOK` and
`ReadStaysInside`. *WindowIsAccounted*: `WindowAccounting` and `BufferBounded`.
*StreamInOrder*: `StreamOrder`. The invariant `IInv` adds that what a read in progress
has left to copy is in the chain, and the last pbuf is only given up when it is enough
(`LastIsEnough`, `FreesSomething`); that a chain about to be freed has been read to its
end, but for the bytes that raced with it (`DoomedIsRead`), and nothing is read that
was not received (`ReadIsReceived`); that a deleted context is closed
(`DeletedIsClosed`) and the peer is inside its window (`PeerInWindow`). The chain's
totals are related pbuf to pbuf (each `tot` is its `len` plus the successor's `tot`),
so that no induction over the chain is needed.

**`ClientContextTxProofs`** (`TxAssumption`: a send buffer smaller than the range of
`size_t`; `UploadAssumption`). *WriteIsHonest*: `write()` never claims a byte that was
not acknowledged and never over-commits lwIP's buffer, although `_size_sent` wraps. The
invariant ties `_size_sent` during a wait to the acknowledgements since it was armed,
modulo the width of `size_t`. The same holds of `write()` as the upload drives it
(*UploadIsHonest*), and *UploadIsSound* is `UploadSound`: exact body until a short
write, success only when size bytes were acknowledged. Its invariant `UpInv` says that
between two blocks nothing is on its way (`Settled`), and that during a block everything
before it is acknowledged and the buffer begins with the block (`InBlock`, `HasBlock`),
so that what lwIP copies from it, in whatever pieces, continues the source.

**`TcpHandlesProofs`** (`HandlesAssumption`: finitely many WiFiClients).
*ContextsAreOwned*: `Ownership`, that is counts, dangling pointers and leaks together.
*AcceptedOnceInOrder*: `ClaimedOnceInOrder`. *ConnectReturnsItsOwn*: `ConnectsItself`.
The invariant `HInv` has to say what every place of the loop task inside `stop()`,
`operator=`, the copy constructor, `connect()` and `available()` owes to the counts:
 - `Counted`: `_refcnt` is at least the number of holders, and equal to it on time.
   The holders are the owners and the loop task itself between its load of a pointer
   and its `unref()`, whose reference a late `_connected` may have overwritten;
 - `Kept`: what is about to be counted has another holder, and so has what
   `operator=` has let go of, unless that deleted it;
 - `Unclaimed`: contexts with a count of 0 are those of the chain, but for the head
   `available()` is handing out;
 - `Claims`: what was handed out is older than the chain's head;
 - `OnTime`: until a `connect()` gives up on an answer, the only answers outstanding
   are to the `connect()` that waits;
 - `Shape`: `_next` leads from older to younger contexts.

The chain is the least set that holds the head and the successor of each of its
members. That it ends, so that `slist_append_tail` finds a last one, follows from
`Shape`; that an append adds the new context and loses none, and that the store of
`available()` removes exactly the head, are lemmas (`Linked`, `Unlinked`).

**`WifiProofs`** (`MultiAssumption`: signal levels are signed bytes; `AddrsAssumption`,
`EventsAssumption`, and `CallersAssumption`: the loop task and a handler call
`hostByName`).
*ScanResultsSound*: `ResultsSound`; *ReportedIsLast*: `ReportsLastScan`, for every
width of the integer `scanComplete()` returns (`Int8Assumption`). `ScanInv` says
that a scan in progress is one `scanNetworks()` is starting or one that is flagged
(`DriverIsKnown`), that the driver is asked with no result around (`AskIsClean`), that
a flagged scan is in progress or ended before its flag (`FlaggedScan`), and that the
count is the last scan's unless the list is being deleted (`CountIsLast`).
*JoinedIsBest*: `JoinsBest`. The loop over the networks is a recursive function; `BestOf`
says what it knows after each network, and `JoinInv` that the choice and the list it was
made from last until `run()` returns.
*HostByNameReturnsTheAnswer*, *CallersAreSafe*: `ReturnsTheAnswer`, `CallersSafe`. `HostInv`
says that while no two calls have met there is at most one query open, it is the one of
the call that waits, and its answer is not yet there (`OneCall`, `Answered`).
*HandlersAreCalled*: `HandlersCalled`. `EventsInv` says that the list is in the order of
registration whatever was removed from it (`InOrder`), that a call went to an entry the
walk has passed (`CalledBefore`), and that no entry that was there when the event came
has been passed by without its call (`PassedCalled`) unless the list slid.

**`DnsServerProofs`** (`UdpAssumption`; `HeaderAssumption`: a header has at least two
bytes). *ChainStaysSound*: `ChainSound`. *PacketsAreExact*: `SentIsWritten`.
*RepliesAreRight*: `Replies`. Up to the race the chain is a stretch of consecutive
numbers that ends with the datagram that came last, and the reference counts are a
function of the place inside `next()` (`RxInv`); the bytes of a packet in progress are
those written so far, pbuf by pbuf (`TxInv`); the writes still to be made complete the
reply to the datagram at the head (`ReplyInv`); and what was sent answers datagrams that
have been left, or the one just read (`Answered`). A restart after a short request
keeps all of this (`CrashRx`). The attempt to prove an earlier form
of `Replies` failed for a datagram of one byte: the reply copies one byte of it, and its
second byte is not the flags. The property now says so, and the run has such a datagram.

**`FlashStoreProofs`** (`FlashAssumption`, `EepromAssumption`, `HalAssumption`: sectors
and the buffer are multiples of a word, and calls stay inside the file system).
*CleanCacheIsStored*: `CleanIsStored`. *CommittedIsDurable*: `Durable`. *WritesAreExact*:
`WriteExact`. *AlignedReadsAreExact*: `AlignedReadExact`. `EepromInv` adds what is on the
chip between the erase and the write of a commit. For the file system the argument is
about one call: each of its flash requests programs the caller's bytes in their places
and blanks elsewhere (`GoodRequest`), so any number of completed requests, whole or in
part, has programmed some of the bytes asked for and nothing else (`Partly`), and all of
them together have programmed every one.

**`WebFormProofs`** (`FormAssumption`: a boundary that is not empty and, coming from a
header line read up to its CR, holds none). *UploadIsExact*: `UploadExact`.
*UploadIsPrefix*: `GivenIsPrefix`. *FieldsAreCollected*: `FieldsCollected`. `FormInv`
says that what the peer has sent of the file and of the delimiter behind it is, in this
order, what the handler has, the upload buffer, what `_parseForm` holds back because a
delimiter may have begun (`Held`, a function of the label it is at), and `argByte`
(`Accounted`). The proofs turn on the delimiter having but one CR, its first byte:
 - what is given back as content cannot reach into the delimiter the peer is sending
   (`HeldIsContent`), unless the block of `readBytes` swallowed it;
 - where CR LF - - and the boundary end the stream, it is the peer's own delimiter
   and not one across the end of the file (`DelimiterEnds`).

Without the assumption on the boundary the second is false. `WriteStores` says that
any number of `_uploadWriteByte` calls, with the buffer flushed in between, append
their bytes to what was stored.

**Method.** The library's induction theorems take an operator as parameter, which no
installed prover instantiates. Where a proof needs induction, `LeastNat` and
`NatSetInduction` give it for membership of a set of natural numbers, from the theorem
that such a set has a least element; the recursive functions of `WifiMulti` and
`WifiEvents`, and that of `WebForm` that writes several bytes, are shown to have a
solution that way (`FoldExists`).

**Only model-checked.** Liveness and everything about ENABLED is out of the
prover's reach, so `WindowReopens`, `UploadEnds`, `AcceptedIsClaimed`,
`RunReturns`, `LateAnswerReturns`,
`QueryAnswered` and `UploadReported` rest on TLC. Every safety property of a passing
run has its theorem.

## Not modelled

* Vendored code (spiffs, libb64, the SDK's lwIP, SSL and cJSON sources) and the
  registers that carry no protocol state (pin routing, clock dividers).
* A `_pcb` cleared between its test and its use on the receive side (the send side
  has it), and a vector operation of `cbEventList` cut in half by the event task:
  their outcome is undefined behaviour with nothing further to say.
* What the web server does with a request line, its headers and its handlers; the
  response side of the HTTP client: sequential text processing over `Stream`.
* Copies of a `WiFiUDP`; the station's static addresses, host name and pairing modes;
  the access point, which only hands values to the SDK.
* Wrap-around of `millis()`.
* The parts listed as `not_modelled` in `PROJECT.json`.

## Plan

Done: ring buffer → TCP receive → TCP send and upload → handles → I2S → scan, station
and multi → events and name resolution → UDP and DNS server → EEPROM and flash access
→ web forms; proofs of all safety properties.

Next, in this order:

1. PWM against the timer interrupt: `pwm_timer_isr` takes the next interval from the
   shared `pwm_steps`, not from the copy it made at the start of the period, so an
   `analogWrite` in mid-period mixes two tables; that the period after the last change
   is exact is worth stating.
2. The response side of `HTTPClient` (header, chunked body, reuse) and `handleClient`.
