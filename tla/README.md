# ffmpeg2theora: TLA+ models, checks and proofs

ffmpeg2theora reads any file FFmpeg can decode and writes an Ogg file with a Theora video
stream, a Vorbis audio stream, any number of Kate subtitle streams and a Skeleton track with
keyframe indexes. This directory holds TLA+ modules that model its core logic, the TLC
configurations that check them, and theorems about them with proofs for TLAPS.

`PROJECT.json` lists the components, the runs, the mutants (a plausible bug for every property,
which the run must notice), the source lines every definition stands for, the findings, the
hazards and the theorems. Line numbers below are those of `src/src/theorautils.c` unless another
file is named.

## 1. The system

One process, one thread. `main` (ffmpeg2theora.c) parses the options, then for each pass opens the
input and calls `ff2theora_output`, which sets up decoders, filters and encoders and runs the
conversion loop. Each turn of the loop reads one packet (`av_read_frame`), decodes it, gives
frames and samples to the encoders through the `oggmux_add_*` functions, feeds the subtitles that
are due, and calls `oggmux_flush`. The multiplexer (theorautils.c) owns the output file. A separate
Python program, Simple Theora Encoder, runs one ffmpeg2theora process per queued file.

| component | state | operations | interacts with |
|---|---|---|---|
| page interleaving | libogg stream states `to`, `vo`, `ko`; `videopage`, `audiopage`, `katepage` with `_valid`; `videotime`, `audiotime`, `katetime`; `v_pkg`, `a_pkg` | `oggmux_add_video/audio/kate_*`, `oggmux_flush`, `oggmux_close` | called by the conversion loop; calls the index on every packet and page |
| keyframe index | `packets`, `pages`, `start_time`, `end_time`, `packet_size`, `max_keypoints` per stream | `seek_index_record_sample`, `seek_index_record_page`, `write_index_pages` | recorded during encoding, written into the file's header at the end |
| Skeleton track | stream state `so`, `page_location`, `content_offset`, `output_seekable` | placeholders in `oggmux_init`, `write_seek_index` | overwrites pages written hours earlier |
| stream headers | serial numbers | `oggmux_init` | before everything else |
| conversion loop | `video_eos`, `audio_eos`, `video_done`, `audio_done`, `first`, `frame_count`, `sample_count`, `synced` | the `do ... while` of `ff2theora_output` | decoders, multiplexer, subtitles |
| two-pass control | `passno`, `twopass`, `twopass_file` | pass loop of `main`, `TH_ENCCTL_2PASS_*` | runs the conversion loop twice over one `info` |
| subtitle feeding | `subtitles`, `subtitles_count` per stream | `add_subtitle_for_stream`, the feeding loop (ffmpeg2theora.c:1746-1772) | compares show times with the times of written pages |
| subtitle files | `need`, `last_seen_id`, `text` | `load_subtitles` | before the conversion |
| options | the `ff2theora` record | `main` | - |
| media information | none | `json_*`, `gen_oshash`, `utf8_validate` | - |
| encoding queue (frontend) | `queuedata`, `_qd_key`, `encoding`, `quit`, `currentItem` | GUI handlers, `encodeQueue` thread, status thread | three threads over one dictionary; a child process |

### What is hard in it

* **Order of pages.** libogg decides when a page is complete, and how much of a packet is on it. The
  multiplexer holds one page per stream, over many calls, and may write a page only when it knows
  the other stream has none that is earlier.
* **Two counts that must agree.** The index knows packets by libogg's number and pages by how many
  packets start on them. It finds the page of a keyframe by adding up, hours later, and asserts that
  there is one.
* **Space fixed in advance.** The number of keypoints and the bytes for them are reserved before the
  first frame is encoded.
* **End of stream.** Two flags that say a stream should end and two that say it did, an end time that
  each stream notices in its own way, decoders that return frames after the input has ended.
* **What survives a pass.** The second of two passes runs on the same `info`, of which only parts are
  reset.
* **Threads of the frontend.** The only concurrency, over an unprotected dictionary.

### What makes each component correct

* page interleaving: nothing submitted is lost, repeated or reordered within a stream; pages leave in
  time order; subtitles are not late; waiting is bounded; everything is out before the file is closed.
* keyframe index: a keypoint is the offset of the page on which a keyframe at that time starts; it is
  not too close to the previous one; there is one near every seekable position; what is written reads back.
* Skeleton and headers: header pages in order; every rewritten page has the size, place and number of
  its placeholder; the fishead tells the truth about the finished file.
* conversion loop: every decoded frame between start and end time is encoded once, in order and at its
  time, alike in both passes; each stream is ended, by its last packet; the loop terminates.
* subtitle feeding: in order, before the time they are shown, none twice and none lost.
* subtitle files and options: every complete record is stored with its own text and times, every
  option belongs to its file.
* encoding queue: every added file is encoded once unless it is removed; list and queue agree; closing
  the window leaves no process behind.

## 2. The modules

| module | models | kind |
|---|---|---|
| `OggMux` | the multiplexer: `oggmux_add_*`, `oggmux_flush`, `write_*_page`, `find_best_valid_kate_page`, Kate end packets, second pass, close | state machine |
| `LogicalStreams` | what a multiplexer promises: every logical stream is a reliable first-in first-out channel | abstract specification |
| `SeekIndex` | `index.c` and `write_index_pages` for one stream | state machine |
| `VlInt` | `bytes_required`, `write_vl_int`, and a reference decoder | pure functions |
| `Skeleton` | `oggmux_init` and `write_seek_index` over a file one can write into | state machine |
| `ConversionLoop` | the loop of `ff2theora_output`, one or two passes | state machine |
| `SubtitleFile` | the subtitle options and `load_subtitles` | state machine |
| `SubtitleFeed` | what follows: start time, embedded subtitles, feeding and flushing; `EXTENDS SubtitleFile` | composition |
| `FrontendQueue` | the queue of Simple Theora Encoder: GUI thread, encoding thread, child process | state machine |
| `OggMuxProofs`, `OggMuxFlushProofs` | theorems about `OggMux`: order and counts; what is held back, and the end | proofs |
| `SeekIndexProofs` | theorems about `SeekIndex` | proofs |
| `ConversionLoopProofs`, `ConversionEndProofs` | theorems about `ConversionLoop`: types, audio and sync; the order of frames, the ends of streams and the agreement of the passes | proofs |
| `SkeletonProofs` | theorems about `Skeleton` | proofs |
| `SubtitleProofs` | theorems about `SubtitleFile` and `SubtitleFeed` | proofs |
| `FrontendQueueProofs` | theorems about `FrontendQueue` | proofs |
| `MCSkeleton`, `MCConversionLoop`, `MCSubtitleFeed` | inputs and options for TLC | instances |

The modules meet where the code does. `ConversionLoop` and `SubtitleFeed` end where `oggmux_add_*` and
`oggmux_flush` begin; `OggMux` has the callers' side of that as its environment. It takes it that every
stream ends with a flagged packet; `StreamsEnded` of `ConversionLoop` says in which one case audio does
not (exactly as many samples as asked for when the input ends). `SeekIndex` is told of the packets and
pages of one stream of `OggMux`, and `Skeleton` takes from it the size of every index and whether there
is a keypoint. One composed machine of all of them would multiply their states and relate nothing more:
what passes between them are the calls just named.

### OggMux

State and code: `queue[s]` is the stream state of libogg (`to`, `vo`, `ko`), `held[s]` is
`videopage`/`audiopage`/`katepage` (`<< >>` when `_valid` is 0), `time[s]` is `videotime`,
`audiotime`, `katetime`, `pkg[s]` is `v_pkg`/`a_pkg`; `passno` and `mode` (`audio_only`,
`video_only` or neither) are the code's. `submitted`, `written` and `mark` are history variables.
Streams are integers: -2 Theora, -1 Vorbis, 0.. the Kate streams, so that the code's tie-breaks
(`videotime <= audiotime`, first Kate stream) are comparisons.

* A packet is a sequence of *fragments* (libogg's lacing segments), so packets continued over pages,
  and pages on which no packet ends (granule position -1), are there. libogg is external: a flush
  gives any non-empty prefix of the queue, a pageout may also give nothing unless the end of the
  stream is queued. That is more than libogg does, so what holds here holds for its page policy.
* One turn of `while (1)` in `oggmux_flush` is one step: fetch (`Fetchable`, `Fetch`), choose (`Due`),
  write (`WritePage`) or stop (`FlushBreak`). `Due(s, ...)` is the if-chain of 1794-1828 with the macro
  `CHECK_KATE_OUTPUT` expanded: `DueAV` the three branches for audio and video, `DueAtEnd` the three
  for e_o_s.
* Any number of `AddVideo`, `AddAudio`, `AddKate` steps and then `BeginFlush` is a round of the
  conversion loop. `eos` is `video_eos`/`audio_eos`, which `oggmux_flush` is told; `ended` says that the
  packet with e_o_s is queued, on which libogg stops holding pages back. The loop mostly raises the flag
  and submits that packet in one `Add` step. `RaiseEOS` is the rest: a video input that ends before any
  frame was decoded has no packet at all (`NoFrames`, 1533), and audio clipped at the end time raises
  the flag at 1612 and leaves at 1614, its last packets come in a later round. `EndTime` says whether
  the user gave an end time; if not, both flags are raised together, when `av_read_frame` fails
  (1385-1390), which is the guard of `BeginFlush`.
* `EndKate` is 1780-1790 of ffmpeg2theora.c, one Kate stream with its flush per step; `NextPass` the
  second turn of the pass loop, which initialises the stream states but not the counters.

Left out: everything only printed (`k_pkg`, byte counts, rates), allocation failure, the contents of
packets. A short `fwrite` is printed and then treated as a full one, so in the model a write is done.

### SeekIndex

One stream from its first packet to its index packet. `Packet` is `seek_index_record_sample` with the
`ogg_stream_packetin` that follows, called by `AddVideo`, `AddAudio` or `AddKate` with the times these
functions compute; `WritePage` is `seek_index_record_page` with the page libogg cut. Then
`write_index_pages`: `NextPage` is a turn of its inner `while`, `SkipPacket` and `AddKeypoint` are the
two ways a turn of the `for` ends, `WriteIndex` the rest. The search variables have the names of the
C locals; indices start at 1. `starts` is a history variable: the packets that really start on each
page, which the code has to recover by counting.

Times are in milliseconds, so `ceil(duration / keypoints_per_second)` is a rounding-up division; the
default reserve `(int)(n * 5.1)` is `(n * 51) \div 10`. Not modelled: growing the arrays
(`ensure_capacity`) and its failure, the 42 bytes in front of the keypoints, `ogg_int64_t` overflow.
The loops of `VlInt` are recursive functions on the naturals, one byte or one bit a turn.

### Skeleton

The file is a sequence of cells and a write position; a page is as many cells as it is long, so that a
page written over another of a different length leaves parts of both. `pc` is the part of `oggmux_init`
that is being done, `todo` the streams it has still to do: Theora, Vorbis, then the Kate streams.
`WriteFishead` writes the fishead of Skeleton 3, and `write_page` finds out by it whether the output can
be seeked; if so `RewriteFishead` starts a Skeleton 4 stream with another serial number over it. A page
of `PageSegments` (255) segments is full, so a large index takes several. At the end `RewriteBOS` and
`RewriteIndex` encode the track a second time: `Recount` is the number of the page behind the discarded
fisbones, `SkipIndex` the early return for a stream without keypoints. `PageoutFlush` is the loop of
`write_index_pages`, which is not the one (`FlushLoop`) that wrote the placeholders; that both cut the
same pages is part of `InPlace`. `Fail` is a failed seek or allocation.

### ConversionLoop

One turn of either decoding `while` is one step, and so is what lies before, between and after them
(`pc`). The variables have the names of the code's; frames and chunks of samples are the numbers in
which they were decoded. `input` is what the first pass has read: the second reads the same. The decoders
are external (`DecodeVideo`, `DecodeAudio`): the video decoder holds `job.delay` frames and returns them for
empty packets; given a packet of another stream, which happens when the end time is reached
(ffmpeg2theora.c:1416-1423), it leaves the packet or swallows it. `Delta` is `ivtime - ovtime`. The code
computes it in floating point from time stamps in the input's time base; here time has any unit of which
`FrameTime`, a constant, make a frame, so that two clocks may be any fraction of a frame apart: thresholds
(-0.6 and 1.5 frames) and `Rounded` are those of the code for every such fraction. What floating point
adds, a rounding error at a threshold itself, is left out. `dst_nb_samples` has no initial value in the
code: `Init` leaves it open.

`DropFrame` is the `break` at 1447, `EncodeTurn` the rest of the turn with the frame held back
(`output_buffered`), `Calls` the repetitions, which are given one by one when libtheora refuses so many.
`AudioTurn` has the clipping at the end time and, at the end of the input, the last chunk again. In a
second pass `this` is the one of the first, but for `frame_count` (1262) and the sync offset.

Left out: the set-up before the loop, scaling, filters and what pixels and samples hold. Audio frames
have `ChunkSamples` samples each.

### SubtitleFile and SubtitleFeed

`SetField` is the four `set_subtitles_*` functions, which look for the first stream that lacks the field;
`RefuseEncoding` is an unknown encoding, after which nothing is set. `AddEmbedded` adds the streams of
the input. The loop over the streams follows: `SkipEmbedded`, `OpenFile`, `OpenFails`, and then a step for
each thing `load_subtitles` can do with a line in state `need`. `TakeOut` is the `memmove` with its
`--i`. `Seek` skips what is over at the start time; each round of the conversion loop is `ReadEmbedded` or
`ReadOther`, `Feed`, and `Flush`, which moves the times of the pages written on.

A line is what `sscanf` can tell of it; "bytes" is text that is no UTF-8. Times are in half seconds, so that
the second of advance is `Lead = 2`. Left out: the 4096 bytes of the text buffer, the byte order mark,
failing conversions, and the bitmaps of image subtitles.

### FrontendQueue

Three actors over one dictionary without a lock: the GUI thread (one handler at a time, cut where the
encoding thread may see what it has done so far), the thread of `encodeQueue`, and the child process.
`items` is what the Python objects hold, which live on in the thread when the queue has dropped them;
`queuedata` and `rows` are the dictionary and the list control, `itemID` the row an item believes to be in. The
handlers: `Add`, `Show`, `Offer` for `OnClickAdd`; `ClickRemove`, `EndCancel`, `Delete`, `Clear`, `Fill` for
`OnClickRemove`; `Encode`; `Close`, `CloseItem`, `EndKill`, `Destroy` for `OnClose`. The thread: `Pick`, `Begin`,
`Popen`, `Publish` (`self.p = p`), `Wait`, `Result`, `End`, and `Die` when `setItemStatus` raises.
`Raise` is `Popen` failing (no process can be started, or the arguments cannot be encoded), or the `wait()` of an
old Python when the `poll()` of `cancel()` (theoraenc.py:97) got the status of the process first, which
`Cancelled` leaves open: nothing catches either, the thread is over, and `encoding` stays set.
`queuedata.items()` gives the keys in ascending order. Dictionaries of Python 2 do so for integers below
the size of their table, which is 8 at least and grows with its entries: always for the three videos of
the run, but not after many were added and removed, when keys pass the size of a small table. The theorems for any
number of videos hold for an ascending order.
Left out: the texts, the thread that reads them from the child, and that it may be refused its start (after
which the process would go on without being waited for).

## 3. The runs

| run | what it shows |
|---|---|
| `mux_order` | one pass, both streams, a subtitle stream, no end time: `Conservation`, `BoundedBacklog`, `Drained`, `InOrder`, and the refinement `Reliable` |
| `mux_modes` | all three modes, one pass and two, streams ending in different rounds, two competing subtitle streams: `PkgCounts`, `KateFirst`, and that every run ends (`Finishes`) |
| `mux_end_time` | counterexample to `InOrder` with an end time |
| `mux_second_pass` | counterexample to "v_pkg is the number of waiting packets" in a second pass |
| `seek_index` | all three kinds of stream: the page is found (`PageExists`), keypoints are exact, spaced, near before every target packet (`Covers`), suffice, read back, are counted right and lie in the written range |
| `loop` | the conversion loop: frames once and in order (`FramesInOrder`), less than half a frame early and at most 1.6 frames late (`InSync`), the same in both passes (`PassesAgree`); audio once, in order, and up to the end time (`AudioOnce`); streams ended (`StreamsEnded`); the loop is left (`Terminates`) |
| `loop_eos` | counterexample to "the flagged frame is the last one" with a decoder that delays frames |
| `loop_end_time` | counterexample to "encoding ends at the end time" when a gap is filled with repeated frames |
| `skeleton` | headers in order (`HeadersFirst`), page numbers without a gap (`NumbersKept`), rewriting changes only the pages meant (`InPlace`), and the fishead is true at the end (`HeaderTrue`) |
| `subtitles` | options find their file (`Labelled`), files are read as the records they hold (`RecordsRead`), subtitles are fed once, in order and none forgotten (`NoneLost`), and early enough (`FedInTime`) |
| `frontend` | queue and list agree between clicks (`QueueShown`), no video is encoded twice nor two at a time and the process of a removed one is over (`OnceEach`), closing stops the encoding (`ClosedStops`), waiting videos are encoded (`Served`) |
| `index_reserve` | counterexample: reserving exactly the bytes needed drops the last keypoint |

Bounds. `mux_order` has three packets in each of video and audio and one or two in the subtitle
stream (the end packet), of one or two fragments; with `FlushAt = 1` instead of 22 the "23-packet
rule" fires on the second waiting packet, so that it, a page that waits, a page that is forced, and a
packet cut in two meet in every order. Video packets last 2, audio packets 0 or 3 (the first Vorbis
packet has no samples of its own), so that ties and both orders occur. `mux_modes` trades fragments
and packets for modes, passes and a second subtitle stream. `seek_index` has four packets of one or
two segments on pages of any segments: the target of a Vorbis page is its second packet, so four are
two targets with a skipped packet between; steps of 1 and 3 around an interval of 2 make keypoints
that are too close and that are far enough; offsets of 90 and of multiples of 130 take one and two
bytes; a reserve of 6 is less than two keypoints take.

`loop`: `MCJobs` are nine sets of options: a decoder that delays a frame or none, a start time, an
end time that falls on a chunk of audio or into one, audio or video alone, `--nosync`; each with one pass
and, where there is video, two. A frame lasts 20. Three packets of twelve kinds: a frame on time, one too
soon by 12 (after a packet with two frames it just is not dropped), one late by 9 (it just is not repeated), one
late by a frame and a half (repeated, more often than `Keyint`, and a tie for rounding), two frames in a packet (when that
comes twice in a row, one is dropped), one or two chunks of audio, another stream, packets that fail and packets before the start
time. Both bounds of `InSync` are reached: a frame starts 9 early and 32 late. So the end time is reached between
packets of either stream and inside one, and drops, repetitions and the held-back frame meet.

`skeleton`: audio only, video only, both with a subtitle stream, video with two; pages of two
segments and indexes of one to three, so that an index is shorter than a page, fills it, or takes two.

`subtitles`: every file of up to six lines of four kinds, which is a whole record, an empty line and a
record cut short, and every file of up to four with invalid bytes; every order of up to five options
over a broken, an invalid, a good and a missing file; and three rounds of feeding of a sorted and an
unsorted file and an embedded stream, with pages that advance by 0, by half a second or by more than
the second of advance.

`frontend`: three videos, so that one is encoded, one waits and one is added or removed meanwhile; every
interleaving of clicks, thread and child, with the thread dying of either cause.

| run | distinct states |
|---|---|
| `loop` | 333,203 |
| `skeleton` | 279,696 |
| `subtitles` | 131,301 |
| `frontend` | 96,993 |

Fairness. `FairSpec` has `WF_vars(Next)` and nothing more: one thread runs the program, and some step
is always possible until the file is closed. That the input ends is the bound `MaxVideo`, `MaxAudio`:
`av_read_frame` fails after finitely many packets. The only cycle the code could have is
`while (1)` in `oggmux_flush`, and that is what `Finishes` is about.

`ConversionLoop` has the same `WF_vars(Next)`: one thread, and an input that ends (`MaxPackets`). The
cycles are the two decoding loops, which go round on flags as well as on data, and reading packets after
the end time; `Terminates` says that none goes on for ever. `FrontendQueue` has weak fairness for the encoding
thread, which the interpreter schedules, and for `ChildEnds`, an encoding comes to its end; nothing
makes the user click, so handlers have none. `Served` therefore is about the videos waiting while the thread
runs. `Skeleton` and the subtitles state safety only.

## 4. Findings

* **`mux_end_time`**. The caller passes `video_eos + audio_eos` as `e_o_s` (ffmpeg2theora.c:1775), so
  the end of *one* stream opens the branches meant for "EOS, for the remaining stream" (1802-1805), and
  a page of the other goes out with no look at order. Without an end time both flags are raised in the
  same round, and `InOrder` is proved.
* **`mux_second_pass`**. `v_pkg` counts the packets of the first pass, which writes no page, and is not
  cleared for the second. From its first packets on the rule `v_pkg > 22` holds and every page is
  forced out: seeking works, the file has more and smaller pages than with one pass.
* **`index_reserve`**. `index_bytes < packet_size` (599) should be `<=`: the number printed by the
  warning as the reserve "to ensure a complete index" is one byte short, and the second time there is
  no warning, because that tests `index_bytes > packet_size` (605).
* **`loop_eos`**. At the end of the input the loop asks the decoder for the frames it holds and submits
  each with `e_o_s = 1`, the first of them the frame held back (ffmpeg2theora.c:1533-1548). The comment on
  `oggmux_add_video` (1116-1121) says the flag ends the stream; with a delay of one frame or more, frames
  follow the flagged one.
* **`loop_end_time`**. `frame_count == no_frames` (ffmpeg2theora.c:1412) is looked at once per packet, and
  `frame_count` grows by `dups + 1`: when a gap is filled with repeated frames it jumps over the equality, and
  video goes on to the end of the input.

The properties that hold name what they leave out, and so what a maintainer may want to change:
`NumbersKept` the page numbers behind a stream without keypoints (539), `StreamsEnded` the audio that is exactly
as long as asked for, `Covers` the subtitle that starts before an earlier one, `Served` the encoding thread that
dies over a list being rebuilt (Simple Theora Encoder.py:105) or because `Popen` or `wait()` raises
(theoraenc.py:113, 157), `OnceEach` and `ClosedStops` the process that is not yet in `self.p` when its video
is removed or the window is closed (theoraenc.py:113), `QueueShown` the video added while the thread is
about to end.

## 5. What is proved

`OggMuxProofs.tla`, for any number of Kate streams, packets, fragments and any durations:

* `TypeCorrect`: `Spec => []TypeOK`; in particular `v_pkg` and `a_pkg` never become negative.
* `NothingLost`: `Spec => []Conservation`.
* `CountersRight`: `Spec => []PkgCounts`.
* `Refinement`: `Spec => Reliable`, that is, `OggMux` implements `LogicalStreams` with the histories
  `submitted` and `written` for `sent` and `delivered`.
* `Interleaving`: with `EndTime = FALSE`, `Spec => InOrder`.

Assumptions: the two `ASSUME`s of `OggMux` on its constants, and `EndTime = FALSE` where stated.

The argument. `IInv` is `TypeOK`, `Conservation`, `PkgCounts` and the fact that nothing is written
before a second pass. `PkgCounts` is not inductive without types and `Conservation` is not without the
shape of a fetch: `FetchStream` says that what a stream holds after the fetch followed by what stays
queued is what it held followed by what was queued, which is the only place where the page policy of
libogg is used. `CountConcat` (packets of a concatenation are the sum of the packets) then gives the
counters. Each action is one step of `NextIInv`. `StepRefines` maps every step of `OggMux` to a `Send`,
a `Deliver`, a `Restart` or a stutter.

`InOrder` speaks of two states and of pages yet to come, so its strengthening `OrderInv` follows every
fragment through the queue: the times of a stream's fragments do not decrease and none lies before the
stream's own time (`Ordered`), the last page written (`mark`) is not later than that time unless the
stream is flagged and has nothing left (`Exhausted`), and a flag means that the e_o_s packet is queued
or that nothing is (`Flagged`), so that libogg gives out all there is. During a flush the two flags are
equal, and that is the part that fails with an end time. `FetchOrdered` shows that a fetch moves the
time of a stream forward and not past the next fragment, `WritePageOrder` that the page chosen is the
earlier one or that the other stream is exhausted.

Both invariants were checked with TLC on the runs' instances before they were proved.

`OggMuxFlushProofs.tla`, of the same module under the same assumptions:

* `EverythingWritten`: `Spec => []Drained`. Nothing is left when the file is closed.
* `BacklogBounded`: `Spec => []BoundedBacklog`. After every flush one stream of the file holds no page and has at
  most `FlushAt` packets waiting, however far ahead the other is.
* `SubtitlesFirst`: `Spec => KateFirst`. No audio or video page overtakes a subtitle page due at its time.

`SubtitlesFirst` needs no more than that a page is written only if `Due` says so, in all six branches. For the end,
`DrainInv` says that from the flush in which all streams have ended no stream holds a page or a packet (`Idle`): that flush
stops only when no page was held and none could be fetched (`LastFlush`), and with the end of a stream queued
libogg holds nothing back. For the backlog, a flush that stops was asked for a page of the stream that has none
(`FlushBreakBounds`): either its count was over the limit, then all that is queued would have been given, or
the count, which is never too low (`PkgCounts`), bounds what waits.

`SeekIndexProofs.tla`, for every kind of stream, any packets, pages, times, interval and duration:

* `PageAlwaysExists`: `Spec => []PageExists`, the assertion of `write_index_pages`.
* `IndexExact`, `KeypointsSpaced`, `IndexCovers`, `KeypointsSuffice`, `RangeCorrect`: the same for
  `KeypointsExact`, `Spaced`, `Covers`, `EnoughKeypoints`, `RangeHolds`.
  `IndexCovers` is about the packets the loop may make keypoints of, the target packet of each page (the first
  to start on it, the second for Vorbis): one that got none has one before it, at most the interval away. It
  says nothing of a keyframe that is not the target of its page. Kate packets that start before an earlier one are
  exempt: the keypoint that kept them from becoming one may lie behind them.
* `TypesHold`: `Spec => []TypeOK`, `BytesAgree`: `Spec => []BytesCounted`, `IndexReadable`: `Spec => []Readable`.
* `NumbersReadBack`: for every sequence of numbers, `Decoded(AllBytes(nums)) = nums`.

Assumption: `IndexAssumption`, with `Interval < INT_MAX`, which is what makes the first keypoint (compared with
a time of `-INT_MAX`) far enough from none. The index keeps no packet numbers of pages, only how many packets
start on each, so the invariant (`IndexInv`) speaks of a `cum` with `cum[p]` the number of the last
packet that starts on the first `p` pages (`Numbered`): it exists because packets start in order and none
is skipped, also while some wait in the queue. `Walked` says that the search stands at
`last_packetno = cum[pageno - 1]`, has all keyframes looked at on or before its page, and in
`packet_in_page` how many of them start on it. `Kept` says what a keypoint is and that the last one cannot
be found again on the same page; spacing and the number of keypoints follow. For covering, `Recorded` says of Theora and Vorbis that the
recorded times grow, so that what is too close to the last keypoint lies behind it.

The last four are about data of any length. `Induction` (a set of numbers that has every number below which it has all
is the set of all, from the well-founded order of the naturals) needs no operator as a parameter, and `Recursion` gives
a function that satisfies a recursive equation, by which `BitsIs`, `PutIs` and `DecodedUnfolds` unfold the recursive
functions. A folded sequence is unfolded at its end by `FlattenUnfolds`. `BytesRequiredIs` compares bits
and bytes, seven to one; `ReadsBack` undoes one number, `NumbersReadBack` a sequence of them. `Counted` says of a state
that the bytes are counted, that the keypoints' times and offsets grow, so that their differences are naturals, and that
those dropped for want of room are the last ones.

`ConversionLoopProofs.tla`, for inputs of any length, any options and any delay of the decoder:

* `TypeCorrect`: `Spec => []TypeOK`. Types alone are not inductive: `sample_count` must not pass
  `no_samples` (`WithinEnd`), or clipping would give a negative number of samples.
* `StaysInSync`: `Spec => []InSync`. `SyncInv` adds that the offset is set with the first frame buffered and
  that a packet at the end of the input has no data, so no frame without a time is compared with one. It holds for
  every `FrameTime`: `RoundedIs` says what rounding gives, and `Corrected` that a frame which is not dropped
  ends up within the bounds, repeated or not.
* `AudioInOrder`: `Spec => []AudioOnce`. Most of it is about what comes after the end: once `audio_done` is
  set, nothing more can be encoded (`AudioOver`), because as many samples as asked for are
  encoded, or the input is over; and the audio section is not entered again but by a packet of audio,
  whose chunk is then clipped to nothing (`AudioControl`).

`ConversionEndProofs.tla`, of the same module:

* `FramesKeepOrder`: `Spec => []FramesInOrder`, for any input and any delay of the decoder.
* `EveryStreamEnds`: `Spec => []StreamsEnded`.
* `SecondPassAgrees`: `Spec => []PassesAgree`.

`LoopInv` adds `EndInv` to the invariants above. `FrameOrder` says that the frames kept, the one in the buffer and those
the decoder still holds follow each other in the order of decoding, and `CallOrder` that the calls follow that order
and that of the frames kept all were given to the encoder but perhaps the last. What makes the end provable is control: which flags can be set at which `pc` (`FlagsRight`), that `video_done` means a flagged call
and, in the plain case, that it was the last, that behind the end of the input the video part is not left
without it (`VideoControl`), and that audio is over
either by its last call or with exactly the samples asked for (`AudioEnd`).

`PassesAgree` relates two whole passes, which share only the input. What a turn does to video, as long as `video_eos` is
not set, is a function (`After`) of the options, the input and a part of the state, the `View`: the packet in the video
section, the decoder, the buffer, the counters and the calls so far. The turns of the audio section, which the second
pass has and the first has not, leave the view alone (`StepMoves`). `Agree` says that there is a
`Chain` of views, each the one after the last, that the first pass has gone along so far, up to the view with which
`video_eos` is set; and that the second pass is somewhere on it, or behind its end, where only flagged calls follow
(`Ended`). A chain stays one as the input becomes known (`ChainGrows`). `PassControl` adds that before its
end video is not done, so that no pass is left early, and that the first pass has read what is known of the input.
`FramesOfPass`, the reset of `frame_count`, is used where the second pass has to start with the first view of the
chain (`NextAgree`).

`SkeletonProofs.tla`, for any streams, any length of a page (`PageSegments`), any sizes of the indexes, all
options and outputs:

* `TypesHold`: `Spec => []TypeOK`.
* `TrackInPlace`: `Spec => InPlace`.
* `PagesNumbered`: `Spec => []NumbersKept`.
* `HeadersInOrder`: `Spec => []HeadersFirst`.
* `HeaderTells`: `Spec => []HeaderTrue`.

Assumption: `SkeletonAssumption`; there is at least one stream, as the program otherwise writes nothing
(ffmpeg2theora.c:1836). The invariant `Inv` has ten parts. `Control` ties the flags to `pc`: the write position is the
end of the file until the index is written, and what is known of the output is what its first page showed. `Whole`,
`Serials`, `Ranked`, `Begun` and `Kinds` are about every cell of the file: pages in one piece, one serial number
for each stream, ranks that do not fall, whose first page is there, where the content starts. `Headed` is the
fishead. `Located` says for every stream where its placeholder is (`PlacedWhen`, `PlaceFits`), that no other cell
carries the stream's name (`PlaceMarks`), and that the cells are those `FlushLoop` cuts from one packet of that size
(`PlaceHolds`). From this a rewritten index fits: `PagesAlike` proves by the arithmetic of quotients that the loop of
`write_index_pages` cuts any packet into the pages the placeholder's loop cut. `Counted` is about page numbers:
`PlaceNumbers` relates the number each placeholder starts with to the one before it in turn, and `TurnNumber` says
that the second count is again at that number as long as no stream was left out. Then three lemmas on the file
do for all actions: a step appends a block (`Appends`), writes over pages of the same extent (`Over`), or leaves the
file alone (`FileCases`); `RewriteFishead` alone changes an extent, when the fishead is all there is.
`CountAppend` counts over an append by a bijection, without induction over the file.

`SubtitleProofs.tla`, for any options, files and lengths:

* `TypesHold`: `Spec => []TypeOK`.
* `NamesBelong`: `Spec => []Labelled`, for any order of any number of options.
* `EverySubtitleFed`: `Spec => []NoneLost`, and `SubtitlesInTime`: `Spec => []FedInTime`.
* `FilesRead`: `Spec => []RecordsRead`, for any files.

`Shape` is what the stages of reading (`FileShape`) and feeding (`FeedShape`) leave in the variables. For the
options, the fields of every kind are filled from the front (`Numbered`), so that the first stream that lacks a field
is the one the option belongs to; taking a stream out moves the later ones together with their names
(`StreamsStay`). For feeding, the subtitles fed are a first part of the list behind those skipped at the
start (`KeptInv`), and when a stream stopped the next one was not due (`StoppedInv`), so the ones behind it are fed later.

`RecordsRead` compares what the parser leaves behind with what the file holds, a set of records found without it.
`ParserInv` connects the two line by line: the subtitles of the stream are the records that ended so far
(`Closed`), and what the parser remembers is the record it is in (`Automaton`). A line ends no record unless it is the empty one
behind a text (`ClosedStays`, `ClosedGrows`); the record that ends is the last one so far, so it goes to the end of the list
(`RecordAdded`); at the end of the file none is missing but the one left over (`AllClosed`,
`LastClosed`). `ArrayInv` is about the array while it is walked: the streams of files are in the order of the command
line, every good file still has one, and those in front of the index have what their files hold (`Right`). A stream that is
taken out has a file that is not good: it cannot be opened, it has a syntax error (`ErrorIs`), or it ends
without a record, which depends on the encoding its stream was given, hence on `Labelled` (`EncodingGiven`).

`FrontendQueueProofs.tla`, for any number of videos:

* `TypesHold`: `Spec => []TypeOK`, and `ListRight`: `Spec => []QueueShown`;
* `EncodedOnce`: `Spec => []OnceEach`, and `ClosingStops`: `Spec => []ClosedStops`.

The invariant has six parts: what an item is (`ItemsInv`), that the queue holds what was not removed under
its own key (`QueueInv`), that the thread's video had neither a process nor an end before it was picked and no
other has one running (`ThreadInv`), that a started video is encoded or being encoded (`StartedInv`), what
`OnClose` has settled so far (`CloseInv`), and that the thread passes the flag `quit` at most once after it is
set (`QuitInv`). `GoneInv` adds that a removed video's process is over if it was known when Remove was clicked, from the
moment `cancel()` is done with it: no process that is over starts again (`OverKept`). `Min` of a set is a `CHOOSE`; that it exists follows from the well-founded order of the
naturals (`Least`).

`QueueShown` needs two more. `RowsInv`: the list shows the queue except between the steps of a handler; a
video that is not shown yet has the greatest key and the number of the next row, so appending its row keeps the order.
`ButtonInv`: once the thread has found nothing to encode, a video that waits is offered by the button, is late, or is
just being offered. Both lean on `Listing`, the keys in ascending order, which is a `CHOOSE` as well: a number's place
is how many are not greater (`PlaceGrows`); places are all different, hence they are all of `1 .. n`
(`ListingExists`), and an ascending list is the only one (`ListingIs`).

### Model-checked only

* `Finishes`, `Terminates`, `Served`: liveness is out of the prover's reach.

## 6. Not modelled, and what is left

Nearly all lines below `src/` are the vendored FFmpeg (`ffmpeg/`). It is third-party code, seen through
`av_read_frame` and the decoders, whose answers are choices in `ConversionLoop`. The program's own code is
some 8,000 lines, 1,000 of them the frontend's. Of these are not modelled:

* option parsing and checks in `main`, about 1,000 lines of independent assignments;
* the set-up in `ff2theora_output`: geometry, aspect, scaling, filters, codec parameters; and what
  `oggmux_add_*` compute of granule positions, rates and progress;
* the statistics file of the two passes, an exchange of bytes with libtheora;
* `avinfo.c` and `iso639.c`: output of fields, byte functions and a table;
* the dialogs of the frontend, the texts in its list and the thread that reads them;
* out-of-memory paths, short writes and failing conversions, after which the code promises nothing;
* the export script for Kino and the build scripts.

## 7. Running

    tlc -workers 2 -config MuxOrder.cfg OggMux.tla
    tlc -workers 2 -config Loop.cfg MCConversionLoop.tla
    tlapm ConversionLoopProofs.tla
