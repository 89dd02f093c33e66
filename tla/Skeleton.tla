------------------------------ MODULE Skeleton ------------------------------
(***************************************************************************)
(* The headers of the Ogg file and its Skeleton track: oggmux_init and     *)
(* write_seek_index (src/src/theorautils.c). Before the first content page *)
(* oggmux_init writes a fishead, the first page of every stream, the       *)
(* fisbones, the other header pages, and for every stream a placeholder    *)
(* packet for its keyframe index. When everything is encoded               *)
(* write_seek_index encodes the Skeleton track a second time and writes    *)
(* the fishead and the index pages over those in the file.                 *)
(*                                                                         *)
(* The file is a sequence of cells with a write position, and a page is as *)
(* many cells as it is long, so a page that is written over another of     *)
(* another length leaves parts of both. libogg (external) cuts packets     *)
(* into segments and fills a page with PageSegments of them.               *)
(* A first pass writes no page and is not modelled.                        *)
(***************************************************************************)
EXTENDS Integers, Sequences, FiniteSets

CONSTANTS
    NKate,          \* n_kate_streams
    Inputs,         \* which of the streams there may be
    Options,        \* subset of {"none", "3", "4"}: --no-skeleton, --skeleton-3
    Outputs,        \* subset of BOOLEAN: whether the output can be seeked
    Durations,      \* subset of BOOLEAN: whether the media's duration is known
    PageSegments,   \* segments on a full page (255)
    IndexSegments,  \* possible sizes of an index packet, in segments
    MaxContent      \* bound: content pages

Theora == -2
Vorbis == -1
Kate == 0 .. NKate - 1
Streams == {Theora, Vorbis} \cup Kate
Skel == -3

(* Without any stream nothing is written ("No video or audio stream found.").  *)
ASSUME SkeletonAssumption ==
    /\ NKate \in Nat
    /\ Inputs \subseteq SUBSET Streams /\ {} \notin Inputs
    /\ Options \subseteq {"none", "3", "4"}
    /\ Outputs \subseteq BOOLEAN /\ Durations \subseteq BOOLEAN
    /\ PageSegments \in Nat \ {0}
    /\ IndexSegments \subseteq Nat \ {0}
    /\ MaxContent \in Nat

VARIABLES
    present,          \* audio_only, video_only, n_kate_streams
    option,           \* with_skeleton and skeleton_3 as the user gave them
    outfile,          \* the output can be seeked
    duration,         \* info.duration is not -1
    pc,               \* the part of oggmux_init, "content", "index" or "done"
    todo,             \* streams this part has still to do
    file, position,   \* outfile and its ftello
    output_seekable,  \* "maybe", "yes" or "no"
    skeleton_3,
    serialno,         \* the serial number of the Skeleton stream `so`
    pageno,           \* number of the next page of `so`
    page_location,    \* of every index, 0 before it has one
    packet_size,      \* of every index, in segments
    content_offset,   \* 0 before it is known
    indexed           \* streams with packets in their index

input == <<present, option, outfile, duration>>
so == <<serialno, pageno>>
index == <<page_location, packet_size>>
vars == <<input, pc, todo, file, position, output_seekable, skeleton_3, so, index,
          content_offset, indexed>>

-----------------------------------------------------------------------------
(* Pages. data is the version, file length and content offset of a fishead; of *)
(* an index page its stream, and 1 for an index or 0 for a placeholder.        *)
Page(stream, kind, serial, no, size, data) ==
    [i \in 1 .. size |-> [stream |-> stream, kind |-> kind, serial |-> serial, no |-> no,
                          part |-> i, size |-> size, data |-> data]]

(* fwrite at a position of the file: over what is there, and past the end.     *)
WriteAt(at, pages) ==
    LET end == at + Len(pages)
    IN  /\ file' = [i \in 1 .. IF end > Len(file) THEN end ELSE Len(file) |->
                      IF i \in at + 1 .. end THEN pages[i - at] ELSE file[i]]
        /\ position' = end

(* write_page, once for every page. The first one shows whether the output can *)
(* be seeked.                                                                  *)
Write(pages) ==
    /\ WriteAt(position, pages)
    /\ output_seekable' = CASE output_seekable # "maybe" -> output_seekable
                            [] output_seekable = "maybe" /\ outfile -> "yes"
                            [] output_seekable = "maybe" /\ ~outfile -> "no"

(* A stream's pages from number no on that hold a packet of n segments, each   *)
(* as long as its segments: ogg_stream_flush until nothing is left.            *)
PageCount(n) == (n + PageSegments - 1) \div PageSegments

PageOf(i) == (i - 1) \div PageSegments

FlushLoop(n, serial, no, data) ==
    [i \in 1 .. n |->
        LET first == PageOf(i) * PageSegments
            size == IF first + PageSegments <= n THEN PageSegments ELSE n - first
        IN  [stream |-> Skel, kind |-> "header", serial |-> serial, no |-> no + PageOf(i),
             part |-> i - first, size |-> size, data |-> data]]

(* Mutant: without the flush after the loop.                                   *)
PageoutOnly(n, serial, no, data) ==
    FlushLoop((n \div PageSegments) * PageSegments, serial, no, data)

(* write_index_pages: ogg_stream_pageout gives the full pages, one             *)
(* ogg_stream_flush the rest.                                                  *)
PageoutFlush(n, serial, no, data) ==
    LET full == (n \div PageSegments) * PageSegments
    IN  FlushLoop(full, serial, no, data)
          \o Page(Skel, "header", serial, no + n \div PageSegments, n - full, data)

(* add_fishead_packet: 64 bytes in Skeleton 3, 80 in Skeleton 4.               *)
Fishead(version, serial, length, offset) ==
    Page(Skel, "bos", serial, 0, IF version = 3 THEN 1 ELSE 2, <<version, length, offset>>)

(* add_fisbone_packet: a packet of one segment for every stream.               *)
Fisbones == Cardinality(present)

(* The streams take their turn: Theora, Vorbis, the Kate streams.              *)
Turn(s) == s \in todo /\ \A r \in todo : s <= r

(* Serial numbers are counted up as the streams are initialised: Vorbis takes  *)
(* the first one even without audio, then Theora, Kate, Skeleton.              *)
Before(s) == IF s = Vorbis THEN {} ELSE {r \in present : r < s /\ r # Vorbis} \cup {Vorbis}

Serial(s) == Cardinality(Before(s))

NextSerial == Cardinality(present \cup {Vorbis})

(* if (info.passno != 1 && !info.skeleton_3 && info.with_skeleton)             *)
Indexing == option # "none" /\ ~skeleton_3

-----------------------------------------------------------------------------
Init ==
    /\ present \in Inputs
    /\ option \in Options
    /\ outfile \in Outputs
    /\ duration \in Durations
    /\ pc = IF option = "none" THEN "bos" ELSE "fishead"
    /\ todo = present
    /\ file = << >> /\ position = 0
    /\ output_seekable = "maybe"
    /\ skeleton_3 = (option = "3" \/ (option = "4" /\ ~duration))
    /\ serialno = NextSerial /\ pageno = 0
    /\ page_location = [s \in present |-> 0]
    /\ packet_size \in [present -> IndexSegments]
    /\ content_offset = 0
    /\ indexed = {}

(* The fishead of Skeleton 3, which tells whether the output can be seeked.    *)
WriteFishead ==
    /\ pc = "fishead"
    /\ output_seekable = "maybe"
    /\ Write(Fishead(3, serialno, 0, 0))
    /\ skeleton_3' = (skeleton_3 \/ ~outfile)
    /\ pc' = IF skeleton_3' THEN "bos" ELSE "fishead"
    /\ pageno' = 1
    /\ UNCHANGED <<input, todo, serialno, index, content_offset, indexed>>

(* If it can, a new Skeleton 4 stream overwrites it: fseeko to 0. The length   *)
(* of the file and the content offset are not known yet.                       *)
RewriteFishead ==
    /\ pc = "fishead"
    /\ output_seekable # "maybe"
    /\ WriteAt(0, Fishead(4, serialno + 1, -1, content_offset))
    /\ serialno' = serialno + 1
    /\ pageno' = 1
    /\ pc' = "bos"
    /\ UNCHANGED <<input, todo, output_seekable, skeleton_3, index, content_offset, indexed>>

(* Mutant: the other headers of a stream are flushed with its first page.      *)
FirstPagesAll(s) ==
    Page(s, "bos", Serial(s), 0, 1, << >>) \o Page(s, "header", Serial(s), 1, 1, << >>)

(* "first packet will get its own page automatically"                          *)
FirstPages(s) == Page(s, "bos", Serial(s), 0, 1, << >>)

WriteFirstPage(s) ==
    /\ pc = "bos"
    /\ Turn(s)
    /\ Write(FirstPages(s))
    /\ todo' = IF todo = {s} THEN present ELSE todo \ {s}
    /\ pc' = IF todo # {s} THEN "bos" ELSE IF option = "none" THEN "headers" ELSE "fisbones"
    /\ UNCHANGED <<input, skeleton_3, so, index, content_offset, indexed>>

WriteFisbones ==
    /\ pc = "fisbones"
    /\ Write(FlushLoop(Fisbones, serialno, pageno, << >>))
    /\ pageno' = pageno + PageCount(Fisbones)
    /\ pc' = "headers"
    /\ UNCHANGED <<input, todo, skeleton_3, serialno, index, content_offset, indexed>>

(* "Flush the rest of our headers."                                            *)
WriteHeaders(s) ==
    /\ pc = "headers"
    /\ Turn(s)
    /\ Write(Page(s, "header", Serial(s), 1, 1, << >>))
    /\ todo' = IF todo = {s} THEN present ELSE todo \ {s}
    /\ pc' = CASE todo # {s} -> "headers"
               [] todo = {s} /\ option = "none" -> "content"
               [] todo = {s} /\ option # "none" /\ skeleton_3 -> "end"
               [] todo = {s} /\ Indexing -> "placeholders"
    /\ UNCHANGED <<input, skeleton_3, so, index, content_offset, indexed>>

(* write_index_placeholder_for_stream                                          *)
WritePlaceholder(s) ==
    /\ pc = "placeholders"
    /\ Turn(s)
    /\ page_location' = [page_location EXCEPT ![s] = position]
    /\ Write(FlushLoop(packet_size[s], serialno, pageno, <<s, 0>>))
    /\ pageno' = pageno + PageCount(packet_size[s])
    /\ todo' = IF todo = {s} THEN present ELSE todo \ {s}
    /\ pc' = IF todo = {s} THEN "end" ELSE "placeholders"
    /\ UNCHANGED <<input, skeleton_3, serialno, packet_size, content_offset, indexed>>

(* The e_o_s page of the Skeleton stream ends the headers.                     *)
WriteEnd ==
    /\ pc = "end"
    /\ Write(Page(Skel, "header", serialno, pageno, 1, << >>))
    /\ pageno' = pageno + 1
    /\ content_offset' = position'
    /\ pc' = "content"
    /\ UNCHANGED <<input, todo, skeleton_3, serialno, index, indexed>>

-----------------------------------------------------------------------------
(* A page of stream s is written, with packets that are recorded in the index  *)
(* or without (a Kate stream may hold an end packet only).                     *)
WriteContent(s) ==
    /\ pc = "content"
    /\ Cardinality({i \in DOMAIN file : file[i].kind = "content"}) < MaxContent
    /\ s \in present
    /\ Write(Page(s, "content", Serial(s), 2, 1, << >>))
    /\ \E recorded \in BOOLEAN : indexed' = IF recorded THEN indexed \cup {s} ELSE indexed
    /\ UNCHANGED <<input, pc, todo, skeleton_3, so, index, content_offset>>

NoIndex ==
    /\ pc = "content"
    /\ ~Indexing
    /\ pc' = "done"
    /\ UNCHANGED <<input, todo, file, position, output_seekable, skeleton_3, so, index,
                   content_offset, indexed>>

(* Mutant: the fisbones are left out when the track is encoded again.          *)
RecountNoFisbones == 1

(* "Encode and discard fisbone packets": the number of the next page.          *)
Recount == 1 + PageCount(Fisbones)

(* write_seek_index: a new stream with the old serial number, the fishead at   *)
(* the start of the file, the fisbones discarded.                              *)
RewriteBOS ==
    /\ pc = "content"
    /\ Indexing
    /\ WriteAt(0, Fishead(4, serialno, Len(file), content_offset))
    /\ pageno' = Recount
    /\ todo' = present
    /\ pc' = "index"
    /\ UNCHANGED <<input, output_seekable, skeleton_3, serialno, index, content_offset, indexed>>

(* Mutant: the index goes where the file position is.                          *)
LocationLost(s) == position

Location(s) == page_location[s]

IndexPages(s) == PageoutFlush(packet_size[s], serialno, pageno, <<s, 1>>)

(* Mutant: the last stream does not end it.                                    *)
NextIndexStuck(s) == "index"

NextIndex(s) == IF todo = {s} THEN "done" ELSE "index"

(* write_index_pages: fseeko to the placeholder, write over it.                *)
RewriteIndex(s) ==
    /\ pc = "index"
    /\ Turn(s)
    /\ s \in indexed
    /\ WriteAt(Location(s), IndexPages(s))
    /\ pageno' = pageno + PageCount(packet_size[s])
    /\ todo' = todo \ {s}
    /\ pc' = NextIndex(s)
    /\ UNCHANGED <<input, output_seekable, skeleton_3, serialno, index, content_offset, indexed>>

(* "no key points": returns before the packet is encoded.                      *)
SkipIndex(s) ==
    /\ pc = "index"
    /\ Turn(s)
    /\ s \notin indexed
    /\ todo' = todo \ {s}
    /\ pc' = NextIndex(s)
    /\ UNCHANGED <<input, file, position, output_seekable, skeleton_3, so, index,
                   content_offset, indexed>>

(* A seek or an allocation fails: write_seek_index returns -1, and the file is *)
(* closed as it is.                                                            *)
Fail ==
    /\ pc \in {"content", "index"}
    /\ Indexing
    /\ pc' = "failed"
    /\ UNCHANGED <<input, todo, file, position, output_seekable, skeleton_3, so, index,
                   content_offset, indexed>>

Done == pc \in {"done", "failed"} /\ UNCHANGED vars

Next ==
    \/ WriteFishead \/ RewriteFishead \/ WriteFisbones \/ WriteEnd
    \/ \E s \in Streams : \/ WriteFirstPage(s) \/ WriteHeaders(s) \/ WritePlaceholder(s)
                          \/ WriteContent(s)
                          \/ RewriteIndex(s) \/ SkipIndex(s)
    \/ NoIndex \/ RewriteBOS \/ Fail
    \/ Done

Spec == Init /\ [][Next]_vars

-----------------------------------------------------------------------------
Cells == [stream : Streams \cup {Skel}, kind : {"bos", "header", "content"}, serial : Nat,
          no : Nat, part : Nat \ {0}, size : Nat \ {0}, data : Seq(Int)]

(* The write position is in the file, and as long as streams take turns there  *)
(* is one left.                                                                *)
TypeOK ==
    /\ present \in Inputs /\ option \in Options
    /\ outfile \in Outputs /\ duration \in Durations
    /\ pc \in {"fishead", "bos", "fisbones", "headers", "placeholders", "end", "content",
              "index", "done", "failed"}
    /\ todo \subseteq present
    /\ pc \in {"bos", "headers", "placeholders", "index"} => todo # {}
    /\ file \in Seq(Cells) /\ position \in 0 .. Len(file)
    /\ output_seekable \in {"maybe", "yes", "no"} /\ skeleton_3 \in BOOLEAN
    /\ serialno \in Nat /\ pageno \in Nat
    /\ page_location \in [present -> 0 .. Len(file)]
    /\ packet_size \in [present -> IndexSegments]
    /\ content_offset \in 0 .. Len(file)
    /\ indexed \subseteq present

(* A page of the Skeleton track over one for the same stream.                  *)
SamePage(old, new) ==
    /\ old.stream = Skel
    /\ new = [old EXCEPT !.no = new.no, !.data = new.data]
    /\ Len(new.data) = Len(old.data) /\ Len(new.data) > 0
    /\ new.data[1] = old.data[1]

(* "Overwrites existing skeleton index placeholder packets with valid keyframe *)
(* index data": writing the Skeleton track a second time changes no page's     *)
(* extent, stream or serial number, and touches only the fishead and index     *)
(* pages, each by one of the same stream, although the pages are cut by        *)
(* another loop than the placeholders were.                                    *)
InPlace ==
    [][/\ pc \in {"content", "index"} /\ pc' \in {"index", "done"}
       => /\ Len(file') = Len(file)
          /\ \A i \in DOMAIN file : file'[i] # file[i] => SamePage(file[i], file'[i])]_vars

(* The pages of the Skeleton track that are complete before the i-th cell.     *)
PagesBefore(f, i) ==
    Cardinality({j \in 1 .. i - 1 : f[j].stream = Skel /\ f[j].part = f[j].size})

(* "Re-encode the entire skeleton track, to ensure the packet and page counts  *)
(* don't change": the pages of the track are numbered in the order of the      *)
(* file, without a gap, before and after. Only if no stream without keyframes  *)
(* precedes one with some: write_index_pages returns early for the first, its  *)
(* pages are not counted, and the second gets smaller numbers than it had.     *)
NumbersKept ==
    \/ pc \notin {"content", "done"}
    \/ pc = "done" /\ \E s \in indexed, r \in present \ indexed : r < s
    \/ \A i \in DOMAIN file :
          file[i].stream = Skel => file[i].no = PagesBefore(file, i)

(* "Write the bitstream header packets with proper page interleave": the first *)
(* pages of all streams come before any other header and these before the      *)
(* content, each page in one piece, under one serial number for each stream,   *)
(* and the content offset is where the content starts.                         *)
HeadersFirst ==
    LET Rank(c) == CASE c.kind = "bos" -> 1 [] c.kind = "header" -> 2 [] c.kind = "content" -> 3
        Tracks == present \cup IF option = "none" THEN {} ELSE {Skel}
    IN  pc \in {"content", "done"} =>
          /\ \A i \in 1 .. Len(file) - 1 :
                LET c == file[i] next == file[i + 1]
                IN  /\ Rank(c) <= Rank(next)
                    /\ c.part < c.size => next = [c EXCEPT !.part = @ + 1]
                    /\ c.part = c.size => next.part = 1
          /\ {file[i].stream : i \in {j \in DOMAIN file : file[j].kind = "bos"}} = Tracks
          /\ \A i, j \in DOMAIN file : file[i].serial = file[j].serial <=> file[i].stream = file[j].stream
          /\ option # "none" =>
                content_offset = Cardinality({i \in DOMAIN file : file[i].kind # "content"})

(* At the end the fishead tells the truth: Skeleton 4 exactly when the output  *)
(* can be seeked and the duration was known, and then the length of the file   *)
(* and where the content starts; every stream with keyframes has its whole     *)
(* index in the file, every other one its whole placeholder.                   *)
HeaderTrue ==
    pc = "done" /\ option # "none" =>
      /\ file[1].stream = Skel /\ file[1].kind = "bos"
      /\ skeleton_3 <=> option = "3" \/ ~outfile \/ ~duration
      /\ IF skeleton_3
         THEN file[1].data[1] = 3 /\ position = Len(file)
         ELSE /\ file[1].data = <<4, Len(file), content_offset>>
              /\ \A s \in present :
                    /\ page_location[s] > 0
                    /\ Cardinality({i \in DOMAIN file :
                          file[i].data = <<s, IF s \in indexed THEN 1 ELSE 0>>}) = packet_size[s]
=============================================================================
