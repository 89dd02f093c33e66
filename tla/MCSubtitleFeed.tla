--------------------------- MODULE MCSubtitleFeed ---------------------------
(***************************************************************************)
(* Command lines, files and streams for model-checking the subtitles.      *)
(***************************************************************************)
EXTENDS SubtitleFeed

L(kind) == [kind |-> kind, t0 |-> 0, t1 |-> 0]
T(from, to) == [kind |-> "timing", t0 |-> from, t1 |-> to]

J(options, files) ==
    [options |-> options, files |-> files, ignore_non_utf8 |-> FALSE,
     start |-> 0, embedded |-> 0, mode |-> "av", rounds |-> 0]

SeqsUpTo(S, n) == UNION {[1 .. m -> S] : m \in 0 .. n}

(* A file with a subtitle for every pair of times.                             *)
Srt(spans) ==
    [n \in 1 .. 4 * Len(spans) |->
        LET span == spans[(n + 3) \div 4]
        IN  CASE n % 4 = 1 -> L("number") [] n % 4 = 2 -> T(span[1], span[2])
              [] n % 4 = 3 -> L("words")  [] n % 4 = 0 -> L("blank")]

(* Every file of up to six lines, and of four with bytes in a known encoding,  *)
(* an unknown one, or scrubbed out.                                            *)
ParserJobs ==
    LET short == SeqsUpTo({L("blank"), L("number"), T(1, 2), L("bytes")}, 4)
    IN  {J(<<"filename">>, <<f>>) :
            f \in SeqsUpTo({L("blank"), L("number"), T(1, 2), L("words")}, 6) \cup short}
        \cup {J(<<"encoding", "filename">>, <<f>>) : f \in short}
        \cup {[J(<<"filename">>, <<f>>) EXCEPT !.ignore_non_utf8 = TRUE] : f \in short}

(* Every order of up to five options; of the files the first is broken, the    *)
(* second has bytes, the third is good, the fourth is not there.               *)
OptionJobs ==
    LET files == <<<<L("words")>>, <<L("number"), T(1, 2), L("bytes")>>, Srt(<<<<1, 2>>>>)>>
    IN  {[J(o, files) EXCEPT !.embedded = 1] :
            o \in SeqsUpTo({"filename", "language", "encoding", "category"}, 5)
                  \cup SeqsUpTo({"filename", "encoding", "refused"}, 4)}

(* Subtitles in order, overlapping, and out of order.                          *)
FeedJobs ==
    LET sorted == Srt(<<<<0, 1>>, <<2, 5>>, <<4, 6>>, <<8, 9>>>>)
        unsorted == Srt(<<<<5, 6>>, <<1, 3>>, <<6, 8>>>>)
    IN  {[J(<<"filename", "filename">>, <<sorted, unsorted>>) EXCEPT
             !.start = start, !.embedded = 1, !.mode = mode, !.rounds = 3] :
            start \in {0, 3}, mode \in {"av", "audio_only", "video_only"}}

MCJobs == ParserJobs \cup OptionJobs \cup FeedJobs

Arrival(pts, kind) == [pts |-> pts, duration |-> 2, kind |-> kind]

MCArrivals == {Arrival(0, "text"), Arrival(2, "text"), Arrival(2, "image"), Arrival(5, "text"),
               Arrival(5, "invalid")}
=============================================================================
