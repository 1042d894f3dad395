------------------------------- MODULE Coding --------------------------------
(***************************************************************************)
(* The pure halves of the codec, each with its other half: PVQ vectors and *)
(* their indices, packets and their parsers, SILK's pulses and spectral    *)
(* frequencies.  A step chooses one input, the job; the properties say     *)
(* what the two halves make of it.                                         *)
(***************************************************************************)
EXTENDS Pvq, OpusFraming, SilkParameters, CeltSignal

CONSTANTS
  Jobs,   \* for each kind of job, its inputs
  Idle

VARIABLES kind, job

vars == <<kind, job>>

Init == kind \in DOMAIN Jobs /\ job = Idle

Choose ==
  /\ job = Idle
  /\ job' \in Jobs[kind]
  /\ UNCHANGED kind

Spec == Init /\ [][Choose]_vars

\* A job of kind k is chosen: each is judged as it is.
Chosen(k) == kind = k /\ job' # Idle

\* Property: the decoder of a band gets the encoder's pulse vector back from
\* its index, on every build, and spreading is undone exactly.
VectorsReturn ==
  [][ /\ Chosen("band") => BandReturns(job'.x, job'.k, job'.build, job'.blocks, 2)
      /\ Chosen("count") => CountsAgree(job'.n, job'.k)
      /\ Chosen("spread") => SpreadReturns(job'.x, job'.stride) ]_vars

\* Property: the frames of a packet are those its parser cuts out, for every
\* code, sizes of one byte and of two, padding chains, and a self-delimited
\* packet amid others; of no bytes at all does the parser read outside; and
\* a multistream packet either moves every stream's decoder, all by as many
\* samples, and each output channel is the one its table names, or fails
\* with no decoder behind the failing one moved.
PacketsReturn ==
  [][ /\ Chosen("join") => JoinReturns(2, job'.frames)
      /\ Chosen("silk") => SilkReturns(2, job'.frame, job'.total)
      /\ Chosen("split") => SplitReturns(job'.toc, job'.count, job'.frames, job'.padding, job'.tail)
      /\ Chosen("bytes") => FramesLieInside(job'.data)
      /\ Chosen("streams") => StreamsShareOut(job'.table, job'.packet, job'.size) ]_vars

\* Property: SILK's decoder reads the excitation's symbols with the tables
\* they were written with and gets every pulse back (but see StaleTail); the
\* trellis' cost is that of what the decoder will make of its indices, its
\* sort is stable, and whatever the input the spectral frequencies end up as
\* far apart as the predictor needs them.
ParametersReturn ==
  [][ /\ Chosen("pulses") => SilkPulsesReturn(job'.pulses, job'.n, 1)
      /\ Chosen("trellis") => CostIsTheDecoders(job'.x, job'.w, job'.pred, job'.rates, job'.mu)
      /\ Chosen("sort") => SortedFirst(job'.a, job'.k)
      /\ Chosen("gaps") => GapsAreKept(job'.f, job'.min)
      /\ Chosen("book") => FrequenciesReturn(job'.cb, job'.f, job'.w, job'.mu, job'.survivors) ]_vars

\* Property: a Fourier transform of every length the codec has is the one of
\* the textbook, in a plan of its own and in that of a longer one, and a row
\* of CELT frames of any lengths, block sizes and pre-filters plays as it was
\* recorded, if the tapset is chosen anew only while no filter is on.
TransformsReturn ==
  [][ /\ Chosen("fft") => FftIsDft(job'.base, job'.n, job'.at)
      /\ Chosen("signal") => SignalReturns(job'.frames) ]_vars
=============================================================================
