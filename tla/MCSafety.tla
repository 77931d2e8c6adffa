------------------------------ MODULE MCSafety ------------------------------
(***************************************************************************)
(* The components whose correctness needs no fairness, each on a small     *)
(* instance: a behaviour chooses one of them and takes its steps.          *)
(* The components about which theorems are proved have their own           *)
(* variables, which stay as they began when another component is chosen;   *)
(* the others share p1 .. p15, which hold the state of the one chosen.     *)
(***************************************************************************)
EXTENDS SyncProofs, DeviceProofs, BootStats, ServerCore

CONSTANTS FF, Junk, Free      \* the model values of BlockLayer and FileStore

VARIABLES
  which,                \* the component
  p1, p2, p3, p4, p5, p6, p7, p8, p9, p10, p11, p12, p13, p14, p15

pool == <<p1, p2, p3, p4, p5, p6, p7, p8, p9, p10, p11, p12, p13, p14, p15>>
synced == <<vars, reservingVars, onceVars, configVars, sessionVars>>
driven == <<networkVars, urcVars, statVars, chargerVars, rtdVars>>
served == <<downsampleVars, recVars>>
moved == <<ringVars, flashVars>>
allVars == <<which, synced, driven, served, moved, pool>>

LoopLimits == [por |-> 2, wdt |-> 1, panic |-> 1, fault |-> 1, software |-> 2, unknown |-> 1]

(* Every series with times in 0 .. 10. *)
Ascending(S) ==
  [i \in 1..Cardinality(S) |-> CHOOSE x \in S : Cardinality({y \in S : y < x}) = i - 1]
AllSeries == {Ascending(S) : S \in SUBSET (0..10)}
Widths == <<1, 2, 3, 5>>

FlashOp(k, a, n) == [kind |-> k, addr |-> a, len |-> n]

(* Operations that straddle pages and sectors, are not aligned, end beyond the chip or are of *)
(* no byte.                                                                                   *)
FlashOps == {FlashOp("detect", 0, 0), FlashOp("erase", 4, 4), FlashOp("erase", 0, 8),
             FlashOp("erase", 2, 4), FlashOp("program", 3, 3), FlashOp("program", 2, 0),
             FlashOp("read", 1, 4), FlashOp("read", 7, 2)}

(* Two blocks of one fragment each, so that a command on one could harm the other. *)
Blocks2 == INSTANCE BlockLayer WITH
  FF <- FF, Junk <- Junk, Blocks <- {0, 1}, BlockSize <- 24, FragSizes <- {5}, SeqMod <- 4,
  FirstFrags <- {0}, Lens <- {5}, Vals <- {"a", "b"},
  cell <- p1, op <- p2, step <- p3, ret <- p4

(* Files of up to two fragments, six calls, a failure or a power cut. *)
Files == INSTANCE FileStore WITH
  DataBlocks <- 2, FragmentsPerBlock <- 2, VersionMod <- 16, MaxCalls <- 6, MaxFaults <- 1,
  Free <- Free,
  block <- p1, call <- p2, ret <- p3, lens <- p4, complete <- p5, faults <- p6

(* Three readers, numbers that wrap. *)
Queue3 == INSTANCE Queue WITH
  MAX_PEEKS <- 3, SeqMod <- 12, Capacity <- 4, Granularity <- 2,
  read_index_min <- p1, read_index_next <- p2, reader_slots <- p3, slot_index <- p4,
  write_index <- p5, channel <- p6, handles <- p7, pc <- p8, iter <- p9, result <- p10,
  pending <- p11

(* Answers that take longer than the interval between two, one jump. *)
Drift == INSTANCE ClockDrift WITH
  Unit <- 1000, UPDATE_INTERVAL_MIN <- 1500, UNCERTAINTY_THRESHOLD_MIN <- 60,
  MIN_INITIAL_UNCERTAINTY <- 60, CORRECTION_ERROR_MAX <- 500, Drifts <- {50},
  TempErrors <- {0, 100}, TempUncertainty <- 30, Latencies <- {200, 1600},
  Steps <- {2000, 4000}, JumpSize <- 4000, MaxUpdates <- 3, MaxTempUpdates <- 1, MaxJumps <- 1,
  estimate_pre_temp <- p1, estimate_at <- p2, temp <- p3, network <- p4, drift <- p5,
  temperature <- p6, t <- p7, raw <- p8, server <- p9, last <- p10, spoiled <- p11, at <- p12,
  updates <- p13, tempUpdates <- p14, jumps <- p15

(* A fast clock that is off by a sixteenth, two readers. *)
Time == INSTANCE CombinedTime WITH
  Contexts <- {1, 2}, SLOPE_RESOLUTION <- 64, UPDATE_INTERVAL <- 96, UPDATE_INTERVAL_MIN <- 32,
  max_deviation <- 8, Tick <- 32, FastTicks <- {0, 34}, AdjustTo <- 6, MaxTime <- 64,
  MaxAdjusts <- 1, MaxReads <- 4,
  accurate <- p1, fast <- p2, correction <- p3, pending <- p4, returned <- p5, adjusts <- p6,
  reads <- p7

(* Batches that do not fit, time that jumps. *)
Batches == INSTANCE SampleBuffer WITH
  MAX_INPUT_SIZE <- 5, BatchLens <- {1, 2, 4}, Gaps <- {-1, 1, 2, 3}, Timeouts <- {3, 9},
  MaxBatches <- 3, MaxSerFaults <- 1,
  sbuf <- p1, timeout <- p2, pushed <- p3, packets <- p4, serLost <- p5, serFaults <- p6,
  calm <- p7

(* Exponents at and beyond both ends. *)
Q == INSTANCE Q15 WITH
  N_CH <- 2, MAX_N_SAMPLES <- 2, Byte <- 4, EXPONENT_MIN <- -1, EXPONENT_MAX <- 1, Unit <- 4,
  Samples <- {-9, -3, 0, 5}, NaN <- 99, Second <- 4, MaxStamp <- 6, Stamps <- {0, 3},
  Rates <- {1, 2},
  stage <- p1, input <- p2, bytes <- p3, cut <- p4, result <- p5

-----------------------------------------------------------------------------
(* The variables behind the n that a component uses. *)
Idle11 == p12 = "none" /\ p13 = "none" /\ p14 = "none" /\ p15 = "none"
Idle7 == p8 = "none" /\ p9 = "none" /\ p10 = "none" /\ p11 = "none" /\ Idle11
Idle6 == p7 = "none" /\ Idle7
Idle5 == p6 = "none" /\ Idle6
Idle4 == p5 = "none" /\ Idle5
Idle3 == p4 = "none" /\ Idle4
Idle0 == p1 = "none" /\ p2 = "none" /\ p3 = "none" /\ Idle3

Keep11 == UNCHANGED <<p12, p13, p14, p15>>
Keep7 == UNCHANGED <<p8, p9, p10, p11>> /\ Keep11
Keep6 == UNCHANGED <<p7>> /\ Keep7
Keep5 == UNCHANGED <<p6>> /\ Keep6
Keep4 == UNCHANGED <<p5>> /\ Keep5
Keep3 == UNCHANGED <<p4>> /\ Keep4
Keep0 == UNCHANGED <<p1, p2, p3>> /\ Keep3

SafetyInit ==
  /\ Init /\ ReservingInit /\ OnceInit /\ ConfigInit /\ SessionInit
  /\ NetworkAlone /\ UrcInit /\ StatInit /\ ChargerInit /\ RtdInit
  /\ DownsampleInit /\ RecInit /\ RingInit /\ FlashInit
  /\ which = "downsample" \/ (stamps = <<>> /\ method.points = 1)
  /\ \/ which \in {"buffer", "reserve", "once", "config", "session"} /\ Idle0
     \/ which \in {"network", "urc", "stats", "charger", "rtd"} /\ Idle0
     \/ which \in {"downsample", "recommend", "ring", "flash"} /\ Idle0
     \/ which = "blocks" /\ Blocks2!Init /\ Idle4
     \/ which = "files" /\ Files!Init /\ Idle6
     \/ which = "queue" /\ Queue3!Init /\ Idle11
     \/ which = "drift" /\ Drift!DriftInit
     \/ which = "time" /\ Time!TimeInit /\ Idle7
     \/ which = "samples" /\ Batches!SampleInit /\ Idle7
     \/ which = "q15" /\ Q!Q15Init /\ Idle5

SyncedNext ==
  \/ /\ which = "buffer" /\ Next
     /\ UNCHANGED <<reservingVars, onceVars, configVars, sessionVars>>
  \/ /\ which = "reserve" /\ ReservingNext
     /\ UNCHANGED <<vars, onceVars, configVars, sessionVars>>
  \/ /\ which = "once" /\ OnceNext
     /\ UNCHANGED <<vars, reservingVars, configVars, sessionVars>>
  \/ /\ which = "config" /\ ConfigNext
     /\ UNCHANGED <<vars, reservingVars, onceVars, sessionVars>>
  \/ /\ which = "session" /\ SessionNext
     /\ UNCHANGED <<vars, reservingVars, onceVars, configVars>>

DrivenNext ==
  \/ /\ which = "network" /\ NetworkNext
     /\ UNCHANGED <<urcVars, statVars, chargerVars, rtdVars>>
  \/ /\ which = "urc" /\ UrcNext
     /\ UNCHANGED <<networkVars, statVars, chargerVars, rtdVars>>
  \/ /\ which = "stats" /\ StatNext
     /\ UNCHANGED <<networkVars, urcVars, chargerVars, rtdVars>>
  \/ /\ which = "charger" /\ ChargerNext
     /\ UNCHANGED <<networkVars, urcVars, statVars, rtdVars>>
  \/ /\ which = "rtd" /\ RtdNext
     /\ UNCHANGED <<networkVars, urcVars, statVars, chargerVars>>

ServerNext ==
  \/ which = "downsample" /\ DownsampleNext /\ UNCHANGED recVars
  \/ which = "recommend" /\ RecNext /\ UNCHANGED downsampleVars

MovedNext ==
  \/ which = "ring" /\ RingNext /\ UNCHANGED flashVars
  \/ which = "flash" /\ FlashNext /\ UNCHANGED ringVars

SafetyNext ==
  /\ UNCHANGED which
  /\ \/ SyncedNext /\ UNCHANGED <<driven, served, moved>> /\ Keep0
     \/ DrivenNext /\ UNCHANGED <<synced, served, moved>> /\ Keep0
     \/ ServerNext /\ UNCHANGED <<synced, driven, moved>> /\ Keep0
     \/ MovedNext /\ UNCHANGED <<synced, driven, served>> /\ Keep0
     \/ /\ UNCHANGED <<synced, driven, served, moved>>
        /\ \/ which = "blocks" /\ Blocks2!Next /\ Keep4
           \/ which = "files" /\ Files!Next /\ Keep6
           \/ which = "queue" /\ Queue3!Next /\ Keep11
           \/ which = "drift" /\ Drift!DriftNext
           \/ which = "time" /\ Time!TimeNext /\ Keep7
           \/ which = "samples" /\ Batches!SampleNext /\ Keep7
           \/ which = "q15" /\ Q!Q15Next /\ Keep5

SafetySpec == SafetyInit /\ [][SafetyNext]_allVars

-----------------------------------------------------------------------------
(* The flash keeps what it was given: file_store.rs reads back the last file that was written *)
(* whole and never a mixture of two; a command on one block harms no readable data of the     *)
(* other and revives nothing; the queue over it decides in every loop, keeps its window and   *)
(* gives up nothing that was not confirmed.                                                   *)
FlashKeeps ==
  /\ [](which = "files" => Files!CompletedIsRead /\ Files!NoMixture)
  /\ [](which = "queue" => Queue3!AnswersExpected /\ Queue3!ChannelHasRoom /\ Queue3!QueueDecides)
  /\ [][which = "blocks" => Blocks2!ReadableIsKept /\ Blocks2!NoResurrection]_allVars

(* time_adjust.rs and drivers/time.rs: the true drift is within the uncertainty of its      *)
(* estimate, the conversions of a stamp undo one another, a stamp is close to the accurate    *)
(* clock whichever contexts read and correct it at once, and a jump of that clock is followed *)
(* up to the error of the slope.                                                              *)
ClocksAreSound ==
  /\ [](which = "drift" => Drift!EstimateIsSound /\ Drift!ConversionsInvert)
  /\ [](which = "time" => Time!TimestampIsClose)
  /\ [][which = "time" => Time!JumpMissesBySlopeOnly]_allVars

(* Samples arrive as they were measured: every batch is serialized once, with the time it was *)
(* measured at and not too late (the sample buffer), and what Q15XL decodes is within half a  *)
(* step of what it encoded, or nothing (q15xl.rs, deserialize.rs).                            *)
SamplesSurvive ==
  /\ which = "samples" => Batches!EveryBatchOnce /\ Batches!StampsFollow /\ Batches!LatencyBounded
  /\ which = "q15" => Q!DecodedIsClose /\ Q!TruncatedGivesNothing /\ Q!MaxInputIsExact

=============================================================================
