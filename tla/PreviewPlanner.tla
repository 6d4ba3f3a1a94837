--------------------------- MODULE PreviewPlanner ---------------------------
(***************************************************************************)
(* The preview planner: it asks Nav2's planner for one path per pair of    *)
(* task points, each from where the one before ended, joins the answers    *)
(* and shows the joined path.                                              *)
(*                                                                         *)
(* One thread runs the callbacks: requests, responses and results of the   *)
(* planner's goals, and the timer of the segment.  A goal that was given   *)
(* up is not canceled: its answers come late, during another segment or    *)
(* another request.  A request that comes while one is planned is turned   *)
(* down and changes nothing.  A path stands for the goal that it answers.  *)
(***************************************************************************)
EXTENDS Naturals, Sequences

CONSTANTS
  MaxSegments,   \* bound on the segments of a request
  MaxGeneration  \* bound on the generation when a request comes

ASSUME PreviewAssumption == MaxSegments \in Nat \ {0} /\ MaxGeneration \in Nat

VARIABLES
  busy,        \* _busy
  length,      \* the segments of the request, len(_poses) - 1
  segment,     \* _segment_index
  generation,  \* _segment_generation
  timer,       \* _segment_timer, and the goal it is for
  joined,      \* _joined, the paths so far
  shown,       \* the path published last
  sent,        \* goals the planner has not answered
  accepted,    \* goals that it accepted and whose result will come
  requests     \* history: number of requests that were taken on

requestState == <<length, requests>>
segmentState == <<busy, segment, generation, timer, joined, shown>>
previewVars  == <<requestState, segmentState, sent, accepted>>

(* A goal is planned from the end of the path that answered goal "from";   *)
(* the first one, from 0, starts at the request's first point.             *)
PlanGoals == [generation : Nat, request : Nat, segment : Nat, from : Nat]

SegmentTimers == [generation : Nat, segment : Nat]
TimerFor(g, k) == [generation |-> g, segment |-> k]
NoTimer == TimerFor(0, 0)

PreviewTypes ==
  /\ busy \in BOOLEAN
  /\ length \in Nat /\ segment \in 0..(length + 1) /\ generation \in Nat /\ requests \in Nat
  /\ timer \in SegmentTimers
  /\ joined \in Seq(PlanGoals) /\ shown \in Seq(PlanGoals)
  /\ sent \in SUBSET PlanGoals /\ accepted \in SUBSET PlanGoals

PreviewInit ==
  /\ busy = FALSE /\ length = 0 /\ segment = 0 /\ generation = 0 /\ timer = NoTimer
  /\ joined = <<>> /\ shown = <<>> /\ sent = {} /\ accepted = {} /\ requests = 0

(* Variant: an answer counts when its segment is being planned.            *)
IsCurrentIndex(g, k) == busy /\ k = segment

(* _segment_is_current                                                     *)
IsCurrent(g, k) == busy /\ g = generation /\ k = segment

(* _fail, when generation g has been reached.                              *)
Fail(g) == busy' = FALSE /\ generation' = g + 1 /\ timer' = NoTimer /\ shown' = <<>>

(* next_segment_start                                                      *)
Start(paths) == IF paths = <<>> THEN 0 ELSE paths[Len(paths)].generation

PlanGoal(k, paths) ==
  [generation |-> generation + 1, request |-> requests', segment |-> k, from |-> Start(paths)]

(* _send_segment: the timer is armed first, and the sending may fail.      *)
SendSegment(k, paths, path) ==
  /\ segment' = k /\ joined' = paths
  /\ \/ /\ busy' = TRUE /\ shown' = path
        /\ generation' = generation + 1 /\ timer' = TimerFor(generation + 1, k)
        /\ sent' = sent \cup {PlanGoal(k, paths)}
     \/ Fail(generation + 1) /\ UNCHANGED sent

(* There are segments after this one.                                      *)
Left == segment < length

-----------------------------------------------------------------------------
(* A request of n segments is taken on, and nothing is shown any more.     *)
AcceptRequest(n) ==
  /\ ~busy /\ generation < MaxGeneration
  /\ length' = n /\ requests' = requests + 1
  /\ SendSegment(1, <<>>, <<>>)
  /\ UNCHANGED accepted

(* A request in another frame, of less than two points or with a bad one,  *)
(* or one that comes while the planner is away, fails, and takes the path  *)
(* of the request before with it.                                          *)
RefuseRequest ==
  /\ ~busy /\ generation < MaxGeneration /\ Fail(generation)
  /\ UNCHANGED <<requestState, segment, joined, sent, accepted>>

(* The planner answers to a goal: nobody asks for the result of one that   *)
(* is not current any more; a goal that is refused, or an error, fails.    *)
GoalResponse(g) ==
  /\ g \in sent /\ sent' = sent \ {g}
  /\ \/ /\ IsCurrent(g.generation, g.segment)
        /\ \/ accepted' = accepted \cup {g} /\ UNCHANGED segmentState
           \/ Fail(generation) /\ UNCHANGED <<segment, joined, accepted>>
     \/ /\ ~IsCurrent(g.generation, g.segment)
        /\ UNCHANGED <<accepted, segmentState>>
  /\ UNCHANGED requestState

(* A goal ends: in a path that is joined, and then the next segment is     *)
(* sent or the joined path shown; in an error, another end, or no path.    *)
SegmentResult(g) ==
  /\ g \in accepted /\ accepted' = accepted \ {g}
  /\ UNCHANGED requestState
  /\ \/ ~IsCurrent(g.generation, g.segment) /\ UNCHANGED <<sent, segmentState>>
     \/ IsCurrent(g.generation, g.segment) /\ Fail(generation) /\ UNCHANGED <<segment, joined, sent>>
     \/ /\ IsCurrent(g.generation, g.segment) /\ Left
        /\ SendSegment(segment + 1, Append(joined, g), shown)
     \/ /\ IsCurrent(g.generation, g.segment) /\ ~Left
        /\ joined' = Append(joined, g) /\ shown' = Append(joined, g)
        /\ segment' = segment + 1 /\ busy' = FALSE /\ timer' = NoTimer
        /\ UNCHANGED <<generation, sent>>

(* The timer of the segment; that of another one would do nothing.         *)
SegmentTimedOut ==
  /\ timer # NoTimer /\ IsCurrent(timer.generation, timer.segment) /\ Fail(generation)
  /\ UNCHANGED <<requestState, segment, joined, sent, accepted>>

PreviewNext ==
  \/ \E n \in 1..MaxSegments : AcceptRequest(n)
  \/ RefuseRequest
  \/ \E g \in sent : GoalResponse(g)
  \/ \E g \in accepted : SegmentResult(g)
  \/ SegmentTimedOut

PreviewSpec == PreviewInit /\ [][PreviewNext]_previewVars

-----------------------------------------------------------------------------
(* The segments of request r from the first on, each from where the one    *)
(* before ended.                                                           *)
Connected(paths, r) ==
  \A i \in 1..Len(paths) :
    /\ paths[i].request = r /\ paths[i].segment = i
    /\ paths[i].from = IF i = 1 THEN 0 ELSE paths[i - 1].generation

(* What is shown is nothing, or the whole of the last request that was     *)
(* taken on, whatever late answers came in between.                        *)
ShownAnswersRequest ==
  shown # <<>> => ~busy /\ Len(shown) = length /\ Connected(shown, requests)

(* While a request is planned, the timer is armed for the goal that is     *)
(* waited for, and no other goal can be taken for it.                      *)
BusyIsTimed ==
  /\ busy => timer = TimerFor(generation, segment)
  /\ \A g, h \in sent \cup accepted :
       IsCurrent(g.generation, g.segment) /\ IsCurrent(h.generation, h.segment) => g = h
=============================================================================
