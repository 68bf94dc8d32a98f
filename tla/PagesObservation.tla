-------------------------- MODULE PagesObservation --------------------------
(***************************************************************************)
(* The observation of a GitHub Pages generation. The public origin is a    *)
(* CDN whose caches keep what they hold for a declared lifetime, so the    *)
(* marker and the routes are read in passes until all of them are the      *)
(* staged ones, a redirect or a repeated transport failure shows that no   *)
(* waiting helps, or the lifetime and a margin are over.                   *)
(*                                                                         *)
(* Until the lifetime is over a read may reach any cache and be answered   *)
(* with the generation or with anything older, in any order; afterwards    *)
(* every read is answered with the generation. A pass takes less time than *)
(* the margin, so the last pass starts after the lifetime.                 *)
(*                                                                         *)
(* Source: packages/adapter-github-pages/src/index.js, observe.            *)
(***************************************************************************)
EXTENDS Integers, Sequences, FiniteSets, SequencesExt

CONSTANTS
    Routes,           \* entryPaths of the staged generation, in order
    SampleRoutes,     \* OBSERVE_SAMPLE_ROUTES
    ConfirmMaximum,   \* OBSERVE_CONFIRM_MAXIMUM_ROUTES
    TransientStreak,  \* OBSERVE_TRANSIENT_STREAK
    TransientCodes,   \* codes of transport failures that are waited out
    MarginPasses,     \* bound: passes that start after the lifetime
    CursorPeriod,     \* bound: the cursor is only used modulo smaller numbers
    NoCode            \* errorCode null

RouteSet == ToSet(Routes)
Marker == "marker"

ASSUME PagesObservationAssumption ==
    /\ IsInjective(Routes)
    /\ Marker \notin RouteSet
    /\ SampleRoutes \in Nat \ {0}
    /\ ConfirmMaximum \in Nat
    /\ TransientStreak \in Nat \ {0}
    /\ MarginPasses \in Nat \ {0}
    /\ CursorPeriod \in Nat \ {0}
    /\ \A n \in 1 .. Len(Routes) : CursorPeriod % n = 0
    /\ NoCode \notin TransientCodes
    /\ {"generation", "other", "redirect", "fatal"} \cap TransientCodes = {}

VARIABLES
    phase,          \* what the pass does next
    first,          \* the pass is the first one
    todo,           \* the routes the current loop has yet to read
    sample,         \* the unmatched routes sampled in this pass
    matched,        \* progress.matched: routes whose bytes are the staged ones
    fresh,          \* those of them that were matched in this pass
    markerMatches,  \* the marker is the staged one, as last read
    markerFresh,    \* the marker was read in this pass
    cursor,         \* progress.cursor, modulo CursorPeriod
    confirmed,      \* progress.confirmed
    readError,      \* code of the first read error of the pass
    errorCode,      \* that of the previous pass
    errorStreak,    \* consecutive passes with that code
    redirected,     \* the origin answered with a redirect
    expired,        \* every cache entry older than the generation has expired
    late,           \* passes started since
    result,         \* the answer of observe
    faulty,         \* history: a read failed, or found less than the caches had
    lastServed      \* history: what was last answered with the generation

progress == <<matched, fresh, markerMatches, markerFresh, confirmed>>
errors == <<readError, errorCode, errorStreak, redirected>>
world == <<expired, late>>
observationVars ==
    <<phase, first, todo, sample, progress, cursor, errors, world, result, faulty,
      lastServed>>

Reading == {"sampling", "reading-rest", "confirming"}

ObservationInit ==
    /\ phase = "reading-marker"
    /\ first = TRUE
    /\ todo = {}
    /\ sample = {}
    /\ matched = {}
    /\ fresh = {}
    /\ markerMatches = FALSE
    /\ markerFresh = FALSE
    /\ cursor = 0
    /\ confirmed = FALSE
    /\ readError = NoCode
    /\ errorCode = NoCode
    /\ errorStreak = 0
    /\ redirected = FALSE
    /\ expired = FALSE
    /\ late = 0
    /\ result = "none"
    /\ faulty = FALSE
    /\ lastServed = {}

-----------------------------------------------------------------------------
(* One read *)

\* The bytes asked for, other bytes or another status, a redirect, a
\* transport failure that is transient, or one that is thrown.
ReadAnswers == {"generation", "other", "redirect", "fatal"} \cup TransientCodes

\* What a read leaves behind, whatever was asked for.
Answered(x, answer) ==
    /\ faulty' = (faulty \/ answer \notin {"generation", "other"}
                         \/ (expired /\ answer = "other"))
    /\ lastServed' = CASE answer = "generation" -> lastServed \cup {x}
                       [] answer \in TransientCodes -> lastServed
                       [] OTHER -> lastServed \ {x}
    /\ readError' = IF readError = NoCode /\ answer \in TransientCodes
                    THEN answer ELSE readError
    /\ redirected' = (redirected \/ answer = "redirect")
    /\ result' = IF answer = "fatal" THEN "thrown" ELSE result
    /\ UNCHANGED <<errorCode, errorStreak, world>>

\* readMarker: a transient failure keeps what an earlier pass read.
ReadMarker ==
    /\ phase \in {"reading-marker", "confirming-marker"}
    /\ \E answer \in ReadAnswers :
          /\ Answered(Marker, answer)
          /\ IF answer \in TransientCodes
             THEN UNCHANGED <<markerMatches, markerFresh>>
             ELSE markerMatches' = (answer = "generation") /\ markerFresh' = TRUE
          /\ phase' = IF answer = "fatal" THEN "ended"
                      ELSE IF phase = "confirming-marker" THEN "confirming"
                      ELSE IF answer = "redirect" THEN "judging"
                      ELSE "choosing"
    /\ UNCHANGED <<first, todo, sample, cursor, matched, fresh, confirmed>>

\* Mutant: a route that is missing keeps its earlier match.
ReadRouteKeepingMatch ==
    /\ phase \in Reading
    /\ \E x \in todo : \E answer \in ReadAnswers :
          /\ Answered(x, answer)
          /\ matched' = matched \cup (IF answer = "generation" THEN {x} ELSE {})
          /\ fresh' = fresh \cup (IF answer = "generation" THEN {x} ELSE {})
          /\ todo' = todo \ {x}
          /\ phase' = CASE answer = "fatal" -> "ended"
                        [] answer = "redirect" -> "judging"
                        [] OTHER -> phase
    /\ UNCHANGED <<first, sample, cursor, markerMatches, markerFresh, confirmed>>

\* readRoute: a transient failure leaves the route as it was.
ReadRoute ==
    /\ phase \in Reading
    /\ \E x \in todo : \E answer \in ReadAnswers :
          /\ Answered(x, answer)
          /\ matched' = CASE answer = "generation" -> matched \cup {x}
                          [] answer = "other" -> matched \ {x}
                          [] OTHER -> matched
          /\ fresh' = CASE answer = "generation" -> fresh \cup {x}
                        [] answer = "other" -> fresh \ {x}
                        [] OTHER -> fresh
          /\ todo' = todo \ {x}
          /\ phase' = CASE answer = "fatal" -> "ended"
                        [] answer = "redirect" -> "judging"
                        [] OTHER -> phase
    /\ UNCHANGED <<first, sample, cursor, markerMatches, markerFresh, confirmed>>

-----------------------------------------------------------------------------
(* One pass *)

\* The routes that do not match.
Unmatched == RouteSet \ matched

\* How many of them come before one, in the order of Routes.
Ahead(x) ==
    Cardinality({i \in DOMAIN Routes :
                    /\ Routes[i] \in Unmatched
                    /\ \E k \in DOMAIN Routes : i < k /\ Routes[k] = x})

\* SampleRoutes of them, going round from the cursor.
Rotated ==
    {x \in Unmatched :
        \E offset \in 0 .. (SampleRoutes - 1) :
            Ahead(x) = (cursor + offset) % Cardinality(Unmatched)}

\* The first pass reads every route, a later one a sample of the unmatched.
ChooseSample ==
    /\ phase = "choosing"
    /\ IF ~first /\ Cardinality(Unmatched) > SampleRoutes
       THEN /\ sample' = Rotated
            /\ cursor' = (cursor + SampleRoutes) % CursorPeriod
       ELSE /\ sample' = Unmatched
            /\ UNCHANGED cursor
    /\ todo' = sample'
    /\ phase' = "sampling"
    /\ UNCHANGED <<first, progress, errors, world, result, faulty, lastServed>>

\* Mutant: the pass ends with its sample.
EndSample ==
    /\ phase = "sampling" /\ todo = {}
    /\ phase' = "sampled"
    /\ UNCHANGED <<first, todo, sample, progress, cursor, errors, world,
                   result, faulty, lastServed>>

\* Once the whole sample and the marker match, the rest is read as well.
FinishSample ==
    /\ phase = "sampling" /\ todo = {}
    /\ IF markerMatches /\ sample \subseteq matched
       THEN todo' = RouteSet \ (matched \cup sample) /\ phase' = "reading-rest"
       ELSE UNCHANGED todo /\ phase' = "sampled"
    /\ UNCHANGED <<first, sample, progress, cursor, errors, world, result,
                   faulty, lastServed>>

\* Once in an observation, a small site that is about to succeed reads again
\* what matched in earlier passes only.
Confirm ==
    /\ phase = "sampled" \/ (phase = "reading-rest" /\ todo = {})
    /\ IF /\ ~confirmed /\ ~first
          /\ Len(Routes) <= ConfirmMaximum
          /\ readError = NoCode /\ markerMatches /\ matched = RouteSet
       THEN /\ confirmed' = TRUE
            /\ todo' = RouteSet \ fresh
            /\ phase' = IF markerFresh THEN "confirming" ELSE "confirming-marker"
       ELSE /\ UNCHANGED <<confirmed, todo>>
            /\ phase' = "judging"
    /\ UNCHANGED <<first, sample, matched, fresh, markerMatches, markerFresh, cursor,
                   errors, world, result, faulty, lastServed>>

FinishConfirmation ==
    /\ phase = "confirming" /\ todo = {}
    /\ phase' = "judging"
    /\ UNCHANGED <<first, todo, sample, progress, cursor, errors, world,
                   result, faulty, lastServed>>

Streak ==
    IF readError = NoCode THEN 0
    ELSE IF readError = errorCode THEN errorStreak + 1
    ELSE 1

\* There is no finding.
NothingFound ==
    /\ markerMatches /\ matched = RouteSet
    /\ readError = NoCode /\ ~redirected

\* The findings no further pass can change.
Hopeless ==
    \/ redirected
    \/ markerMatches /\ matched = RouteSet
    \/ Streak >= TransientStreak

\* The wait before the next pass is cut to the deadline; there is no wait, and
\* no pass, when the deadline is over.
Judge ==
    /\ phase = "judging"
    /\ errorCode' = IF redirected THEN errorCode ELSE readError
    /\ errorStreak' = IF redirected THEN errorStreak ELSE Streak
    /\ \/ /\ NothingFound
          /\ result' = "verified" /\ phase' = "ended"
       \/ /\ ~NothingFound
          /\ Hopeless \/ late > 0
          /\ result' = "unverified" /\ phase' = "ended"
       \/ /\ ~NothingFound /\ ~Hopeless
          /\ late < MarginPasses
          /\ UNCHANGED result /\ phase' = "waiting"
    /\ UNCHANGED <<first, todo, sample, progress, cursor, readError, redirected,
                   world, faulty, lastServed>>

\* The marker is read again only while it does not match.
StartPass ==
    /\ phase = "waiting"
    /\ first' = FALSE
    /\ fresh' = {}
    /\ markerFresh' = FALSE
    /\ readError' = NoCode
    /\ late' = IF expired THEN late + 1 ELSE 0
    /\ phase' = IF markerMatches THEN "choosing" ELSE "reading-marker"
    /\ UNCHANGED <<todo, sample, matched, markerMatches, cursor, confirmed, errorCode,
                   errorStreak, redirected, expired, result, faulty, lastServed>>

\* The lifetime ends.
Expire ==
    /\ phase # "ended" /\ ~expired
    /\ expired' = TRUE
    /\ UNCHANGED <<phase, first, todo, sample, progress, cursor, errors, late,
                   result, faulty, lastServed>>

Pass ==
    \/ ReadMarker \/ ReadRoute
    \/ ChooseSample \/ FinishSample \/ Confirm \/ FinishConfirmation
    \/ Judge \/ StartPass

ObservationNext == Pass \/ Expire

ObservationSpec == ObservationInit /\ [][ObservationNext]_observationVars

\* Every read and every wait ends, and time goes on.
FairObservationSpec == ObservationSpec /\ WF_observationVars(Pass) /\ WF_observationVars(Expire)

-----------------------------------------------------------------------------
(* Properties *)

ObservationTypeOK ==
    /\ phase \in Reading \cup {"reading-marker", "confirming-marker", "choosing",
                               "sampled", "judging", "waiting", "ended"}
    /\ first \in BOOLEAN /\ markerMatches \in BOOLEAN /\ markerFresh \in BOOLEAN
    /\ todo \subseteq RouteSet /\ sample \subseteq RouteSet
    /\ matched \subseteq RouteSet
    /\ fresh \subseteq matched
    /\ cursor \in 0 .. CursorPeriod - 1
    /\ confirmed \in BOOLEAN
    /\ {readError, errorCode} \subseteq TransientCodes \cup {NoCode}
    /\ errorStreak \in 0 .. TransientStreak
    /\ redirected \in BOOLEAN /\ expired \in BOOLEAN /\ faulty \in BOOLEAN
    /\ late \in 0 .. MarginPasses
    /\ result \in {"none", "verified", "unverified", "thrown"}
    /\ lastServed \subseteq RouteSet \cup {Marker}

\* What is verified rests on the last answer for the marker and for every
\* single route, although a pass reads only what earlier passes left open: no
\* answer that took an earlier match back is forgotten.
VerifiedOnLastAnswers ==
    result = "verified" => lastServed = RouteSet \cup {Marker}

\* An observation fails only for a reason: unless some read was redirected,
\* failed, or found less than the caches had to hold by then, it verifies,
\* however long stale caches answer and in whatever order.
FailsForAReason == result \in {"unverified", "thrown"} => faulty

\* A pass that starts late gets to every route, and the observation answers:
\* it neither waits for ever nor misses the generation between two passes.
ObservationAnswers == <>(result = "verified" \/ (faulty /\ result # "none"))

\* Test observe-cdn-staleness.test.js, of every transient code: "is transient:
\* waited out once, then verified"; only a redirect, the deadline or a streak
\* of passes with one code ends the waiting.
TransientErrorsAreWaitedOut ==
    result = "unverified" =>
        redirected \/ late > 0 \/ errorStreak >= TransientStreak
=============================================================================
