------------------------------ MODULE Playback ------------------------------
(***************************************************************************)
(* Playback reports of one user (server/media.go playing and               *)
(* store/playback_sessions.go).  Clients report start, progress and stop   *)
(* of a session; reports come late, twice and in any order, and several    *)
(* are handled at a time.  user_id is part of every key, so that one user  *)
(* is enough; positions and times are left out.                            *)
(***************************************************************************)
EXTENDS Naturals, FiniteSets

CONSTANTS
  Plays,         \* session keys: PlaySessionIds, or "item:<movie>" without one
  Titles,        \* movie ids
  Reports,       \* requests in flight
  NoSession,     \* there is no row in playback_sessions
  EventsRetain,  \* playbackEventsRetain
  PruneEvery,    \* playbackPruneEvery
  MaxEvents      \* bound: ids of playback_events

ASSUME PlaybackAssumption ==
  /\ EventsRetain \in Nat /\ PruneEvery \in Nat \ {0} /\ MaxEvents \in Nat
  /\ IsFiniteSet(Plays)
  /\ NoSession \notin [title : Titles, stopped : BOOLEAN, seq : 1..MaxEvents]

VARIABLES
  titles,    \* movies that are visible in the index
  session,   \* playback_sessions
  counts,    \* userdata.play_count
  events,    \* playback_events: id, session and seq
  lastEvent, \* the AUTOINCREMENT of that table
  report,    \* locals of the requests
  opened     \* history: how often sessions of each movie have been opened

playVars == <<titles, session, counts, events, lastEvent, report, opened>>

Kinds == {"start", "progress", "stopped"}
NoReport == [at |-> "free"]

PlaybackInit ==
  /\ titles = Titles /\ session = [p \in Plays |-> NoSession]
  /\ counts = [t \in Titles |-> 0]
  /\ events = {} /\ lastEvent = 0
  /\ report = [r \in Reports |-> NoReport] /\ opened = [t \in Titles |-> 0]

\* playing: the movie is resolved and seen to be visible ...
Resolve(r) ==
  /\ report[r] = NoReport
  /\ \E p \in Plays, t \in titles, kind \in Kinds :
       report' = [report EXCEPT ![r] = [at |-> "resolved", play |-> p, title |-> t,
                                        kind |-> kind]]
  /\ UNCHANGED <<titles, session, counts, events, lastEvent, opened>>

-----------------------------------------------------------------------------
(* RecordPlaybackEvent, one write transaction *)

HasSession(p) == session[p] # NoSession
Stopped == {p \in Plays : HasSession(p) /\ session[p].stopped}
Of(t) == {p \in Plays : HasSession(p) /\ session[p].title = t}

\* Seeded fault: a stop is counted whenever it comes.
AcceptsAnyStop(p, kind) ==
  kind \in {"start", "stopped"} \/ p \notin Stopped

\* A start always opens the session; anything else needs it new or open.
Accepts(p, kind) == kind = "start" \/ p \notin Stopped

StoppedAfter(p, kind) ==
  kind = "stopped" \/ (kind = "progress" /\ p \in Stopped)

EventSeq(p) == IF HasSession(p) THEN session[p].seq ELSE 0

\* Seeded fault: only stops move the pruning window.
PrunedByStops(es, id, kind) ==
  IF kind # "stopped" \/ id % PruneEvery # 0 THEN es
  ELSE {e \in es : Cardinality({f \in es : f.id > e.id}) < EventsRetain}

\* maybePrunePlaybackEvents, with the insertion that has just been made.
PrunedEvents(es, id, kind) ==
  IF id % PruneEvery # 0 THEN es
  ELSE {e \in es : Cardinality({f \in es : f.id > e.id}) < EventsRetain}

\* The session is bound to its first movie; the movie must be there still,
\* because of the foreign key.
Record(r) ==
  LET e == report[r]  p == e.play  t == e.title IN
  /\ e.at = "resolved" /\ t \in titles /\ Accepts(p, e.kind)
  /\ HasSession(p) => p \in Of(t)
  /\ lastEvent < MaxEvents /\ lastEvent' = lastEvent + 1
  /\ session' = [session EXCEPT ![p] =
       [title |-> t, stopped |-> StoppedAfter(p, e.kind), seq |-> EventSeq(p) + 1]]
  /\ events' = PrunedEvents(events \cup {[id |-> lastEvent', play |-> p,
                                          seq |-> EventSeq(p) + 1]}, lastEvent', e.kind)
  /\ counts' = [counts EXCEPT ![t] = IF e.kind = "stopped" THEN @ + 1 ELSE @]
  /\ opened' = [opened EXCEPT ![t] =
       IF ~HasSession(p) \/ (p \in Stopped /\ e.kind = "start") THEN @ + 1 ELSE @]
  /\ report' = [report EXCEPT ![r] = NoReport]
  /\ UNCHANGED titles

\* Conflict, foreign key, duplicate stop, late progress: nothing is written.
Ignore(r) ==
  LET e == report[r] IN
  /\ e.at = "resolved"
  /\ \/ e.title \notin titles
     \/ HasSession(e.play) /\ e.play \notin Of(e.title)
     \/ ~Accepts(e.play, e.kind)
  /\ report' = [report EXCEPT ![r] = NoReport]
  /\ UNCHANGED <<titles, session, counts, events, lastEvent, opened>>

-----------------------------------------------------------------------------
(* The index *)

\* DELETE FROM movies takes what refers to the movie with it.
DeleteTitle(t) ==
  /\ t \in titles /\ titles' = titles \ {t}
  /\ session' = [p \in Plays |-> IF p \in Of(t) THEN NoSession ELSE session[p]]
  /\ events' = {e \in events : e.play \notin Of(t)}
  /\ counts' = [counts EXCEPT ![t] = 0]
  /\ opened' = [opened EXCEPT ![t] = 0]
  /\ UNCHANGED <<lastEvent, report>>

\* Another movie may get the id of a deleted one.
AddTitle(t) ==
  /\ t \notin titles /\ titles' = titles \cup {t}
  /\ UNCHANGED <<session, counts, events, lastEvent, report, opened>>

PlaybackNext ==
  \/ \E r \in Reports : Resolve(r) \/ Record(r) \/ Ignore(r)
  \/ \E t \in Titles : \/ DeleteTitle(t) \/ AddTitle(t)

PlaybackSpec == PlaybackInit /\ [][PlaybackNext]_playVars

-----------------------------------------------------------------------------
(* Properties *)

PlaybackTypeOK ==
  /\ titles \subseteq Titles
  /\ session \in [Plays -> [title : Titles, stopped : BOOLEAN, seq : 1..MaxEvents]
                             \cup {NoSession}]
  /\ counts \in [Titles -> 0..MaxEvents]
  /\ events \subseteq [id : 1..MaxEvents, play : Plays, seq : 1..MaxEvents]
  /\ Cardinality(events) <= EventsRetain + PruneEvery - 1
  /\ lastEvent \in 0..MaxEvents /\ opened \in [Titles -> 0..MaxEvents]

\* Every play is counted once: the count of a movie is the number of times its
\* sessions were opened, less those that are open, whatever stops were sent
\* twice and whatever heartbeats came after them.
PlaysCounted ==
  \A t \in Titles : counts[t] + Cardinality(Of(t) \ Stopped) = opened[t]
=============================================================================
