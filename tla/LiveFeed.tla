------------------------------ MODULE LiveFeed ------------------------------
(***************************************************************************)
(* The live feed: live_events of api/routes/events.py and the polling of   *)
(* dashboard/src/pages/LiveFeed.jsx, over the tables of EventStore.  A     *)
(* poll is sent, answered by the API, and applied by the page, in three    *)
(* steps; nothing keeps a second poll from starting in between.            *)
(***************************************************************************)
EXTENDS EventQueries

CONSTANTS
  LiveLimit,   \* limit of a poll
  MAX_ROWS,    \* rows the page keeps
  Slots        \* polls that may be under way

ASSUME FeedAssumption == LiveLimit \in Nat \ {0} /\ MAX_ROWS \in Nat \ {0}

VARIABLES
  feed,    \* the page: [rows, cursor, filter, paused]
  polls    \* slot -> poll

feedvars == <<feed, polls>>

NoCursor == 0
NoPoll == [pc |-> "idle", cursor |-> NoCursor, filter |-> 0, fresh |-> <<>>]

(* poll() up to its await: the parameters are those of this moment. *)
Sent(filter, cursor) == [NoPoll EXCEPT !.pc = "sent", !.cursor = cursor, !.filter = filter]

FirstSlot == CHOOSE s \in Slots : TRUE

(* The page is mounted and polls at once.  overlapped: a poll was sent or a  *)
(* filter changed while another was under way; mixed: a filter changed;      *)
(* skewed: a row came whose place was not at the top, rows were deleted, or  *)
(* more came between two polls than one returns.                             *)
FeedInit ==
  /\ feed = [rows |-> <<>>, cursor |-> NoCursor, filter |-> 0, paused |-> FALSE,
             overlapped |-> FALSE, mixed |-> FALSE, skewed |-> FALSE]
  /\ polls = [s \in Slots |-> IF s = FirstSlot THEN Sent(0, NoCursor) ELSE NoPoll]

Busy == {s \in Slots : polls[s].pc # "idle"}

(* The interval. *)
PollStarts ==
  /\ ~ feed.paused
  /\ \E s \in Slots \ Busy : polls' = [polls EXCEPT ![s] = Sent(feed.filter, feed.cursor)]
  /\ feed' = [feed EXCEPT !.overlapped = @ \/ Busy # {}]
  /\ UNCHANGED queryvars

(* rows[:cutoff], or all of them if the cursor is not among them. *)
NewerThan(rows, cursor) ==
  LET at == {i \in DOMAIN rows : rows[i].id = cursor}
  IN  IF at = {} THEN rows ELSE SubSeq(rows, 1, (CHOOSE i \in at : TRUE) - 1)

Newest(listing) == SubSeq(listing, 1, IF Len(listing) < LiveLimit THEN Len(listing) ELSE LiveLimit)

(* live_events: the newest rows with this filter, down to the cursor.        *)
live_events(s) ==
  /\ polls[s].pc = "sent"
  /\ \E listing \in Listings(Matching(polls[s].filter)) :
       LET rows == Newest(listing)
           known == \E i \in DOMAIN rows : rows[i].id = polls[s].cursor
       IN  /\ polls' = [polls EXCEPT ![s].pc = "answered", ![s].fresh = NewerThan(rows, polls[s].cursor)]
           /\ feed' = [feed EXCEPT !.skewed = @ \/ (polls[s].cursor # NoCursor /\ ~ known)]
  /\ UNCHANGED queryvars

(* Mutant: the cursor is the last row of the answer. *)
NextCursor_Oldest(fresh) == fresh[Len(fresh)].id

NextCursor(fresh) == fresh[1].id

(* slice(0, MAX_ROWS) *)
Kept(rows) == SubSeq(rows, 1, IF Len(rows) < MAX_ROWS THEN Len(rows) ELSE MAX_ROWS)

(* The rest of poll(). *)
PollApplies(s) ==
  /\ polls[s].pc = "answered"
  /\ polls' = [polls EXCEPT ![s] = NoPoll]
  /\ feed' = IF polls[s].fresh = <<>> THEN feed
             ELSE [feed EXCEPT !.cursor = NextCursor(polls[s].fresh),
                               !.rows = Kept(polls[s].fresh \o @)]
  /\ UNCHANGED queryvars

(* The request fails: the error is shown, nothing else changes. *)
PollFails(s) ==
  /\ polls[s].pc # "idle"
  /\ polls' = [polls EXCEPT ![s] = NoPoll]
  /\ UNCHANGED <<feed, queryvars>>

Reset(rows) == <<>>

(* Another minimum severity: the buffer is reset and a poll is sent at once, *)
(* and those under way are not aborted.                                      *)
FilterChanges ==
  \E f \in {0, 1} \ {feed.filter} :
    /\ IF feed.paused THEN UNCHANGED polls
       ELSE \E s \in Slots \ Busy : polls' = [polls EXCEPT ![s] = Sent(f, NoCursor)]
    /\ feed' = [feed EXCEPT !.filter = f, !.rows = Reset(@), !.cursor = NoCursor,
                            !.overlapped = @ \/ Busy # {}, !.mixed = @ \/ Busy # {}]
    /\ UNCHANGED queryvars

(* The page is paused, or resumed, which sends a poll at once.               *)
TogglesPause ==
  /\ IF feed.paused THEN \E s \in Slots \ Busy : polls' = [polls EXCEPT ![s] = Sent(feed.filter, feed.cursor)]
     ELSE UNCHANGED polls
  /\ feed' = [feed EXCEPT !.paused = ~ @, !.overlapped = @ \/ (feed.paused /\ Busy # {})]
  /\ UNCHANGED queryvars

FeedNext ==
  \/ PollStarts \/ FilterChanges \/ TogglesPause
  \/ \E s \in Slots : live_events(s) \/ PollApplies(s) \/ PollFails(s)

(* What the others do to the tables, as the feed sees it. *)
FeedSees ==
  /\ feed' = [feed EXCEPT !.skewed =
       @ \/ events \ events' # {} \/ \E e \in events' \ events, d \in events : Before(d, e)]
  /\ UNCHANGED polls

-----------------------------------------------------------------------------
FeedTypeOK ==
  /\ Len(feed.rows) <= MAX_ROWS
  /\ \A s \in Slots : polls[s].pc \in {"idle", "sent", "answered"} /\ Len(polls[s].fresh) <= LiveLimit

(* The feed shows a row once: two polls under way with one cursor bring the  *)
(* same rows, and so does a poll whose cursor is no longer among the newest  *)
(* rows, but nothing else.                                                   *)
FeedShowsOnce ==
  ~ feed.overlapped /\ ~ feed.skewed =>
    \A i, j \in DOMAIN feed.rows : feed.rows[i].id = feed.rows[j].id => i = j

(* "gets only what arrived since": the feed has no holes.  Every row of the  *)
(* table between the oldest and the newest row shown is shown, newest first, *)
(* as long as rows come in the order of their timestamps.                    *)
FeedHasNoHoles ==
  ~ feed.overlapped /\ ~ feed.skewed =>
    /\ \A i, j \in DOMAIN feed.rows : i < j => Before(feed.rows[i], feed.rows[j])
    /\ feed.rows # <<>> =>
         \A e \in Matching(feed.filter) :
           (e = feed.rows[1] \/ Before(feed.rows[1], e)) /\ Before(e, feed.rows[Len(feed.rows)])
             => \E i \in DOMAIN feed.rows : feed.rows[i] = e

(* "mixing filtered and unfiltered rows in one list would be misleading": a  *)
(* row below the chosen severity is shown only if a poll was under way when  *)
(* the filter changed.                                                       *)
FeedIsFiltered ==
  ~ feed.mixed => \A i \in DOMAIN feed.rows : severity[feed.rows[i].type] >= feed.filter

(* The page shows what the table has: once, in order, without holes, and     *)
(* with its filter, but for the overlaps and the skew that the code admits.  *)
FeedIsFaithful == FeedTypeOK /\ FeedShowsOnce /\ FeedHasNoHoles /\ FeedIsFiltered

-----------------------------------------------------------------------------
(* The inductive invariant behind it. *)

(* A part of the listing with this filter that has no holes. *)
Whole(rows, filter) ==
  /\ \A i \in DOMAIN rows : rows[i] \in Matching(filter)
  /\ \A i, j \in DOMAIN rows : i < j => Before(rows[i], rows[j])
  /\ rows # <<>> =>
       \A e \in Matching(filter) :
         (e = rows[1] \/ Before(rows[1], e)) /\ Before(e, rows[Len(rows)])
           => \E i \in DOMAIN rows : rows[i] = e

(* One poll is under way, for what the page wants, from the row at its top   *)
(* on; its answer continues what is shown upwards.                           *)
FeedIsWhole ==
  ~ feed.overlapped /\ ~ feed.skewed =>
    /\ \A s, t \in Busy : s = t
    /\ feed.cursor = IF feed.rows = <<>> THEN NoCursor ELSE feed.rows[1].id
    /\ \A s \in Busy : polls[s].filter = feed.filter /\ polls[s].cursor = feed.cursor
    /\ Whole(feed.rows, feed.filter)
    /\ \A s \in Slots : polls[s].pc = "answered" => Whole(polls[s].fresh \o feed.rows, feed.filter)

(* An answer has the filter of its poll, which is the page's unless that     *)
(* changed in between.                                                       *)
FilterKept ==
  /\ \A s \in Slots : \A i \in DOMAIN polls[s].fresh :
       severity[polls[s].fresh[i].type] >= polls[s].filter
  /\ ~ feed.mixed => \A s \in Busy : polls[s].filter = feed.filter

FeedInv == FeedTypeOK /\ FeedIsWhole /\ FilterKept /\ FeedIsFiltered

=============================================================================
