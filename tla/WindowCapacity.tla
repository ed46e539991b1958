--------------------------- MODULE WindowCapacity ---------------------------
(***************************************************************************)
(* Maintenance windows and the bundles that are put into them: the          *)
(* endpoints of api/v1/maintenance_windows.py, and the two ways in which a  *)
(* bundle gets its window: assign_bundle_to_window and update_bundle of     *)
(* api/v1/bundles.py.  (The third, the optimizer, makes none: see Goals.)   *)
(*                                                                          *)
(* Only the first way checks that the bundle fits, on what its session has  *)
(* read.  Kept of a window: whether it exists and whether it has started,   *)
(* its length being a constant; of a bundle: its status, its window and how *)
(* long it takes.  Limits on risk and assets, and the rules, are a check    *)
(* that may fail (Refused).                                                 *)
(***************************************************************************)
EXTENDS Requests, FiniteSetsExt

CONSTANTS Windows, Bundles,
          NoWindow,         \* the value NULL of bundles.maintenance_window_id
          WindowMinutes,    \* duration_hours * 60 of every window
          Minutes           \* estimated_duration_minutes of each bundle

ASSUME WindowAssumption ==
  /\ NoWindow \notin Windows
  /\ IsFiniteSet(Sessions) /\ Sessions # {}
  /\ IsFiniteSet(Bundles) /\ Bundles # {}
  /\ WindowMinutes \in Nat
  /\ Minutes \in [Bundles -> Nat]

VARIABLES calendar,   \* the tables maintenance_windows and bundles
          unchecked   \* history: windows that were given a bundle unchecked

windowVars == <<calendar, unchecked>>

Phases == {"absent", "future", "started", "deleted"}
BundleStatuses == {"draft", "scheduled", "approved"}

Calendar ==
  [phase : [Windows -> Phases],
   status : [Bundles -> BundleStatuses],
   at : [Bundles -> Windows \cup {NoWindow}]]

WindowTypeOK ==
  /\ calendar \in Calendar
  /\ unchecked \subseteq Windows

WindowInit ==
  /\ RequestsInit
  /\ calendar \in [phase : [Windows -> {"absent", "future"}],
                   status : [Bundles -> {"draft"}],
                   at : {[b \in Bundles |-> NoWindow]}]
  /\ unchecked = {}

Existing(c) == {w \in Windows : c.phase[w] \in {"future", "started"}}
InWindow(c, w) == {b \in Bundles : c.at[b] = w}
Load(bundles) == MapThenSumSet(LAMBDA b : Minutes[b], bundles)

Read(s) ==
  /\ ReadBy(s, calendar)
  /\ UNCHANGED windowVars

\* A check fails, the handler raises or its process dies: nothing is kept.
Refused(s) == EndOf(s) /\ UNCHANGED windowVars

-----------------------------------------------------------------------------
(* Windows *)

\* Overlaps with other windows are printed, not refused.
create_maintenance_window(s) ==
  /\ EndOf(s)
  /\ \E w \in Windows :
       /\ calendar.phase[w] = "absent"
       /\ \E p \in {"future", "started"} :   \* emergencies may start in the past
            calendar' = [calendar EXCEPT !.phase[w] = p]
  /\ UNCHANGED unchecked

\* All occurrences are added before the one commit.
create_recurring_windows(s) ==
  /\ EndOf(s)
  /\ \E W \in SUBSET {w \in Windows : calendar.phase[w] = "absent"} :
       /\ Cardinality(W) > 1
       /\ calendar' = [calendar EXCEPT !.phase =
                         [w \in Windows |-> IF w \in W THEN "future" ELSE @[w]]]
  /\ UNCHANGED unchecked

DeletableUnlessStarted(c, w) == c.phase[w] = "future"

DeletableWindow(c, w) ==
  /\ c.phase[w] = "future"
  /\ \A b \in InWindow(c, w) : c.status[b] \notin {"scheduled", "approved"}

\* The bundles that were loaded with the window have their reference set to
\* NULL; one that came since makes the foreign key refuse the deletion.
delete_maintenance_window(s) ==
  /\ EndOf(s)
  /\ \E w \in Existing(calendar) :
       LET loaded == InWindow(seen[s], w) IN
       /\ DeletableWindow(seen[s], w)
       /\ InWindow(calendar, w) \subseteq loaded
       /\ calendar' = [calendar EXCEPT
            !.phase[w] = "deleted",
            !.at = [b \in Bundles |-> IF b \in loaded THEN NoWindow ELSE @[b]]]
  /\ UNCHANGED unchecked

\* Time passes the start of a window.
StartTime(w) ==
  /\ calendar.phase[w] = "future"
  /\ calendar' = [calendar EXCEPT !.phase[w] = "started"]
  /\ UNCHANGED <<unchecked, requestVars>>

-----------------------------------------------------------------------------
(* Bundles *)

FitsIgnoringOwn(c, b, w) == Load(InWindow(c, w) \ {b}) <= WindowMinutes

\* "new_total_duration > window_duration_minutes" is refused.
Fits(c, b, w) == Load(InWindow(c, w) \ {b}) + Minutes[b] <= WindowMinutes

WriteBundle(s, b, status, at) ==
  LET old == seen[s] IN
  calendar' = [calendar EXCEPT
    !.status[b] = Put(old.status[b], status, @),
    !.at[b] = Put(old.at[b], at, @)]

\* Neither the status of the bundle nor the phase of the window is looked at.
assign_bundle_to_window(s) ==
  /\ EndOf(s)
  /\ \E b \in Bundles, w \in Existing(seen[s]) :
       /\ Fits(seen[s], b, w)
       /\ w \in Existing(calendar) \/ w = seen[s].at[b]  \* not written then
       /\ WriteBundle(s, b, "scheduled", w)
  /\ UNCHANGED unchecked

unassign_to_unassigned(s) ==
  /\ EndOf(s)
  /\ \E b \in Bundles : WriteBundle(s, b, "unassigned", NoWindow)
  /\ UNCHANGED unchecked

unassign(s) ==
  /\ EndOf(s)
  /\ \E b \in Bundles :
       LET status == seen[s].status[b] IN
       WriteBundle(s, b, IF status = "scheduled" THEN "draft" ELSE status, NoWindow)
  /\ UNCHANGED unchecked

\* The editor of a bundle may name any window: only the foreign key is checked.
update_bundle(s) ==
  /\ EndOf(s)
  /\ \E b \in Bundles, w \in Existing(calendar) \cup {NoWindow} :
       LET status == seen[s].status[b] IN
       /\ WriteBundle(s, b, IF status = "approved" THEN "draft" ELSE status, w)
       /\ unchecked' = unchecked \cup ({w} \ {NoWindow})

\* The transitions of a bundle between the statuses that matter here.
update_bundle_status(s) ==
  /\ EndOf(s)
  /\ \E b \in Bundles, new \in {"draft", "scheduled", "approved"} :
       LET old == seen[s] IN
       /\ old.status[b] = "approved" => new = "draft"
       /\ WriteBundle(s, b, new, old.at[b])
  /\ UNCHANGED unchecked

-----------------------------------------------------------------------------
WindowHandler(s) ==
  \/ Read(s)
  \/ Refused(s)
  \/ create_maintenance_window(s)
  \/ create_recurring_windows(s)
  \/ delete_maintenance_window(s)
  \/ assign_bundle_to_window(s)
  \/ unassign(s)
  \/ update_bundle(s)
  \/ update_bundle_status(s)

WindowNext ==
  \/ \E s \in Sessions : WindowHandler(s)
  \/ \E w \in Windows : StartTime(w)

WindowSpec == WindowInit /\ [][WindowNext]_<<windowVars, requestVars>>

-----------------------------------------------------------------------------
(* Properties *)

LongestBundle == Max({Minutes[b] : b \in Bundles})

\* A window whose bundles all came through assign_bundle_to_window is not
\* overcommitted; when assignments overlap, by no more than one bundle for each
\* further request.  (Minutes are summed before the commit that adds to them.)
CapacityKept ==
  \A w \in Windows \ unchecked :
    Load(InWindow(calendar, w)) <= WindowMinutes + Overlap * LongestBundle

\* Deleting a window takes no scheduled or approved bundle off its window ("Can
\* only delete future windows with no scheduled bundles"), when nothing overlaps
\* with the deletion, whose UPDATEs name bundles by what was loaded.
DeletionSparesScheduled ==
  [][\A w \in Windows :
       isolated /\ calendar.phase[w] # "deleted" /\ calendar'.phase[w] = "deleted"
       => \A b \in Bundles : calendar.status[b] \in {"scheduled", "approved"}
                             => calendar'.at[b] = calendar.at[b]]_<<windowVars, requestVars>>

\* Both: the load of a window, and the bundles in it.
WindowsKept == []CapacityKept /\ DeletionSparesScheduled
=============================================================================
