--------------------------- MODULE ReservationRules ---------------------------
(***************************************************************************)
(* The reservation policy (services/reservation_policy.py): which rules a  *)
(* request breaks, and which of them whom it stops.  Times are minutes; an *)
(* interval is half-open.                                                  *)
(***************************************************************************)
EXTENDS Integers

CONSTANTS
  NONE,
  DAY,         \* minutes of a day
  UTC_OFFSET   \* minutes from UTC to the makerspace's time

ASSUME RulesAssumption == DAY \in Nat \ {0} /\ UTC_OFFSET \in Nat

OVERRIDABLE_POLICY_CODES ==
  {"duration_below_minimum", "duration_above_maximum", "duration_granularity",
   "minimum_advance_notice", "maximum_advance_notice", "start_granularity", "conflict"}

LEGACY_IMPLICIT_OVERRIDE_CODES ==
  {"duration_below_minimum", "duration_above_maximum",
   "minimum_advance_notice", "maximum_advance_notice"}

\* The settings of a piece of equipment that can be saved.
Acceptable(s) ==
  /\ 0 <= s.min_advance_notice
  /\ 0 < s.max_advance_notice /\ s.min_advance_notice <= s.max_advance_notice
  /\ 0 < s.min_duration /\ s.min_duration <= s.max_duration
  /\ 0 < s.slot_granularity
  /\ s.min_duration % s.slot_granularity = 0
  /\ s.max_duration % s.slot_granularity = 0

When(broken, code) == IF broken THEN {code} ELSE {}

\* The first of these that applies hides the others, and every rule below.
EquipmentViolations(e) ==
  IF e.is_archived THEN {"equipment_archived"}
  ELSE IF e.settings = NONE THEN {"equipment_not_reservable"}
  ELSE When(~e.settings.enabled, "reservations_disabled")

DurationViolations(duration, s) ==
  IF duration <= 0 THEN {"duration_nonpositive"}
  ELSE When(duration < s.min_duration, "duration_below_minimum")
         \cup When(duration > s.max_duration, "duration_above_maximum")
         \cup When(duration % s.slot_granularity # 0, "duration_granularity")

LocalMinute(t) == (t + UTC_OFFSET) % DAY

StartViolations(starts_at, s, now) ==
  When(starts_at < now, "start_in_past")
    \cup When(starts_at < now + s.min_advance_notice, "minimum_advance_notice")
    \cup When(starts_at > now + s.max_advance_notice, "maximum_advance_notice")
    \cup When(LocalMinute(starts_at) % s.slot_granularity # 0, "start_granularity")

Overlap(a, b) == a.starts_at < b.ends_at /\ b.starts_at < a.ends_at

\* What a request for interval i of equipment e breaks at time now; others are the
\* active reservations of e.
Violations(e, i, others, now) ==
  LET hidden == EquipmentViolations(e)
      duration == i.ends_at - i.starts_at
  IN  IF hidden # {} THEN hidden
      ELSE DurationViolations(duration, e.settings)
             \cup StartViolations(i.starts_at, e.settings, now)
             \cup When(duration > 0 /\ \E r \in others : Overlap(r, i), "conflict")

Hard(codes) == codes \ OVERRIDABLE_POLICY_CODES
Overridable(codes) == codes \cap OVERRIDABLE_POLICY_CODES

\* What stops a request made in Slack: staff and technicians pass some rules unasked.
LegacyBlocking(codes, privileged) ==
  IF privileged THEN codes \ LEGACY_IMPLICIT_OVERRIDE_CODES ELSE codes
=============================================================================
