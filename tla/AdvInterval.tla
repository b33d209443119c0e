---------------------------- MODULE AdvInterval ----------------------------
(***************************************************************************)
(* The advertising interval a session identifier stands for, in            *)
(* milliseconds (beacon_pdu_data.c), and how far the time between two PDUs *)
(* may be off it (adv_time_authorize.c).  The code computes both with      *)
(* doubles; for each of the 2^14 identifiers the integers here are equal.  *)
(***************************************************************************)
EXTENDS Integers

MIN_ADV_TIME_MS == 3000
MAX_ADV_TIME_MS == 5000
SCALE_SINGLE_MS == 80
MAX_KEY_ID_VAL == 16383

\* x / y rounded to the nearest integer, halves upwards.
Rounded(x, y) == (2 * x + y) \div (2 * y)

\* get_adv_interval_from_key_id
GetAdvIntervalFromKeyId(key_id) ==
    LET raw == MIN_ADV_TIME_MS * MAX_KEY_ID_VAL
                   + key_id * (MAX_ADV_TIME_MS - MIN_ADV_TIME_MS)
        rounded == SCALE_SINGLE_MS
                       * Rounded(raw, SCALE_SINGLE_MS * MAX_KEY_ID_VAL)
    IN  IF rounded < MIN_ADV_TIME_MS THEN MIN_ADV_TIME_MS
        ELSE IF rounded > MAX_ADV_TIME_MS THEN MAX_ADV_TIME_MS
        ELSE rounded

\* get_tolerance_window_based_on_adv_interval
ToleranceWindow(adv_interval) ==
    LET percent == CASE adv_interval >= 3000 -> 5
                     [] adv_interval < 3000 /\ adv_interval >= 1000 -> 10
                     [] adv_interval < 1000 /\ adv_interval > 500 -> 15
                     [] adv_interval <= 500 /\ adv_interval > 200 -> 20
                     [] OTHER -> 30
    IN  (adv_interval * percent) \div 100
============================================================================
