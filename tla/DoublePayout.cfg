\* Two jobs at once on one booking.
SPECIFICATION Spec
CONSTANT Handler = {h1, h2}
INVARIANT OnePayout
CHECK_DEADLOCK FALSE
