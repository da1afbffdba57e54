\* Three handlers or jobs at once on one booking.
SPECIFICATION Spec
CONSTANT Handler = {h1, h2, h3}
INVARIANT LiveIsPaid
PROPERTY UnpaidEnds
CHECK_DEADLOCK FALSE
