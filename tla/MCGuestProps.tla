---------------------------- MODULE MCGuestProps ----------------------------
EXTENDS GuestProps

\* The values ExampleWaitGuestProperties sets, and one more change.
MCSetsExample == <<"test_val1", "test_val2", "test_val1">>
MCSetsMore == <<"test_val1", "test_val2", "test_val1", "test_val2">>
=============================================================================
