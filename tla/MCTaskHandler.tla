---------------------------- MODULE MCTaskHandler ----------------------------
EXTENDS TaskHandler

MCRequest == {[headerPresent |-> TRUE, protocol |-> "HD"],
              [headerPresent |-> FALSE, protocol |-> "MOTION"]}
=============================================================================
