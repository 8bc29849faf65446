----------------------------- MODULE MCMessaging -----------------------------
EXTENDS Messaging

MCLength == 0..2
=============================================================================
