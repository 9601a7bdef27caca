----------------------------- MODULE MCNotifier -----------------------------
EXTENDS Notifier

CONSTANTS k1
=============================================================================
