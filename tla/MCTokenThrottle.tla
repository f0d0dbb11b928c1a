---------------------------- MODULE MCTokenThrottle ----------------------------
EXTENDS TokenThrottle
MCKeySets == <<{"old"}, {"new"}>>
================================================================================
