-------------------------- MODULE MCLifecycleLive --------------------------
EXTENDS LifecycleLive, MCLifecycle
==============================================================================
