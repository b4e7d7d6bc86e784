----------------------------- MODULE MCAsyncWait -----------------------------
EXTENDS AsyncWait
=============================================================================
