----------------------------- MODULE MCContents -----------------------------
EXTENDS Contents
=============================================================================
