------------------------------ MODULE MCQuote -------------------------------
EXTENDS Quote
=============================================================================
