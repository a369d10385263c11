------------------------- MODULE MCPaymentExchange --------------------------
EXTENDS PaymentExchange
MCValues == {"v1", "v2"}
=============================================================================
