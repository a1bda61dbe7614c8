------------------------- MODULE MCInvoiceCreation -------------------------
\* Model values for InvoiceCreation: the cfg files give the bounds.
EXTENDS InvoiceCreation
=============================================================================
