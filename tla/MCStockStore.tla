----------------------------- MODULE MCStockStore -----------------------------
EXTENDS StockStore
===============================================================================
