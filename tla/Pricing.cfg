CONSTANTS
  Mrps <- SomeMrps
  Quantities <- SomeQuantities
  MaxLines = 2
SPECIFICATION PricingSpec
INVARIANTS AmountsTyped InvoiceAddsUp MrpIsTaxInclusive TaxIsHalved BreakupMatchesBill
CHECK_DEADLOCK FALSE
