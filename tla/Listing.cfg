CONSTANTS
  a = a  b = b
  Keys <- MCKeys  Vals <- MCVals
  Gone = Gone  Kept = Kept
  Page = 1
  Asked <- MCAsked
  MaxStaged = 2
  MaxWrites = 2
  Top = 1  PrefixLen = 2  MaxLen = 2
SPECIFICATION Spec
SYMMETRY OfVals
INVARIANTS ViewsAgree AccountingAgrees ListingFaithful RangesStayInside WalksAreWhole EnvelopeHonest
PROPERTY LandsInOrder
