SPECIFICATION Spec
CONSTANTS
  Last = 2
  MaxAssets = 2
  Appliers = {p1, p2}
  MaxFaults = 3
  None = None
INVARIANTS TypeOK RowsResumable HolderIsNotOvertaken OneAssetPerTarget ReceiptIsTrue ActiveIsShown
PROPERTIES AssetStays ApplyFinishes
CHECK_DEADLOCK FALSE
