CONSTANTS
  Items = {"sword", "knife", "herb"}
  NoItem = "none"
  NRoles = 3
  NParts = 1
  PartOf <- MCPartOf
  WornBy <- MCWornBy
  Usable = {"knife", "herb"}
  ToAll = {"knife"}
  Consuming = {"herb"}
  Sellable = {"sword", "herb"}
  Price <- MCPrice
  MaxInventory = 3
  MaxAmount = 2
  MaxGiven = 2
  MaxCash = 2
SPECIFICATION Spec
INVARIANTS NothingHidden EffectsFollow
PROPERTIES EquipConserves
