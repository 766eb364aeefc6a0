CONSTANTS
  NRoles = 2
  MaxParty = 2
  Poisons = {"snake", "curse", "charm"}
  NoPoison = "none"
  Level <- MCLevel
  Charm = "charm"
  MaxPoisons = 2
  MaxHP = 2
  Statuses = {"puppet", "dual", "haste", "slow"}
  Troubled = {1}
  Armed = {1}
  Charmed = {2}
  MaxRounds = 1
SPECIFICATION Spec
INVARIANTS NoInheritedPoison CharmFollows DualInBattle PuppetIsDead HasteOrSlow
