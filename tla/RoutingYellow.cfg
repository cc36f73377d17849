CONSTANTS
  Pressures <- MCPressures
  Unreachable = Unreachable
  anthropic = anthropic
  openai = openai
  deepseek = deepseek
  OtherType = OtherType
  OtherLevel = OtherLevel
SPECIFICATION RoutingSpec
INVARIANT YellowStepsDown
