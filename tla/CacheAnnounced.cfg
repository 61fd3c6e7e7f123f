SPECIFICATION Spec
CONSTANTS
  tools = tools
  resources = resources
  extra = extra
  init = init
  list1 = list1
  list2 = list2
  call = call
  Nobody = Nobody
  Methods = {tools, resources}
  ToolsList = tools
  Initializes = {}
  Lists = {list1, list2}
  Others = {}
  MethodOf <- TwoLists
  Announcements = {{extra}}
  InitialFiles <- NoFiles
  Edits = {}
  Workloads = {{list1, list2}}
  MaxFaults = 0
INVARIANTS AnnouncedKept
